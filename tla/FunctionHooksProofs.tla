------------------------- MODULE FunctionHooksProofs -------------------------
(***************************************************************************)
(* Proofs about module FunctionHooks, for any states, actions and props,   *)
(* any component (as far as ComponentAssumption says), any times, and any  *)
(* number of updates and of renders that are thrown away.                  *)
(*                                                                         *)
(* The loops of updateReducer and rerenderReducer are folds.  What they    *)
(* compute is described by the states (Along) and passes (LoopPasses) on   *)
(* the way; a set of positions where the description is false would have   *)
(* no smallest element, and is empty (NoSmallest).  On that rest lemmas    *)
(* that say what a render makes of the fibers, whatever waits (Reduced,    *)
(* Finishes), and one that tells each action in these words (Does).  The   *)
(* invariant has four parts, kept by every step: the types and the shape   *)
(* of the state; the instances of the effects; the screen; and the account *)
(* of the updates (CurrentInv, AlternateInv).                              *)
(***************************************************************************)
EXTENDS FunctionHooks, SequenceTheorems, WellFoundedInduction, TLAPS

\* Updates as dispatchAction makes them.
Updates == [time : Times, action : [States -> States], eager : States \cup {NoState}]

\* The states on the way from s through the updates.
Along(s, updates) ==
    CHOOSE f : f = [i \in 0 .. Len(updates) |->
                      IF i = 0 THEN s ELSE updates[i].action[f[i - 1]]]

\* A set of numbers that has none without a smaller one is empty: induction
\* without an operator.
LEMMA NoSmallest ==
    ASSUME NEW S \in SUBSET Nat,
           \A n \in S : \E m \in S : m < n
    PROVE  S = {}
<1> SUFFICES ASSUME S # {} PROVE FALSE
    OBVIOUS
<1>1. PICK x \in S : \A y \in S : ~ (<<y, x>> \in OpToRel(<, Nat))
    <2> HIDE DEF IsWellFoundedOn
    <2> QED BY NatLessThanWellFounded, WFMin, Zenon
<1>2. PICK y \in S : y < x
    OBVIOUS
<1> QED
    BY <1>1, <1>2 DEF OpToRel

\* The definition of Along makes sense: there is such a function.
LEMMA AlongIs ==
    ASSUME NEW s, NEW updates, Len(updates) \in Nat
    PROVE  Along(s, updates) = [i \in 0 .. Len(updates) |->
                IF i = 0 THEN s ELSE updates[i].action[Along(s, updates)[i - 1]]]
<1> DEFINE Is(f, n) == f = [i \in 0 .. n |-> IF i = 0 THEN s ELSE updates[i].action[f[i - 1]]]
           Bad == {n \in Nat : ~ \E f : Is(f, n)}
<1>1. ASSUME NEW n \in Bad PROVE \E m \in Bad : m < n
  <2>1. n # 0
    <3>1. Is([i \in 0 .. 0 |-> s], 0)
        OBVIOUS
    <3> QED BY <3>1
  <2>2. SUFFICES ASSUME n - 1 \notin Bad PROVE FALSE
        BY <2>1
  <2>3. PICK f : Is(f, n - 1)
        BY <2>1, <2>2
  <2> DEFINE g == [i \in 0 .. n |-> IF i = n THEN updates[n].action[f[n - 1]] ELSE f[i]]
  <2>4. \A i \in 0 .. n : g[i] = IF i = 0 THEN s ELSE updates[i].action[g[i - 1]]
    <3> TAKE i \in 0 .. n
    <3>1. CASE i = n
        BY <2>1, <3>1
    <3>2. CASE i # n
        <4>1. i \in 0 .. (n - 1) /\ (i = 0 \/ i - 1 \in 0 .. (n-1))
            BY <3>2
        <4>2. f[i] = IF i = 0 THEN s ELSE updates[i].action[f[i - 1]]
            BY <2>3, <4>1
        <4>3. g[i] = f[i] /\ (i # 0 => g[i - 1] = f[i - 1])
            BY <3>2, <4>1
        <4> QED BY <4>2, <4>3
    <3> QED BY <3>1, <3>2
  <2>5. Is(g, n)
    <3> HIDE DEF g
    <3>1. g = [i \in 0 .. n |-> g[i]]
        BY DEF g
    <3> QED BY <2>4, <3>1
  <2> QED BY <2>5
<1>2. \E f : Is(f, Len(updates))
  <2> HIDE DEF Is
  <2> QED BY <1>1, NoSmallest
<1> QED
    BY <1>2 DEF Along

\* The fold of the model arrives where the states on the way arrive.
LEMMA ReplayIs ==
    ASSUME NEW s, NEW updates, Len(updates) \in Nat
    PROVE  Replay(s, updates) = Along(s, updates)[Len(updates)]
<1>1. ASSUME NEW g, NEW i
      PROVE  With(g[i - 1], LAMBDA a : updates[i].action[a]) = updates[i].action[g[i - 1]]
    BY DEF With
<1>2. \A g : [i \in 0 .. Len(updates) |->
               IF i = 0 THEN s ELSE With(g[i - 1], LAMBDA a : updates[i].action[a])]
           = [i \in 0 .. Len(updates) |->
               IF i = 0 THEN s ELSE updates[i].action[g[i - 1]]]
    BY <1>1
<1> QED
    BY <1>2 DEF Replay, Fold, Stages, Along

\* The first state on the way, and each next one from the one before.
LEMMA AlongValue ==
    ASSUME NEW s, NEW updates, Len(updates) \in Nat
    PROVE  /\ Along(s, updates)[0] = s
           /\ \A i \in 1 .. Len(updates) :
                Along(s, updates)[i] = updates[i].action[Along(s, updates)[i - 1]]
BY AlongIs

\* The states on the way are states.
LEMMA AlongType ==
    ASSUME NEW s \in States, NEW updates \in Seq(Updates), NEW i \in 0 .. Len(updates)
    PROVE  Along(s, updates)[i] \in States
<1> DEFINE Bad == {n \in 0 .. Len(updates) : Along(s, updates)[n] \notin States}
<1>1. ASSUME NEW n \in Bad PROVE \E m \in Bad : m < n
  <2>1. n # 0 /\ Along(s, updates)[n] = updates[n].action[Along(s, updates)[n - 1]]
      BY AlongValue
  <2>2. updates[n] \in Updates
      BY <2>1
  <2> QED BY <2>1, <2>2 DEF Updates
<1>2. Bad \in SUBSET Nat /\ \A n \in Bad : \E m \in Bad : m < n
    BY <1>1
<1>3. Bad = {}
    <2> HIDE DEF Bad
    <2> QED BY <1>2, NoSmallest
<1> QED BY <1>3

\* The states on the way depend on no later update.
LEMMA AlongPrefix ==
    ASSUME NEW s, NEW updates \in Seq(Updates), NEW more \in Seq(Updates),
           Len(updates) <= Len(more),
           \A i \in 1 .. Len(updates) : more[i] = updates[i]
    PROVE  \A i \in 0 .. Len(updates) : Along(s, more)[i] = Along(s, updates)[i]
<1> DEFINE Bad == {n \in 0 .. Len(updates) : Along(s, more)[n] # Along(s, updates)[n]}
<1>1. ASSUME NEW n \in Bad PROVE \E m \in Bad : m < n
  <2>1. n # 0
      BY AlongValue
  <2>2. Along(s, more)[n] = more[n].action[Along(s, more)[n - 1]]
    <3>1. Len(more) \in Nat /\ n \in 1 .. Len(more)
        BY <2>1
    <3> QED BY <3>1, AlongValue
  <2>3. Along(s, updates)[n] = updates[n].action[Along(s, updates)[n - 1]]
      BY <2>1, AlongValue
  <2> QED BY <2>1, <2>2, <2>3
<1>2. Bad \in SUBSET Nat /\ \A n \in Bad : \E m \in Bad : m < n
    BY <1>1
<1>3. Bad = {}
    <2> HIDE DEF Bad
    <2> QED BY <1>2, NoSmallest
<1> QED BY <1>3

\* One more update at the end adds one state.
LEMMA AlongAppend ==
    ASSUME NEW s, NEW updates \in Seq(Updates), NEW u \in Updates
    PROVE  /\ \A i \in 0 .. Len(updates) : Along(s, Append(updates, u))[i] = Along(s, updates)[i]
           /\ Along(s, Append(updates, u))[Len(updates) + 1] = u.action[Along(s, updates)[Len(updates)]]
<1> DEFINE more == Append(updates, u)
<1>1. more \in Seq(Updates) /\ Len(more) = Len(updates) + 1 /\ more[Len(updates) + 1] = u
      /\ \A i \in 1 .. Len(updates) : more[i] = updates[i]
    OBVIOUS
<1> HIDE DEF more
<1>2. \A i \in 0 .. Len(updates) : Along(s, more)[i] = Along(s, updates)[i]
    BY <1>1, AlongPrefix
<1>3. Along(s, more)[Len(updates) + 1] = more[Len(updates) + 1].action[Along(s, more)[Len(updates)]]
    BY <1>1, AlongValue
<1> QED BY <1>1, <1>2, <1>3 DEF more

\* The time of a fiber.
AnyTime == Times \cup {NoWork}

\* Effects, those of NoEffect included.
Effects ==
    [hasEffect : BOOLEAN, deps : States \cup {NoState}, destroy : States \cup {NoState}]

\* What one call of the component works with.
Passes ==
    [time : AnyTime, state : States, baseState : States, baseQueue : Seq(Updates),
     hook : [Kinds -> Effects], list : [Kinds -> Effects], changed : BOOLEAN,
     pending : Seq(Updates), received : BOOLEAN,
     lastRenderedState : States \cup {NoState}, drops : BOOLEAN]

\* What eager states promise: to be the states their updates come to.
EagerOK(s, updates) ==
    \A i \in 1 .. Len(updates) :
      updates[i].eager # NoState => updates[i].eager = Along(s, updates)[i]

\* No update changes nothing.
LEMMA ReplayNone == ASSUME NEW s PROVE Replay(s, <<>>) = s
<1>1. Len(<<>>) = 0
    OBVIOUS
<1> QED BY <1>1, ReplayIs, AlongValue

\* The last update is applied last.
LEMMA ReplayAppend ==
    ASSUME NEW s, NEW updates \in Seq(Updates), NEW u \in Updates
    PROVE  Replay(s, Append(updates, u)) = u.action[Replay(s, updates)]
<1>1. Append(updates, u) \in Seq(Updates) /\ Len(Append(updates, u)) = Len(updates) + 1
    OBVIOUS
<1>2. /\ Replay(s, Append(updates, u)) = Along(s, Append(updates, u))[Len(updates) + 1]
      /\ Replay(s, updates) = Along(s, updates)[Len(updates)]
    <2>1. Len(updates) \in Nat /\ Len(Append(updates, u)) \in Nat
        BY <1>1
    <2> QED BY <1>1, <2>1, ReplayIs
<1> QED BY <1>2, AlongAppend

\* Updates lead to a state.
LEMMA ReplayType ==
    ASSUME NEW s \in States, NEW updates \in Seq(Updates)
    PROVE  Replay(s, updates) \in States
BY ReplayIs, AlongType

\* A list without updates promises nothing.
LEMMA EagerNone == ASSUME NEW s PROVE EagerOK(s, <<>>)
BY DEF EagerOK

\* One more update keeps what the list promises if it keeps its own promise.
LEMMA EagerAppend ==
    ASSUME NEW s, NEW updates \in Seq(Updates), NEW u \in Updates
    PROVE  EagerOK(s, Append(updates, u)) <=>
             /\ EagerOK(s, updates)
             /\ u.eager # NoState => u.eager = u.action[Replay(s, updates)]
<1> DEFINE more == Append(updates, u)
<1>0. more \in Seq(Updates) /\ Len(more) = Len(updates) + 1 /\ more[Len(updates) + 1] = u
      /\ \A i \in 1 .. Len(updates) : more[i] = updates[i]
    OBVIOUS
<1>1. /\ \A i \in 0 .. Len(updates) : Along(s, more)[i] = Along(s, updates)[i]
      /\ Along(s, more)[Len(updates) + 1] = u.action[Replay(s, updates)]
    BY AlongAppend, ReplayIs
<1> HIDE DEF more
<1>2. EagerOK(s, more) <=>
        /\ \A i \in 1 .. Len(updates) :
             more[i].eager # NoState => more[i].eager = Along(s, more)[i]
        /\ more[Len(updates) + 1].eager # NoState =>
             more[Len(updates) + 1].eager = Along(s, more)[Len(updates) + 1]
    <2>1. 1 .. Len(more) = 1 .. Len(updates) \cup {Len(updates) + 1}
        BY <1>0
    <2> QED BY <2>1 DEF EagerOK
<1> QED BY <1>0, <1>1, <1>2 DEF EagerOK, more

\* What a list promises is also promised by its beginning.
LEMMA EagerConcat ==
    ASSUME NEW s, NEW updates \in Seq(Updates), NEW more \in Seq(Updates)
    PROVE  /\ EagerOK(s, updates \o more) => EagerOK(s, updates)
           /\ /\ EagerOK(s, updates)
              /\ \A i \in 1 .. Len(more) : more[i].eager = NoState
              => EagerOK(s, updates \o more)
<1> DEFINE both == updates \o more
<1>1. /\ both \in Seq(Updates) /\ Len(both) = Len(updates) + Len(more)
      /\ \A i \in 1 .. Len(updates) : both[i] = updates[i]
      /\ \A i \in 1 .. Len(more) : both[Len(updates) + i] = more[i]
    OBVIOUS
<1> HIDE DEF both
<1>2. \A i \in 0 .. Len(updates) : Along(s, both)[i] = Along(s, updates)[i]
    BY <1>1, AlongPrefix
<1>3. \A i \in 1 .. Len(both) : i \in 1 .. Len(updates) \/ i - Len(updates) \in 1 .. Len(more)
    BY <1>1
<1>4. \A i \in 1 .. Len(both) :
        i \in 1 .. Len(updates) \/ both[i] = more[i - Len(updates)]
    BY <1>1, <1>3
<1>5. EagerOK(s, both) => EagerOK(s, updates)
    BY <1>1, <1>2 DEF EagerOK
<1>6. ASSUME EagerOK(s, updates), \A i \in 1 .. Len(more) : more[i].eager = NoState
      PROVE  EagerOK(s, both)
  <2> SUFFICES ASSUME NEW i \in 1 .. Len(both), both[i].eager # NoState
               PROVE  both[i].eager = Along(s, both)[i]
      BY DEF EagerOK
  <2>1. i \in 1 .. Len(updates)
      BY <1>3, <1>4, <1>6
  <2> QED BY <1>1, <1>2, <1>6, <2>1 DEF EagerOK
<1> QED BY <1>5, <1>6 DEF both

-----------------------------------------------------------------------------
(* A pass *)

\* What the assumption on times means for the operators.
LEMMA TimesAreNumbers ==
    /\ Times \subseteq Nat \ {0} /\ AnyTime \subseteq Nat /\ Sync \in Times /\ NoWork = 0
    /\ NoWork \in AnyTime /\ NoWork \notin Times /\ Times \subseteq AnyTime
BY TimesAssumption DEF AnyTime, NoWork

\* The later of two times is one of them, and above neither is it below.
LEMMA LaterType == \A s, t \in AnyTime : Later(s, t) \in AnyTime /\ Later(s, t) >= s /\ Later(s, t) >= t
                    /\ Later(s, t) \in {s, t}
BY TimesAreNumbers DEF Later

\* One iteration of updateReducer's loop, field by field.
LEMMA ProcessUpdate ==
    ASSUME NEW pass \in Passes, NEW u \in Updates, NEW t \in Times
    PROVE  LET next == processUpdate(pass, u, t)
           IN  /\ next \in Passes
               /\ next.hook = pass.hook /\ next.list = pass.list /\ next.changed = pass.changed
               /\ next.pending = pass.pending /\ next.received = pass.received
               /\ next.lastRenderedState = pass.lastRenderedState /\ next.drops = pass.drops
               /\ IF u.time < t
                  THEN /\ next.time = Later(pass.time, u.time)
                       /\ next.state = pass.state
                       /\ next.baseState = IF pass.baseQueue = <<>> THEN pass.state ELSE pass.baseState
                       /\ next.baseQueue = Append(pass.baseQueue, u)
                  ELSE /\ next.time = pass.time
                       /\ next.state = IF u.eager # NoState THEN u.eager ELSE u.action[pass.state]
                       /\ next.baseState = pass.baseState
                       /\ next.baseQueue =
                            IF pass.baseQueue = <<>> THEN <<>>
                            ELSE Append(pass.baseQueue, [u EXCEPT !.time = Sync])
<1> DEFINE next == processUpdate(pass, u, t)
<1>1. /\ pass.time \in AnyTime /\ pass.state \in States /\ pass.baseState \in States
      /\ pass.baseQueue \in Seq(Updates)
      /\ u.time \in Times /\ u.action \in [States -> States] /\ u.eager \in States \cup {NoState}
    BY DEF Passes, Updates
<1>2. Later(pass.time, u.time) \in AnyTime
    BY <1>1, LaterType, TimesAreNumbers
<1>3. CASE u.time < t
  <2>1. Append(pass.baseQueue, u) \in Seq(Updates)
      BY <1>1
  <2> QED BY <1>1, <1>2, <1>3, <2>1 DEF processUpdate, Passes
<1>4. CASE ~(u.time < t)
  <2> DEFINE v == [u EXCEPT !.time = Sync]
  <2>1. v \in Updates
      BY TimesAreNumbers DEF Updates
  <2>2. Append(pass.baseQueue, v) \in Seq(Updates)
      BY <1>1, <2>1
  <2>3. (IF u.eager # NoState THEN u.eager ELSE u.action[pass.state]) \in States
      BY <1>1
  <2> QED BY <1>1, <1>4, <2>2, <2>3 DEF processUpdate, Passes
<1> QED BY <1>3, <1>4

\* The passes on the way through a sequence of updates.
LoopPasses(start, updates, t) ==
    CHOOSE f : f = [i \in 0 .. Len(updates) |->
                      IF i = 0 THEN start ELSE processUpdate(f[i - 1], updates[i], t)]

\* The definition of LoopPasses makes sense.
LEMMA LoopPassesIs ==
    ASSUME NEW start, NEW updates, NEW t, Len(updates) \in Nat
    PROVE  LoopPasses(start, updates, t) = [i \in 0 .. Len(updates) |->
             IF i = 0 THEN start ELSE processUpdate(LoopPasses(start, updates, t)[i - 1], updates[i], t)]
<1> DEFINE Is(f, n) == f = [i \in 0 .. n |->
                              IF i = 0 THEN start ELSE processUpdate(f[i - 1], updates[i], t)]
           Bad == {n \in Nat : ~ \E f : Is(f, n)}
<1>1. ASSUME NEW n \in Bad PROVE \E m \in Bad : m < n
  <2>1. n # 0
    <3>1. Is([i \in 0 .. 0 |-> start], 0)
        OBVIOUS
    <3> QED BY <3>1
  <2>2. SUFFICES ASSUME n - 1 \notin Bad PROVE FALSE
        BY <2>1
  <2>3. PICK f : Is(f, n - 1)
        BY <2>1, <2>2
  <2> DEFINE g == [i \in 0 .. n |-> IF i = n THEN processUpdate(f[n - 1], updates[n], t) ELSE f[i]]
  <2>4. \A i \in 0 .. n : g[i] = IF i = 0 THEN start ELSE processUpdate(g[i - 1], updates[i], t)
    <3> TAKE i \in 0 .. n
    <3>1. CASE i = n
        BY <2>1, <3>1
    <3>2. CASE i # n
        <4>1. i \in 0 .. (n - 1) /\ (i = 0 \/ i - 1 \in 0 .. (n-1))
            BY <3>2
        <4>2. f[i] = IF i = 0 THEN start ELSE processUpdate(f[i - 1], updates[i], t)
            BY <2>3, <4>1
        <4>3. g[i] = f[i] /\ (i # 0 => g[i - 1] = f[i - 1])
            BY <3>2, <4>1
        <4> QED BY <4>2, <4>3
    <3> QED BY <3>1, <3>2
  <2>5. Is(g, n)
    <3> HIDE DEF g
    <3>1. g = [i \in 0 .. n |-> g[i]]
        BY DEF g
    <3> QED BY <2>4, <3>1
  <2> QED BY <2>5
<1>2. \E f : Is(f, Len(updates))
  <2> HIDE DEF Is
  <2> QED BY <1>1, NoSmallest
<1> QED
    BY <1>2 DEF LoopPasses

\* All updates that wait, skipped before or new.
AllUpdates == current.baseQueue \o queue.pending

\* The fold over all that waits arrives where the passes on the way arrive.
LEMMA ProcessUpdatesIs ==
    ASSUME NEW pass, NEW t, Len(AllUpdates) \in Nat
    PROVE  processUpdates(pass, t) =
             LoopPasses([pass EXCEPT !.state = current.baseState, !.baseQueue = <<>>], AllUpdates, t)[Len(AllUpdates)]
<1> DEFINE start == [pass EXCEPT !.state = current.baseState, !.baseQueue = <<>>]
<1>1. ASSUME NEW g, NEW i
      PROVE  With(g[i - 1], LAMBDA a : processUpdate(a, AllUpdates[i], t)) = processUpdate(g[i - 1], AllUpdates[i], t)
    BY DEF With
<1>2. \A g : [i \in 0 .. Len(AllUpdates) |->
               IF i = 0 THEN start ELSE With(g[i - 1], LAMBDA a : processUpdate(a, AllUpdates[i], t))]
           = [i \in 0 .. Len(AllUpdates) |->
               IF i = 0 THEN start ELSE processUpdate(g[i - 1], AllUpdates[i], t)]
    BY <1>1
<1> QED
    BY <1>2 DEF processUpdates, Fold, Stages, LoopPasses, AllUpdates

\* What the loop of updateReducer leaves alone, and the time it sets.
LoopOK(start, t, done) ==
    /\ done \in Passes
    /\ done.hook = start.hook /\ done.list = start.list /\ done.changed = start.changed
    /\ done.pending = start.pending /\ done.received = start.received
    /\ done.lastRenderedState = start.lastRenderedState /\ done.drops = start.drops
    /\ done.time < t
    /\ done.time = NoWork <=> done.baseQueue = <<>>

\* While none was skipped all updates so far lead to the state; from then on the
\* base queue leads from the base state to where all of them lead.
LoopKeeps(done, x) ==
    IF done.baseQueue = <<>> THEN done.state = x
    ELSE Replay(done.baseState, done.baseQueue) = x /\ EagerOK(done.baseState, done.baseQueue)

\* An iteration leaves alone what the loop leaves alone, and marks what it skips.
LEMMA LoopStepOK ==
    ASSUME NEW start, NEW t \in Times, NEW done, NEW u \in Updates, LoopOK(start, t, done)
    PROVE  LoopOK(start, t, processUpdate(done, u, t))
<1> DEFINE next == processUpdate(done, u, t)
<1>1. done \in Passes /\ done.baseQueue \in Seq(Updates) /\ done.time \in AnyTime /\ u.time \in Times
    BY DEF LoopOK, Passes, Updates
<1>2. \A v \in Updates : Append(done.baseQueue, v) # <<>>
    BY <1>1
<1>3. /\ next \in Passes
      /\ next.hook = done.hook /\ next.list = done.list /\ next.changed = done.changed
      /\ next.pending = done.pending /\ next.received = done.received
      /\ next.lastRenderedState = done.lastRenderedState /\ next.drops = done.drops
    BY <1>1, ProcessUpdate
<1>4. next.time < t /\ (next.time = NoWork <=> next.baseQueue = <<>>)
  <2>1. CASE u.time < t
    <3>1. next.time = Later(done.time, u.time) /\ next.baseQueue = Append(done.baseQueue, u)
        BY <1>1, <2>1, ProcessUpdate
    <3>2. done.time < t /\ done.time \in Nat /\ u.time \in Nat /\ u.time # 0 /\ NoWork = 0
        BY <1>1, TimesAreNumbers DEF LoopOK
    <3>3. next.time < t /\ next.time # NoWork
        BY <2>1, <3>1, <3>2 DEF Later
    <3> QED BY <1>2, <3>1, <3>3
  <2>2. CASE ~(u.time < t)
    <3> DEFINE v == [u EXCEPT !.time = Sync]
    <3>1. v \in Updates
        BY TimesAreNumbers DEF Updates
    <3>2. next.time = done.time
          /\ next.baseQueue = IF done.baseQueue = <<>> THEN <<>> ELSE Append(done.baseQueue, v)
        BY <1>1, <2>2, ProcessUpdate
    <3> HIDE DEF v, next
    <3> QED BY <1>2, <3>1, <3>2 DEF LoopOK
  <2> QED BY <2>1, <2>2
<1> HIDE DEF next
<1>5. LoopOK(start, t, next)
    BY <1>3, <1>4 DEF LoopOK
<1> QED BY <1>5 DEF next

\* An iteration loses no update, applied, skipped or rebased.
LEMMA LoopStepKeeps ==
    ASSUME NEW done \in Passes, NEW t \in Times, NEW x \in States, NEW u \in Updates,
           LoopKeeps(done, x),
           u.eager # NoState => u.eager = u.action[x]
    PROVE  LoopKeeps(processUpdate(done, u, t), u.action[x])
<1> DEFINE next == processUpdate(done, u, t)
<1>1. /\ done.baseQueue \in Seq(Updates) /\ done.baseState \in States /\ done.state \in States
      /\ <<>> \in Seq(Updates)
    BY DEF Passes
<1>2. \A v \in Updates : Append(done.baseQueue, v) # <<>>
    BY <1>1
<1>3. CASE u.time < t /\ done.baseQueue = <<>>
  <2>0. done.state = x
      BY <1>3 DEF LoopKeeps
  <2>1. next.baseState = done.state /\ next.baseQueue = Append(done.baseQueue, u)
      BY <1>3, ProcessUpdate
  <2>2. Replay(x, Append(done.baseQueue, u)) = u.action[x]
    <3>1. Replay(x, done.baseQueue) = x
        BY <1>3, ReplayNone
    <3>2. Replay(x, Append(done.baseQueue, u)) = u.action[Replay(x, done.baseQueue)]
        BY <1>1, ReplayAppend
    <3> QED BY <3>1, <3>2
  <2>3. EagerOK(x, Append(done.baseQueue, u))
      BY <1>1, <1>3, EagerAppend, EagerNone, ReplayNone
  <2> QED BY <1>2, <2>0, <2>1, <2>2, <2>3 DEF LoopKeeps
<1>4. CASE u.time < t /\ done.baseQueue # <<>>
  <2>1. next.baseState = done.baseState /\ next.baseQueue = Append(done.baseQueue, u)
      BY <1>4, ProcessUpdate
  <2>2. Replay(next.baseState, next.baseQueue) = u.action[x]
      BY <1>1, <1>4, <2>1, ReplayAppend DEF LoopKeeps
  <2>3. EagerOK(next.baseState, next.baseQueue)
      BY <1>1, <1>4, <2>1, EagerAppend DEF LoopKeeps
  <2> QED BY <1>2, <2>1, <2>2, <2>3 DEF LoopKeeps
<1>5. CASE ~(u.time < t) /\ done.baseQueue = <<>>
  <2>0. done.state = x
      BY <1>5 DEF LoopKeeps
  <2>1. /\ next.baseQueue = <<>>
        /\ next.state = IF u.eager # NoState THEN u.eager ELSE u.action[done.state]
      BY <1>5, ProcessUpdate
  <2> QED BY <2>0, <2>1 DEF LoopKeeps
<1>6. CASE ~(u.time < t) /\ done.baseQueue # <<>>
  <2> DEFINE v == [u EXCEPT !.time = Sync]
  <2>1. v \in Updates /\ v.action = u.action /\ v.eager = u.eager
      BY TimesAreNumbers DEF Updates
  <2>2. next.baseState = done.baseState /\ next.baseQueue = Append(done.baseQueue, v)
      BY <1>6, ProcessUpdate
  <2> HIDE DEF v, next
  <2>3. Replay(next.baseState, next.baseQueue) = u.action[x]
      BY <1>1, <1>6, <2>1, <2>2, ReplayAppend DEF LoopKeeps
  <2>4. EagerOK(next.baseState, next.baseQueue)
      BY <1>1, <1>6, <2>1, <2>2, EagerAppend DEF LoopKeeps
  <2>5. LoopKeeps(next, u.action[x])
      BY <1>2, <2>1, <2>2, <2>3, <2>4 DEF LoopKeeps
  <2> QED BY <2>5 DEF next
<1> QED BY <1>3, <1>4, <1>5, <1>6

\* What the loop comes to.
LEMMA ProcessUpdates ==
    ASSUME NEW pass \in Passes, pass.time = NoWork, NEW t \in Times,
           AllUpdates \in Seq(Updates), current.baseState \in States
    PROVE  /\ LoopOK(pass, t, processUpdates(pass, t))
           /\ EagerOK(current.baseState, AllUpdates) =>
                LoopKeeps(processUpdates(pass, t), Replay(current.baseState, AllUpdates))
<1> DEFINE start == [pass EXCEPT !.state = current.baseState, !.baseQueue = <<>>]
           done(i) == LoopPasses(start, AllUpdates, t)[i]
           x(i) == Along(current.baseState, AllUpdates)[i]
<1>1. Len(AllUpdates) \in Nat /\ \A i \in 1 .. Len(AllUpdates) : AllUpdates[i] \in Updates
    OBVIOUS
<1>2. LoopOK(pass, t, start)
  <2>1. /\ start \in Passes /\ start.baseQueue = <<>> /\ start.time = NoWork
        /\ start.hook = pass.hook /\ start.list = pass.list /\ start.changed = pass.changed
        /\ start.pending = pass.pending /\ start.received = pass.received
        /\ start.lastRenderedState = pass.lastRenderedState /\ start.drops = pass.drops
    <3>1. <<>> \in Seq(Updates)
        OBVIOUS
    <3> QED BY <3>1 DEF Passes
  <2> HIDE DEF start
  <2> QED BY <2>1, TimesAreNumbers DEF LoopOK
<1>3. LoopKeeps(start, current.baseState)
  <2>1. start.baseQueue = <<>> /\ start.state = current.baseState
      BY DEF Passes
  <2> QED BY <2>1 DEF LoopKeeps
<1> HIDE DEF start
<1>4. done(0) = start /\ \A i \in 1 .. Len(AllUpdates) : done(i) = processUpdate(done(i - 1), AllUpdates[i], t)
    BY <1>1, LoopPassesIs
<1>5. x(0) = current.baseState /\ \A i \in 1 .. Len(AllUpdates) : x(i) = AllUpdates[i].action[x(i - 1)]
    BY <1>1, AlongValue
<1>6. \A i \in 0 .. Len(AllUpdates) : x(i) \in States
    BY AlongType
<1>7. processUpdates(pass, t) = done(Len(AllUpdates))
    BY <1>1, ProcessUpdatesIs DEF start
<1>8. Replay(current.baseState, AllUpdates) = x(Len(AllUpdates))
    BY <1>1, ReplayIs
<1> HIDE DEF done, x
<1> DEFINE Bad == {n \in 0 .. Len(AllUpdates) :
                     ~ /\ LoopOK(pass, t, done(n))
                       /\ EagerOK(current.baseState, AllUpdates) => LoopKeeps(done(n), x(n))}
<1>9. ASSUME NEW n \in Bad PROVE \E m \in Bad : m < n
  <2>1. n # 0
      BY <1>2, <1>3, <1>4, <1>5
  <2>2. SUFFICES ASSUME n - 1 \notin Bad PROVE FALSE
      BY <2>1
  <2>3. n \in 1 .. Len(AllUpdates) /\ n - 1 \in 0 .. Len(AllUpdates)
      BY <2>1
  <2>4. /\ LoopOK(pass, t, done(n - 1))
        /\ EagerOK(current.baseState, AllUpdates) => LoopKeeps(done(n - 1), x(n - 1))
      BY <2>2, <2>3
  <2>5. AllUpdates[n] \in Updates /\ x(n - 1) \in States
        /\ done(n) = processUpdate(done(n - 1), AllUpdates[n], t) /\ x(n) = AllUpdates[n].action[x(n - 1)]
      BY <1>1, <1>4, <1>5, <1>6, <2>3
  <2>6. LoopOK(pass, t, done(n))
      BY <2>4, <2>5, LoopStepOK
  <2>7. EagerOK(current.baseState, AllUpdates) => LoopKeeps(done(n), x(n))
    <3>1. EagerOK(current.baseState, AllUpdates) => (AllUpdates[n].eager # NoState => AllUpdates[n].eager = x(n))
        BY <2>3 DEF EagerOK, x
    <3>2. done(n - 1) \in Passes
        BY <2>4 DEF LoopOK
    <3> QED BY <2>4, <2>5, <3>1, <3>2, LoopStepKeeps
  <2> QED BY <2>6, <2>7
<1>10. Bad \in SUBSET Nat /\ \A n \in Bad : \E m \in Bad : m < n
    BY <1>1, <1>9
<1>11. Bad = {}
    <2> HIDE DEF Bad
    <2> QED BY <1>10, NoSmallest
<1> QED BY <1>1, <1>7, <1>8, <1>11

-----------------------------------------------------------------------------
(* What a render makes of the fiber *)

\* Fibers that are current, or in a finished tree.
Fibers ==
    [is : {TRUE}, time : AnyTime, state : States, baseState : States, baseQueue : Seq(Updates),
     hook : [Kinds -> Effects], list : [Kinds -> Effects], changed : BOOLEAN]

\* The effect of the last committed render.
Previous(k) == IF current.is THEN current.hook[k] ELSE NoEffect

\* A pass has the destroy functions of the last commit.
KeepsDestroy(pass) == \A k \in Kinds : pass.hook[k].destroy = Previous(k).destroy

\* The effects of a pass are those of its state; what has not changed is as the
\* last committed render left it.
MadeEffects(pass) ==
    \A k \in Kinds :
      /\ pass.list[k].deps = pass.state
      /\ pass.list[k].destroy = Previous(k).destroy
      /\ pass.hook[k].destroy = Previous(k).destroy
      /\ pass.list[k].hasEffect => pass.changed
      /\ ~pass.list[k].hasEffect => Previous(k).deps = pass.state

\* What updateReducer makes of a copy of current.
Reduced(received, t, d) ==
    /\ d \in Passes
    /\ d.time < t /\ (d.time = NoWork <=> d.baseQueue = <<>>)
    /\ d.baseQueue = <<>> => d.baseState = d.state
    /\ d.pending = <<>> /\ d.drops = FALSE /\ d.hook = current.hook
    /\ d.received <=> received \/ d.state # current.state
    /\ d.lastRenderedState = IF AllUpdates = <<>> THEN queue.lastRenderedState ELSE d.state
    /\ AllUpdates = <<>> => d.state = current.state
    /\ EagerOK(current.baseState, AllUpdates) =>
         /\ Replay(d.baseState, d.baseQueue) = Replay(current.baseState, AllUpdates)
         /\ EagerOK(d.baseState, d.baseQueue)

\* A copy of a fiber is the beginning of a pass.
LEMMA AsPassType ==
    ASSUME NEW fiber, fiber.state \in States, fiber.baseState \in States,
           fiber.baseQueue \in Seq(Updates), fiber.hook \in [Kinds -> Effects],
           fiber.list \in [Kinds -> Effects],
           NEW received \in BOOLEAN, NEW last \in States \cup {NoState}
    PROVE  AsPass(fiber, received, last) \in Passes
<1>1. <<>> \in Seq(Updates)
    OBVIOUS
<1> QED BY <1>1, TimesAreNumbers DEF AsPass, Passes

\* updateReducer on a copy of current.
LEMMA UpdateReducer ==
    ASSUME current \in Fibers, queue.pending \in Seq(Updates),
           queue.lastRenderedState \in States \cup {NoState},
           current.baseQueue = <<>> => current.baseState = current.state,
           NEW received \in BOOLEAN, NEW t \in Times
    PROVE  Reduced(received, t,
                   updateReducer(AsPass(current, received, queue.lastRenderedState), t))
<1> DEFINE pass == AsPass(current, received, queue.lastRenderedState)
           done == processUpdates(pass, t)
           d    == updateReducer(pass, t)
<1>1. /\ current.state \in States /\ current.baseState \in States
      /\ current.baseQueue \in Seq(Updates) /\ current.hook \in [Kinds -> Effects]
      /\ current.list \in [Kinds -> Effects]
    BY DEF Fibers
<1>2. pass \in Passes
    BY <1>1, AsPassType
<1>3. /\ pass.time = NoWork /\ pass.state = current.state /\ pass.baseState = current.baseState
      /\ pass.baseQueue = current.baseQueue /\ pass.hook = current.hook
      /\ pass.pending = <<>> /\ pass.received = received
      /\ pass.lastRenderedState = queue.lastRenderedState /\ pass.drops = FALSE
    BY DEF AsPass
<1> HIDE DEF pass
<1>4. AllUpdates \in Seq(Updates) /\ (AllUpdates = <<>> => current.baseQueue = <<>>)
    BY <1>1 DEF AllUpdates
<1>5. CASE AllUpdates = <<>>
  <2>1. d = pass
      BY <1>5 DEF updateReducer, AllUpdates
  <2>2. NoWork < t
      BY TimesAreNumbers
  <2> HIDE DEF d
  <2>3. Reduced(received, t, d)
      BY <1>1, <1>2, <1>3, <1>4, <1>5, <2>1, <2>2, EagerNone, ReplayNone DEF Reduced
  <2> QED BY <2>3 DEF d, pass
<1>6. CASE AllUpdates # <<>>
  <2>1. LoopOK(pass, t, done)
        /\ (EagerOK(current.baseState, AllUpdates) => LoopKeeps(done, Replay(current.baseState, AllUpdates)))
      BY <1>1, <1>2, <1>3, <1>4, ProcessUpdates
  <2>2. d = [done EXCEPT !.baseState = IF done.baseQueue = <<>> THEN done.state ELSE @,
                         !.received = @ \/ ReceivesUpdate(done.state),
                         !.lastRenderedState = done.state]
      BY <1>6 DEF updateReducer, AllUpdates, With
  <2> HIDE DEF done, d
  <2>3. /\ done \in Passes /\ done.hook = current.hook /\ done.pending = <<>>
        /\ done.received = received /\ done.drops = FALSE /\ done.time < t
        /\ (done.time = NoWork <=> done.baseQueue = <<>>)
      BY <1>3, <2>1 DEF LoopOK
  <2>4. /\ d \in Passes /\ d.hook = current.hook /\ d.pending = <<>> /\ d.drops = FALSE
        /\ d.time = done.time /\ d.state = done.state /\ d.baseQueue = done.baseQueue
        /\ d.baseState = IF done.baseQueue = <<>> THEN done.state ELSE done.baseState
        /\ d.lastRenderedState = done.state
      BY <2>2, <2>3 DEF Passes
  <2>5. d.received <=> received \/ d.state # current.state
      BY <2>2, <2>3, <2>4 DEF Passes, ReceivesUpdate
  <2>6. ASSUME EagerOK(current.baseState, AllUpdates)
        PROVE  /\ Replay(d.baseState, d.baseQueue) = Replay(current.baseState, AllUpdates)
               /\ EagerOK(d.baseState, d.baseQueue)
      BY <2>1, <2>4, <2>6, EagerNone, ReplayNone DEF LoopKeeps
  <2>7. Reduced(received, t, d)
      BY <1>6, <2>3, <2>4, <2>5, <2>6 DEF Reduced
  <2> QED BY <2>7 DEF d, pass
<1> QED BY <1>5, <1>6

\* mountEffectImpl and updateEffectImpl make the effects of the state.
LEMMA UpdateEffectsMakes ==
    ASSUME NEW pass \in Passes, KeepsDestroy(pass), current.is => current \in Fibers
    PROVE  LET e == UpdateEffects(pass)
           IN  /\ e \in Passes /\ MadeEffects(e)
               /\ e.time = pass.time /\ e.state = pass.state /\ e.baseState = pass.baseState
               /\ e.baseQueue = pass.baseQueue /\ e.pending = pass.pending
               /\ e.received = pass.received /\ e.drops = pass.drops
               /\ e.lastRenderedState = pass.lastRenderedState
<1> DEFINE same == {k \in Kinds : Previous(k).deps = pass.state}
           list == [k \in Kinds |-> [hasEffect |-> k \notin same, deps |-> pass.state,
                                     destroy |-> Previous(k).destroy]]
           hook == [k \in Kinds |-> IF k \in same THEN pass.hook[k] ELSE list[k]]
           e    == UpdateEffects(pass)
<1>1. e = [pass EXCEPT !.list = list, !.hook = hook, !.changed = @ \/ same # Kinds]
    BY DEF UpdateEffects, Previous
<1>2. \A k \in Kinds : Previous(k) \in Effects
    BY DEF Previous, Fibers, NoEffect, Effects
<1>3. pass.state \in States /\ pass.hook \in [Kinds -> Effects] /\ pass.changed \in BOOLEAN
    BY DEF Passes
<1>4. list \in [Kinds -> Effects]
    BY <1>2, <1>3 DEF Effects
<1>5. hook \in [Kinds -> Effects]
    BY <1>3, <1>4
<1>6. \A k \in Kinds :
        /\ list[k].deps = pass.state /\ list[k].destroy = Previous(k).destroy
        /\ hook[k].destroy = Previous(k).destroy
        /\ list[k].hasEffect <=> k \notin same
    BY DEF KeepsDestroy
<1>7. \A k \in Kinds : k \in same <=> Previous(k).deps = pass.state
    OBVIOUS
<1>8. \A k \in Kinds : k \notin same => same # Kinds
    OBVIOUS
<1> HIDE DEF list, hook, same, e
<1>9. /\ e \in Passes
      /\ e.time = pass.time /\ e.state = pass.state /\ e.baseState = pass.baseState
      /\ e.baseQueue = pass.baseQueue /\ e.pending = pass.pending
      /\ e.received = pass.received /\ e.drops = pass.drops
      /\ e.lastRenderedState = pass.lastRenderedState
      /\ e.list = list /\ e.hook = hook
    BY <1>1, <1>3, <1>4, <1>5 DEF Passes
<1>10. e.changed <=> pass.changed \/ same # Kinds
    BY <1>1, <1>3 DEF Passes
<1>11. MadeEffects(e)
    BY <1>6, <1>7, <1>8, <1>9, <1>10 DEF MadeEffects
<1> QED BY <1>9, <1>11 DEF e

\* The render phase update of a component.
OwnUpdate(action, t) == [time |-> t, action |-> action, eager |-> NoState]

\* rerenderReducer applies the one update of the pass before.
LEMMA RerenderReducer ==
    ASSUME NEW pass \in Passes, NEW action \in [States -> States], NEW t \in Times,
           pass.pending = <<OwnUpdate(action, t)>>
    PROVE  LET r == rerenderReducer(pass)
               state == action[pass.state]
           IN  /\ r \in Passes /\ r.state = state /\ r.pending = <<>>
               /\ r.received <=> pass.received \/ state # pass.state
               /\ r.baseState = IF pass.baseQueue = <<>> THEN state ELSE pass.baseState
               /\ r.lastRenderedState = state
               /\ r.time = pass.time /\ r.baseQueue = pass.baseQueue /\ r.hook = pass.hook
               /\ r.changed = pass.changed /\ r.drops = pass.drops
<1> DEFINE u == OwnUpdate(action, t)
           r == rerenderReducer(pass)
           state == action[pass.state]
<1>1. u \in Updates /\ u.action = action
    BY DEF OwnUpdate, Updates
<1>2. pass.state \in States /\ pass.pending # <<>> /\ <<>> \in Seq(Updates)
    BY DEF Passes
<1>3. Replay(pass.state, pass.pending) = state
  <2>1. Replay(pass.state, <<>>) = pass.state
      BY ReplayNone
  <2>2. Replay(pass.state, Append(<<>>, u)) = u.action[Replay(pass.state, <<>>)]
      BY <1>1, <1>2, ReplayAppend
  <2>3. Append(<<>>, u) = pass.pending
      OBVIOUS
  <2> QED BY <1>1, <2>1, <2>2, <2>3
<1>4. r = [pass EXCEPT !.state = state,
                       !.pending = <<>>,
                       !.received = @ \/ state # pass.state,
                       !.baseState = IF pass.baseQueue = <<>> THEN state ELSE @,
                       !.lastRenderedState = state]
    BY <1>2, <1>3 DEF rerenderReducer, With
<1> HIDE DEF r
<1>5. state \in States
    BY <1>2
<1> HIDE DEF state
<1>6. /\ r \in Passes /\ r.state = state /\ r.pending = <<>>
      /\ r.baseState = IF pass.baseQueue = <<>> THEN state ELSE pass.baseState
      /\ r.lastRenderedState = state
      /\ r.time = pass.time /\ r.baseQueue = pass.baseQueue /\ r.hook = pass.hook
      /\ r.changed = pass.changed /\ r.drops = pass.drops
    BY <1>2, <1>4, <1>5 DEF Passes
<1>7. r.received <=> pass.received \/ state # pass.state
    BY <1>4 DEF Passes
<1> QED BY <1>6, <1>7 DEF r, state

\* A pass in which the component dispatches, or does not.
LEMMA ComponentMakes ==
    ASSUME NEW pass \in Passes, KeepsDestroy(pass), current.is => current \in Fibers,
           pass.pending = <<>>, NEW props \in Props, NEW t \in Times
    PROVE  LET c == Component(pass, props, t)
           IN  /\ c \in Passes /\ MadeEffects(c)
               /\ c.state = pass.state /\ c.baseState = pass.baseState
               /\ c.baseQueue = pass.baseQueue /\ c.received = pass.received
               /\ c.lastRenderedState = pass.lastRenderedState
               /\ RenderPhaseUpdate(props, pass.state) = <<>> =>
                    c.pending = <<>> /\ c.time = pass.time /\ c.drops = pass.drops
               /\ RenderPhaseUpdate(props, pass.state) # <<>> =>
                    /\ c.time = t
                    /\ c.drops <=> pass.drops \/ pass.time # NoWork
                    /\ \E action \in [States -> States] :
                         /\ c.pending = <<OwnUpdate(action, t)>>
                         /\ RenderPhaseUpdate(props, action[pass.state]) = <<>>
<1> DEFINE e == UpdateEffects(pass)
           c == Component(pass, props, t)
           dispatched == RenderPhaseUpdate(props, e.state)
<1>1. /\ e \in Passes /\ MadeEffects(e)
      /\ e.time = pass.time /\ e.state = pass.state /\ e.baseState = pass.baseState
      /\ e.baseQueue = pass.baseQueue /\ e.pending = pass.pending
      /\ e.received = pass.received /\ e.drops = pass.drops
      /\ e.lastRenderedState = pass.lastRenderedState
    BY UpdateEffectsMakes
<1>2. c = IF dispatched = <<>> THEN e
          ELSE [e EXCEPT !.pending = [i \in DOMAIN dispatched |->
                                        [time |-> t, action |-> dispatched[i], eager |-> NoState]],
                         !.time = t,
                         !.drops = @ \/ e.time # NoWork]
  <2> DEFINE F(done) ==
        IF RenderPhaseUpdate(props, done.state) = <<>> THEN done
        ELSE [done EXCEPT !.pending = [i \in DOMAIN RenderPhaseUpdate(props, done.state) |->
                                         [time |-> t,
                                          action |-> RenderPhaseUpdate(props, done.state)[i],
                                          eager |-> NoState]],
                          !.time = t,
                          !.drops = @ \/ done.time # NoWork]
  <2>1. c = CHOOSE y \in {F(x) : x \in {e}} : TRUE
      BY Zenon DEF Component, With
  <2>2. \A y \in {F(x) : x \in {e}} : y = F(e)
    <3> HIDE DEF F
    <3> QED OBVIOUS
  <2>3. F(e) \in {F(x) : x \in {e}}
    <3> HIDE DEF F
    <3> QED OBVIOUS
  <2>4. c = F(e)
    <3> HIDE DEF F, c, e
    <3> QED BY <2>1, <2>2, <2>3
  <2> QED BY <2>4
<1> HIDE DEF e, c
<1>3. CASE dispatched = <<>>
    BY <1>1, <1>2, <1>3 DEF c
<1>4. CASE dispatched # <<>>
  <2>1. e.state \in States
      BY <1>1 DEF Passes
  <2>2. PICK action \in [States -> States] :
           dispatched = <<action>> /\ RenderPhaseUpdate(props, action[e.state]) = <<>>
      BY <1>4, <2>1, ComponentAssumption
  <2> DEFINE pending == [i \in DOMAIN dispatched |->
                           [time |-> t, action |-> dispatched[i], eager |-> NoState]]
  <2>3. pending = <<OwnUpdate(action, t)>>
      BY <2>2 DEF OwnUpdate
  <2>4. pending \in Seq(Updates)
    <3>1. OwnUpdate(action, t) \in Updates
        BY DEF OwnUpdate, Updates
    <3> QED BY <2>3, <3>1
  <2>5. c = [e EXCEPT !.pending = pending, !.time = t, !.drops = @ \/ e.time # NoWork]
      BY <1>2, <1>4
  <2> HIDE DEF pending
  <2>6. /\ c \in Passes /\ c.time = t /\ c.pending = pending /\ c.state = e.state
        /\ c.baseState = e.baseState /\ c.baseQueue = e.baseQueue /\ c.received = e.received
        /\ c.lastRenderedState = e.lastRenderedState
        /\ c.hook = e.hook /\ c.list = e.list /\ c.changed = e.changed
      BY <1>1, <2>4, <2>5, TimesAreNumbers DEF Passes
  <2>7. c.drops <=> e.drops \/ e.time # NoWork
      BY <1>1, <2>5 DEF Passes
  <2>8. MadeEffects(c)
      BY <1>1, <2>6 DEF MadeEffects
  <2> QED BY <1>1, <1>4, <2>2, <2>3, <2>6, <2>7, <2>8 DEF c
<1> QED BY <1>3, <1>4

\* AllUpdates passes of a render after its start d, in which the component dispatches
\* once or not at all.
Finish(d, props, t) ==
    LET pass == Component(d, props, t)
    IN  IF pass.time = t THEN NextPass(pass, props, t) ELSE pass

\* What they come to, from d to r.
Finishes(d, r, props) ==
    /\ r \in Passes /\ MadeEffects(r)
    /\ RenderPhaseUpdate(props, r.state) = <<>>
    /\ r.baseQueue = d.baseQueue
    /\ \/ /\ RenderPhaseUpdate(props, d.state) = <<>>
          /\ r.state = d.state /\ r.baseState = d.baseState /\ r.time = d.time
          /\ r.drops = FALSE /\ r.received = d.received
          /\ r.lastRenderedState = d.lastRenderedState
       \/ /\ RenderPhaseUpdate(props, d.state) # <<>>
          /\ r.baseState = IF d.baseQueue = <<>> THEN r.state ELSE d.baseState
          /\ r.time = NoWork
          /\ r.drops <=> d.time # NoWork
          /\ r.received <=> d.received \/ r.state # d.state
          /\ r.lastRenderedState = r.state

\* The passes of a render end with a state that dispatches nothing.
LEMMA FinishMakes ==
    ASSUME NEW d \in Passes, KeepsDestroy(d), current.is => current \in Fibers,
           NEW props \in Props, NEW t \in Times,
           d.pending = <<>>, d.drops = FALSE, d.time < t
    PROVE  Finishes(d, Finish(d, props, t), props)
<1> DEFINE c == Component(d, props, t)
           n == [c EXCEPT !.time = NoWork]
           r == Finish(d, props, t)
<1>1. /\ c \in Passes /\ MadeEffects(c)
      /\ c.state = d.state /\ c.baseState = d.baseState
      /\ c.baseQueue = d.baseQueue /\ c.received = d.received
      /\ c.lastRenderedState = d.lastRenderedState
    BY ComponentMakes
<1>2. r = IF c.time = t THEN Component(rerenderReducer(n), props, t) ELSE c
    BY DEF Finish, NextPass
<1>3. CASE RenderPhaseUpdate(props, d.state) = <<>>
  <2>1. c.time = d.time /\ c.drops = FALSE
      BY <1>3, ComponentMakes
  <2>2. c.time # t
      BY <2>1, TimesAreNumbers DEF Passes
  <2> HIDE DEF c, n, r
  <2>3. r = c
      BY <1>2, <2>2
  <2> QED BY <1>1, <1>3, <2>1, <2>3 DEF r, Finishes
<1>4. CASE RenderPhaseUpdate(props, d.state) # <<>>
  <2>1. /\ c.time = t
        /\ c.drops <=> d.time # NoWork
      BY <1>4, ComponentMakes
  <2>2. PICK action \in [States -> States] :
           c.pending = <<OwnUpdate(action, t)>> /\ RenderPhaseUpdate(props, action[d.state]) = <<>>
      BY <1>4, ComponentMakes
  <2> HIDE DEF c
  <2>3. /\ n \in Passes /\ n.time = NoWork /\ n.state = d.state /\ n.baseState = d.baseState
        /\ n.baseQueue = d.baseQueue /\ n.received = d.received /\ n.drops = c.drops
        /\ n.hook = c.hook /\ n.changed = c.changed /\ n.pending = c.pending
      BY <1>1, TimesAreNumbers DEF Passes
  <2> DEFINE q == rerenderReducer(n)
  <2> HIDE DEF n
  <2>4. /\ q \in Passes /\ q.state = action[d.state] /\ q.pending = <<>>
        /\ q.received <=> d.received \/ q.state # d.state
        /\ q.baseState = IF d.baseQueue = <<>> THEN q.state ELSE d.baseState
        /\ q.lastRenderedState = q.state
        /\ q.time = NoWork /\ q.baseQueue = d.baseQueue /\ q.hook = c.hook
        /\ q.drops = c.drops
      BY <2>2, <2>3, RerenderReducer
  <2> HIDE DEF q
  <2>5. KeepsDestroy(q)
      BY <1>1, <2>4 DEF KeepsDestroy, MadeEffects
  <2>6. r = Component(q, props, t)
      BY <1>2, <2>1 DEF q
  <2> HIDE DEF r
  <2>7. /\ r \in Passes /\ MadeEffects(r)
        /\ r.state = q.state /\ r.baseState = q.baseState
        /\ r.baseQueue = q.baseQueue /\ r.received = q.received
        /\ r.lastRenderedState = q.lastRenderedState
        /\ r.time = q.time /\ r.drops = q.drops
      BY <2>2, <2>4, <2>5, <2>6, ComponentMakes
  <2> QED BY <1>4, <2>1, <2>2, <2>4, <2>7 DEF r, Finishes
<1> QED BY <1>3, <1>4

-----------------------------------------------------------------------------
(* The inductive invariant *)

\* What is left of a fiber that is current no more.
Leftovers == [is : {TRUE}, time : AnyTime]

\* There is a finished tree with the component in it.
Rendered == pc = "rendered" /\ render.does # "deletes"

\* What the parent may do about the component.
AnyProps == Props \cup {Gone}

\* The types.
TypeOK ==
    /\ queue \in [pending : Seq(Updates), lastRenderedState : States \cup {NoState}]
    /\ current \in Fibers \cup {NoFiber}
    /\ alternate \in IF Rendered THEN Fibers ELSE Leftovers \cup {NoFiber}
    /\ parent \in [props : AnyProps, childTime : AnyTime]
    /\ \A u \in waiting : u \in [time : Times, props : AnyProps] /\ waiting = {u}
    /\ pc \in {"idle", "rendered"}
    /\ render \in [props : AnyProps, parentRenders : BOOLEAN,
                   does : {"nothing", "renders", "bailsOut", "deletes"}, drops : BOOLEAN]
    /\ passive \in BOOLEAN
    /\ alive \in [Kinds -> [States -> Int]]
    /\ screen \in States \cup {NoState} /\ expected \in States \cup {NoState}
    /\ spoilt \subseteq {"skipped", "bailout", "eager", "effect"}
    /\ made \in Nat /\ parentMade \in Nat /\ discards \in Nat

\* What a render is about, and what there is while the component is mounted.
Shape ==
    /\ pc = "idle" <=> render.does = "nothing"
    /\ Rendered => render.props # Gone
    /\ pc = "rendered" => ~passive
    /\ passive => current.is
    /\ render.does = "bailsOut" => current.is
    /\ ~current.is => queue.pending = <<>>
    /\ current.is \/ Rendered => queue.lastRenderedState \in States
    /\ current.is =>
         /\ parent.props \in Props
         /\ current.baseQueue = <<>> => current.baseState = current.state
    /\ Rendered => (alternate.baseQueue = <<>> => alternate.baseState = alternate.state)

\* The count of instances of which d is the only one.
Instance(d) == [s \in States |-> IF s = d THEN 1 ELSE 0]

\* At most one instance is alive, the one that the committed effect destroys, and
\* the finished tree knows it too.
InstancesInv ==
    /\ ~current.is => \A k \in Kinds : alive[k] = Instance(NoState)
    /\ current.is =>
         \A k \in Kinds : /\ current.hook[k].destroy = current.list[k].destroy
                          /\ alive[k] = Instance(current.list[k].destroy)
    /\ Rendered =>
         \A k \in Kinds : /\ alternate.hook[k].destroy = alternate.list[k].destroy
                          /\ alive[k] = Instance(alternate.list[k].destroy)

\* The effects are those of the state; one whose instance is another is yet to run.
EffectsInv ==
    "effect" \notin spoilt =>
      /\ current.is =>
           \A k \in Kinds :
             /\ current.list[k].deps = current.state /\ current.hook[k].deps = current.state
             /\ \/ current.list[k].destroy = current.state
                \/ k = "passive" /\ passive /\ current.changed /\ current.list[k].hasEffect
      /\ Rendered =>
           \A k \in Kinds :
             /\ alternate.list[k].deps = alternate.state
             /\ \/ alternate.list[k].destroy = alternate.state
                \/ alternate.changed /\ alternate.list[k].hasEffect

\* The screen shows the committed state, and a finished tree the state it would show.
ScreenInv ==
    /\ current.is => screen = current.state /\ RenderPhaseUpdate(parent.props, screen) = <<>>
    /\ render.does = "renders" => RenderPhaseUpdate(render.props, alternate.state) = <<>>
    /\ render.does = "bailsOut" => alternate.state = current.state /\ render.props = parent.props

\* The kinds of effects.
LEMMA KindsAre == Kinds = {"layout", "passive"}
BY DEF Kinds

\* NoFiber stands for no fiber.
LEMMA NoFiberIsNot == NoFiber.is = FALSE
BY DEF NoFiber

\* A current fiber that is, has all fields.
LEMMA FiberIs == ASSUME TypeOK PROVE (current.is => current \in Fibers) /\ (~current.is => current = NoFiber)
                                     /\ current.is \in BOOLEAN /\ alternate.is \in BOOLEAN
BY NoFiberIsNot DEF TypeOK, Fibers, Leftovers

\* The props a render passes to the component.
LEMMA PropsAtType ==
    ASSUME TypeOK, NEW t
    PROVE  PropsAt(t) \in AnyProps /\ ParentRenders(t) \in BOOLEAN
           /\ (~ParentRenders(t) => PropsAt(t) = parent.props)
           /\ (PropsAt(t) # Gone => PropsAt(t) \in Props)
<1>1. ParentRenders(t) => \E u \in waiting : waiting = {u} /\ u.props \in AnyProps
    BY DEF TypeOK, ParentRenders
<1>2. ASSUME NEW u \in waiting, waiting = {u} PROVE (CHOOSE v \in waiting : TRUE) = u
    BY <1>2
<1>3. PropsAt(t) \in AnyProps
    BY <1>1, <1>2 DEF PropsAt, TypeOK
<1> QED BY <1>3 DEF ParentRenders, PropsAt, AnyProps

\* The fiber of a pass.
LEMMA AsFiberType ==
    ASSUME NEW pass \in Passes
    PROVE  LET f == AsFiber(pass)
           IN  /\ f \in Fibers /\ f.is = TRUE
               /\ f.time = pass.time /\ f.state = pass.state /\ f.baseState = pass.baseState
               /\ f.baseQueue = pass.baseQueue /\ f.hook = pass.hook /\ f.list = pass.list
               /\ f.changed = pass.changed
BY DEF AsFiber, Fibers, Passes

\* What is left of a fiber that is current no more.
LEMMA LeftoverType ==
    ASSUME NEW f, f \in Fibers \cup Leftovers \cup {NoFiber}
    PROVE  Leftover(f) \in Leftovers \cup {NoFiber}
BY NoFiberIsNot DEF Leftover, Fibers, Leftovers

\* A time that is marked on a fiber changes nothing else.
LEMMA MarkedFiber ==
    ASSUME NEW f, NEW t \in AnyTime, f \in Fibers \cup Leftovers
    PROVE  LET g == [f EXCEPT !.time = Later(@, t)]
           IN  /\ f \in Fibers => g \in Fibers
               /\ f \in Leftovers => g \in Leftovers
               /\ g.is = f.is /\ g.time = Later(f.time, t)
               /\ f \in Fibers => /\ g.state = f.state /\ g.baseState = f.baseState
                                  /\ g.baseQueue = f.baseQueue /\ g.hook = f.hook
                                  /\ g.list = f.list /\ g.changed = f.changed
<1>1. f.time \in AnyTime
    BY DEF Fibers, Leftovers
<1>2. Later(f.time, t) \in AnyTime
    BY <1>1, LaterType
<1>3. CASE f \in Fibers
    BY <1>2, <1>3 DEF Fibers, Leftovers
<1>4. CASE f \in Leftovers
    BY <1>2, <1>4 DEF Fibers, Leftovers
<1> QED BY <1>3, <1>4

\* What commitHookEffectList makes of f, and what it leaves alone.
Committed(f, k, g) ==
    LET runs == f.changed /\ f.list[k].hasEffect
    IN  /\ g \in Fibers /\ g.is = TRUE
        /\ g.time = f.time /\ g.state = f.state /\ g.baseState = f.baseState
        /\ g.baseQueue = f.baseQueue /\ g.changed = f.changed
        /\ \A j \in Kinds :
             /\ g.list[j].deps = f.list[j].deps /\ g.hook[j].deps = f.hook[j].deps
             /\ g.list[j].hasEffect = f.list[j].hasEffect
             /\ g.list[j].destroy = IF runs /\ j = k THEN f.list[j].deps ELSE f.list[j].destroy
             /\ g.hook[j].destroy = IF runs /\ j = k THEN f.list[j].deps ELSE f.hook[j].destroy

\* Committing effects changes destroy functions only.
LEMMA CommittedFiber ==
    ASSUME NEW f \in Fibers, NEW k \in Kinds
    PROVE  Committed(f, k, CommitHookEffects(f, k))
<1> DEFINE g == CommitHookEffects(f, k)
           runs == f.changed /\ f.list[k].hasEffect
<1>1. f.is = TRUE /\ f.list \in [Kinds -> Effects] /\ f.hook \in [Kinds -> Effects]
    BY DEF Fibers
<1>2. CASE ~runs
    BY <1>1, <1>2 DEF CommitHookEffects, Committed
<1>3. CASE runs
  <2> DEFINE list == [f.list EXCEPT ![k].destroy = f.list[k].deps]
             hook == [f.hook EXCEPT ![k].destroy = f.list[k].deps]
  <2>1. g = [f EXCEPT !.list[k].destroy = f.list[k].deps, !.hook[k].destroy = f.list[k].deps]
      BY <1>3 DEF CommitHookEffects
  <2>2. g = [f EXCEPT !.list = list, !.hook = hook]
      BY <2>1 DEF Fibers
  <2>3. /\ list \in [Kinds -> Effects]
        /\ \A j \in Kinds :
             /\ list[j].deps = f.list[j].deps /\ list[j].hasEffect = f.list[j].hasEffect
             /\ list[j].destroy = IF j = k THEN f.list[j].deps ELSE f.list[j].destroy
      BY <1>1 DEF Effects
  <2>4. /\ hook \in [Kinds -> Effects]
        /\ \A j \in Kinds :
             /\ hook[j].deps = f.hook[j].deps
             /\ hook[j].destroy = IF j = k THEN f.list[j].deps ELSE f.hook[j].destroy
      BY <1>1 DEF Effects
  <2> HIDE DEF list, hook, g
  <2>5. /\ g \in Fibers /\ g.is = TRUE
        /\ g.time = f.time /\ g.state = f.state /\ g.baseState = f.baseState
        /\ g.baseQueue = f.baseQueue /\ g.changed = f.changed
        /\ g.list = list /\ g.hook = hook
      BY <2>2, <2>3, <2>4 DEF Fibers
  <2> QED BY <1>3, <2>3, <2>4, <2>5 DEF g, Committed
<1> QED BY <1>2, <1>3

-----------------------------------------------------------------------------
(* What the actions that render do *)

\* A render is its first pass and the one that follows, if any.
LEMMA RenderFinishes ==
    ASSUME NEW props, NEW received, NEW t, NEW d,
           FirstPass(props, received, t) = Component(d, props, t)
    PROVE  renderWithHooks(props, received, t) = Finish(d, props, t)
BY DEF renderWithHooks, With, Finish

\* A render of the mounted component starts from d.
Start(received, t) == updateReducer(AsPass(current, received, queue.lastRenderedState), t)

\* The render of a mounted component starts with what updateReducer makes of current.
LEMMA Starts ==
    ASSUME TypeOK, Shape, current.is, NEW props, NEW received \in BOOLEAN, NEW t \in Times
    PROVE  LET d == Start(received, t)
           IN  /\ Reduced(received, t, d) /\ KeepsDestroy(d)
               /\ FirstPass(props, received, t) = Component(d, props, t)
               /\ renderWithHooks(props, received, t) = Finish(d, props, t)
<1> DEFINE d == Start(received, t)
<1>1. Reduced(received, t, d)
  <2>1. /\ current \in Fibers /\ queue.pending \in Seq(Updates)
        /\ queue.lastRenderedState \in States \cup {NoState}
        /\ current.baseQueue = <<>> => current.baseState = current.state
      BY FiberIs DEF TypeOK, Shape
  <2> QED BY <2>1, UpdateReducer DEF Start
<1>2. KeepsDestroy(d)
    BY <1>1 DEF Reduced, KeepsDestroy, Previous
<1>3. FirstPass(props, received, t) = Component(d, props, t)
    BY DEF FirstPass, Start
<1>4. renderWithHooks(props, received, t) = Finish(d, props, t)
    BY <1>3, RenderFinishes
<1> QED BY <1>1, <1>2, <1>3, <1>4

\* The first render starts from the initial state.
LEMMA MountStarts ==
    ASSUME ~current.is, NEW props, NEW t \in Times
    PROVE  LET d == AsPass(Blank, TRUE, InitialState)
           IN  /\ d \in Passes /\ KeepsDestroy(d)
               /\ d.pending = <<>> /\ d.drops = FALSE /\ d.time = NoWork /\ d.time < t
               /\ d.state = InitialState /\ d.baseState = InitialState /\ d.baseQueue = <<>>
               /\ d.received = TRUE /\ d.lastRenderedState = InitialState
               /\ renderWithHooks(props, TRUE, t) = Finish(d, props, t)
<1> DEFINE d == AsPass(Blank, TRUE, InitialState)
<1>1. /\ Blank.state = InitialState /\ Blank.baseState = InitialState /\ Blank.baseQueue = <<>>
      /\ Blank.hook = [k \in Kinds |-> NoEffect] /\ Blank.list = [k \in Kinds |-> NoEffect]
    BY DEF Blank
<1>2. NoEffect \in Effects /\ InitialState \in States
    BY ComponentAssumption DEF NoEffect, Effects
<1>3. d \in Passes
  <2>1. <<>> \in Seq(Updates)
      OBVIOUS
  <2> HIDE DEF Blank
  <2> QED BY <1>1, <1>2, <2>1, AsPassType
<1>4. /\ d.pending = <<>> /\ d.drops = FALSE /\ d.time = NoWork /\ d.hook = Blank.hook
      /\ d.state = InitialState /\ d.baseState = InitialState /\ d.baseQueue = <<>>
      /\ d.received = TRUE /\ d.lastRenderedState = InitialState
    BY <1>1 DEF AsPass
<1>5. KeepsDestroy(d)
    BY <1>1, <1>4 DEF KeepsDestroy, Previous
<1>6. NoWork < t
    BY TimesAreNumbers
<1>7. renderWithHooks(props, TRUE, t) = Finish(d, props, t)
  <2>1. FirstPass(props, TRUE, t) = Component(d, props, t)
      BY DEF FirstPass
  <2> HIDE DEF d
  <2> QED BY <2>1, RenderFinishes, Zenon
<1> QED BY <1>3, <1>4, <1>5, <1>6, <1>7

\* The component is mounted, by a render that ends with r.
Mounts(t, r) ==
    LET d == AsPass(Blank, TRUE, InitialState)
    IN  /\ ~current.is /\ PropsAt(t) \in Props /\ ~passive
        /\ Finishes(d, r, PropsAt(t))
        /\ d.time = NoWork /\ d.state = InitialState /\ d.baseState = InitialState
        /\ d.baseQueue = <<>> /\ d.lastRenderedState = InitialState
        /\ alternate' = AsFiber(r)
        /\ queue' = [pending |-> <<>>, lastRenderedState |-> r.lastRenderedState]
        /\ current' = current
        /\ Renders(t, "renders", FALSE)

\* mountFunctionComponent in these words.
LEMMA MountDoes ==
    ASSUME TypeOK, NEW t \in Times, mountFunctionComponent(t)
    PROVE  \E r : Mounts(t, r)
<1> DEFINE d == AsPass(Blank, TRUE, InitialState)
           r == renderWithHooks(PropsAt(t), TRUE, t)
<1>1. /\ ~current.is /\ PropsAt(t) \in Props /\ ~passive /\ current' = current
      /\ alternate' = AsFiber(r) /\ TakePending(r) /\ Renders(t, "renders", FALSE)
    BY PropsAtType DEF mountFunctionComponent, CanRender
<1>2. /\ d \in Passes /\ KeepsDestroy(d)
      /\ d.pending = <<>> /\ d.drops = FALSE /\ d.time = NoWork /\ d.time < t
      /\ d.state = InitialState /\ d.baseState = InitialState /\ d.baseQueue = <<>>
      /\ d.lastRenderedState = InitialState
      /\ r = Finish(d, PropsAt(t), t)
    BY <1>1, MountStarts
<1> HIDE DEF d, r
<1>3. Finishes(d, r, PropsAt(t))
    BY <1>1, <1>2, FinishMakes
<1>4. queue' = [pending |-> <<>>, lastRenderedState |-> r.lastRenderedState]
    BY <1>1 DEF TakePending
<1>5. Mounts(t, r)
    BY <1>1, <1>2, <1>3, <1>4 DEF Mounts, d
<1> QED BY <1>5

\* The component is rendered anew, from d to r.
Rerenders(t, d, r) ==
    /\ pc = "idle" /\ current.is /\ PropsAt(t) \in Props /\ ~passive
    /\ Reduced(ParentRenders(t), t, d) /\ Finishes(d, r, PropsAt(t))
    /\ queue' = [pending |-> <<>>, lastRenderedState |-> r.lastRenderedState]
    /\ IF r.received
       THEN /\ alternate' = AsFiber(r)
            /\ current' = [current EXCEPT !.baseQueue = AllUpdates]
       ELSE /\ alternate' = [AsFiber(r) EXCEPT !.list = current.list, !.changed = FALSE]
            /\ current' = [current EXCEPT !.baseQueue = AllUpdates,
                                          !.time = IF @ <= t THEN NoWork ELSE @]
    /\ Renders(t, IF r.received THEN "renders" ELSE "bailsOut", r.drops)

\* updateFunctionComponent in these words.
LEMMA UpdateDoes ==
    ASSUME TypeOK, Shape, NEW t \in Times, updateFunctionComponent(t)
    PROVE  \E d, r : Rerenders(t, d, r)
<1> DEFINE d == Start(ParentRenders(t), t)
           r == renderWithHooks(PropsAt(t), ParentRenders(t), t)
<1>1. /\ pc = "idle" /\ current.is /\ PropsAt(t) \in Props /\ ~passive
      /\ ParentRenders(t) \in BOOLEAN /\ TakePending(r)
      /\ IF r.received
         THEN /\ alternate' = AsFiber(r)
              /\ current' = CurrentTakesPending
         ELSE /\ alternate' = [AsFiber(r) EXCEPT !.list = current.list, !.changed = FALSE]
              /\ current' = [CurrentTakesPending EXCEPT !.time = IF @ <= t THEN NoWork ELSE @]
      /\ Renders(t, IF r.received THEN "renders" ELSE "bailsOut", r.drops)
    BY PropsAtType DEF updateFunctionComponent, CanRender
<1>2. Reduced(ParentRenders(t), t, d) /\ KeepsDestroy(d) /\ r = Finish(d, PropsAt(t), t)
    BY <1>1, Starts
<1> HIDE DEF d, r
<1>3. Finishes(d, r, PropsAt(t))
    BY <1>1, <1>2, FinishMakes, FiberIs DEF Reduced
<1>4. queue' = [pending |-> <<>>, lastRenderedState |-> r.lastRenderedState]
    BY <1>1 DEF TakePending
<1>5. CurrentTakesPending = [current EXCEPT !.baseQueue = AllUpdates]
    BY DEF CurrentTakesPending, AllUpdates
<1>6. [CurrentTakesPending EXCEPT !.time = IF @ <= t THEN NoWork ELSE @]
        = [current EXCEPT !.baseQueue = AllUpdates, !.time = IF @ <= t THEN NoWork ELSE @]
    BY <1>5
<1>7. Rerenders(t, d, r)
    BY <1>1, <1>2, <1>3, <1>4, <1>5, <1>6 DEF Rerenders
<1> QED BY <1>7

\* The component throws in a first pass that started from d.
Throws(t, d, p) ==
    /\ current.is
    /\ Reduced(ParentRenders(t), t, d)
    /\ p \in Passes /\ p.lastRenderedState = d.lastRenderedState
    /\ queue' = [pending |-> <<>>, lastRenderedState |-> p.lastRenderedState]
    /\ current' = [current EXCEPT !.baseQueue = AllUpdates]
    /\ alternate' = [is |-> TRUE, time |-> p.time]
    /\ spoilt' = spoilt \cup (IF MistakesState(p.lastRenderedState, <<>>) THEN {"eager"} ELSE {})
    /\ pc = "idle"
    /\ discards' = discards + 1
    /\ UNCHANGED <<parent, waiting, pc, render, passive, alive, screen, expected, made, parentMade>>

\* throwWhileRendering in these words.
LEMMA ThrowDoes ==
    ASSUME TypeOK, Shape, NEW t \in Times, throwWhileRendering(t)
    PROVE  \E d, p : Throws(t, d, p)
<1> DEFINE d == Start(ParentRenders(t), t)
           p == FirstPass(PropsAt(t), ParentRenders(t), t)
<1>1. /\ current.is /\ PropsAt(t) \in Props /\ ParentRenders(t) \in BOOLEAN /\ pc = "idle"
      /\ TakePending(p) /\ current' = CurrentTakesPending
      /\ alternate' = Leftover(AsFiber(p))
      /\ spoilt' = spoilt \cup (IF MistakesState(p.lastRenderedState, <<>>) THEN {"eager"} ELSE {})
      /\ discards' = discards + 1
      /\ UNCHANGED <<parent, waiting, pc, render, passive, alive, screen, expected, made, parentMade>>
    BY PropsAtType DEF throwWhileRendering, CanRender, resetHooksAfterThrow
<1>2. Reduced(ParentRenders(t), t, d) /\ KeepsDestroy(d) /\ p = Component(d, PropsAt(t), t)
    BY <1>1, Starts
<1> HIDE DEF d, p
<1>3. p \in Passes /\ p.lastRenderedState = d.lastRenderedState
    BY <1>1, <1>2, ComponentMakes, FiberIs DEF Reduced
<1>4. /\ queue' = [pending |-> <<>>, lastRenderedState |-> p.lastRenderedState]
      /\ current' = [current EXCEPT !.baseQueue = AllUpdates]
    BY <1>1 DEF TakePending, CurrentTakesPending, AllUpdates
<1>5. alternate' = [is |-> TRUE, time |-> p.time]
    BY <1>1, <1>3, AsFiberType DEF Leftover
<1>6. Throws(t, d, p)
    BY <1>1, <1>2, <1>3, <1>4, <1>5 DEF Throws
<1> QED BY <1>6

-----------------------------------------------------------------------------
(* Types *)

\* The types hold at first.
LEMMA InitTypes == ASSUME Init PROVE TypeOK /\ Shape
<1>1. TypeOK
  <2>1. queue \in [pending : Seq(Updates), lastRenderedState : States \cup {NoState}]
      BY DEF Init, NoQueue
  <2>2. waiting \in {{[time |-> Sync, props |-> props]} : props \in Props}
      BY DEF Init
  <2>3. \A u \in waiting : u \in [time : Times, props : AnyProps] /\ waiting = {u}
      BY <2>2, TimesAreNumbers DEF AnyProps
  <2>4. ~Rendered
      BY DEF Init, Rendered
  <2>5. alive \in [Kinds -> [States -> Int]]
      BY DEF Init
  <2> QED BY <2>1, <2>3, <2>4, <2>5, TimesAreNumbers, ComponentAssumption
          DEF Init, TypeOK, AnyProps, NoRender
<1>2. Shape
    BY NoFiberIsNot DEF Init, Shape, Rendered, NoRender, NoQueue
<1> QED BY <1>1, <1>2

\* What all ways of rendering do.
LEMMA RendersDoes ==
    ASSUME TypeOK, NEW t \in Times, NEW does \in {"renders", "bailsOut", "deletes"}, NEW drops \in BOOLEAN,
           Renders(t, does, drops)
    PROVE  /\ pc' = "rendered"
           /\ render' \in [props : AnyProps, parentRenders : BOOLEAN,
                           does : {"nothing", "renders", "bailsOut", "deletes"}, drops : BOOLEAN]
           /\ render'.props = PropsAt(t) /\ render'.does = does /\ render'.drops = drops
           /\ render'.parentRenders = ParentRenders(t)
           /\ parent' = parent /\ waiting' = waiting /\ passive' = passive
           /\ alive' = alive /\ screen' = screen /\ expected' = expected /\ spoilt' = spoilt
           /\ made' = made /\ parentMade' = parentMade /\ discards' = discards
BY PropsAtType DEF Renders, history, bounds

\* Everything of a fiber but its time.
SameFiber(f, g) ==
    /\ f \in Fibers /\ f.is = TRUE
    /\ f.state = g.state /\ f.baseState = g.baseState /\ f.baseQueue = g.baseQueue
    /\ f.hook = g.hook /\ f.list = g.list /\ f.changed = g.changed

\* An update is made, with the eager state eager, and marks the fibers or not.
Dispatches(t, action, eager, marks) ==
    LET update == [time |-> t, action |-> action, eager |-> eager]
    IN  /\ current \in Fibers /\ current.is = TRUE /\ action \in [States -> States]
        /\ eager = IF Eagerly THEN action[queue.lastRenderedState] ELSE NoState
        /\ marks <=> eager # queue.lastRenderedState
        /\ update \in Updates
        /\ queue' \in [pending : Seq(Updates), lastRenderedState : States \cup {NoState}]
        /\ queue'.pending = Append(queue.pending, update)
        /\ queue'.lastRenderedState = queue.lastRenderedState
        /\ SameFiber(current', current)
        /\ current'.time = IF marks THEN Later(current.time, t) ELSE current.time
        /\ Rendered => /\ SameFiber(alternate', alternate)
                       /\ alternate'.time = IF marks THEN Later(alternate.time, t) ELSE alternate.time
        /\ ~Rendered => alternate' \in Leftovers \cup {NoFiber}
        /\ parent' \in [props : AnyProps, childTime : AnyTime] /\ parent'.props = parent.props
        /\ parent'.childTime = IF marks THEN Later(parent.childTime, t) ELSE parent.childTime
        /\ expected' = IF expected = NoState THEN NoState ELSE action[expected]
        /\ made' = made + 1
        /\ UNCHANGED <<waiting, pc, render, passive, alive, screen, spoilt, parentMade, discards>>

\* dispatchAction in these words.
LEMMA DispatchDoes ==
    ASSUME TypeOK, Shape, NEW t \in Times, NEW action \in Actions, dispatchAction(t, action)
    PROVE  \E eager, marks : Dispatches(t, action, eager, marks)
<1> DEFINE eager  == IF Eagerly THEN action[queue.lastRenderedState] ELSE NoState
           update == [time |-> t, action |-> action, eager |-> eager]
           marks  == eager # queue.lastRenderedState
<1>1. current \in Fibers /\ current.is = TRUE /\ action \in [States -> States]
    BY FiberIs, ComponentAssumption DEF dispatchAction
<1>2. update \in Updates
    BY <1>1 DEF Updates, Shape
<1>3. queue' = [queue EXCEPT !.pending = Append(@, update)]
    BY DEF dispatchAction
<1>5. IF marks THEN MarkUpdateTime(t) ELSE UNCHANGED <<current, alternate, parent>>
    BY DEF dispatchAction
<1> HIDE DEF eager, marks
<1>4. /\ queue' \in [pending : Seq(Updates), lastRenderedState : States \cup {NoState}]
      /\ queue'.lastRenderedState = queue.lastRenderedState
      /\ queue'.pending = Append(queue.pending, update)
  <2> HIDE DEF update
  <2>1. queue \in [pending : Seq(Updates), lastRenderedState : States \cup {NoState}]
      BY DEF TypeOK
  <2>2. Append(queue.pending, update) \in Seq(Updates)
      BY <1>2, <2>1
  <2> QED BY <1>3, <2>1, <2>2
<1>6. /\ SameFiber(current', current)
      /\ current'.time = IF marks THEN Later(current.time, t) ELSE current.time
  <2> DEFINE g == [current EXCEPT !.time = Later(@, t)]
  <2>1. SameFiber(g, current) /\ g.time = Later(current.time, t)
      BY <1>1, MarkedFiber, TimesAreNumbers DEF SameFiber
  <2>2. current' = IF marks THEN g ELSE current
      BY <1>5 DEF MarkUpdateTime
  <2> HIDE DEF g
  <2> QED BY <1>1, <2>1, <2>2 DEF SameFiber
<1>7. /\ UNCHANGED <<waiting, pc, render, passive, alive, screen, spoilt, parentMade, discards>>
      /\ expected' = (IF expected = NoState THEN NoState ELSE action[expected])
      /\ made' = made + 1
    BY DEF dispatchAction
<1>8. /\ Rendered => /\ SameFiber(alternate', alternate)
                     /\ alternate'.time = IF marks THEN Later(alternate.time, t) ELSE alternate.time
      /\ ~Rendered => alternate' \in Leftovers \cup {NoFiber}
  <2> DEFINE g == [alternate EXCEPT !.time = Later(@, t)]
  <2>1. CASE Rendered
    <3>1. alternate \in Fibers /\ alternate.is = TRUE
        BY <2>1 DEF TypeOK, Fibers
    <3>2. SameFiber(g, alternate) /\ g.time = Later(alternate.time, t)
        BY <3>1, MarkedFiber, TimesAreNumbers DEF SameFiber
    <3>3. alternate' = IF marks THEN g ELSE alternate
        BY <1>5, <3>1 DEF MarkUpdateTime
    <3> HIDE DEF g
    <3> QED BY <2>1, <3>1, <3>2, <3>3 DEF SameFiber
  <2>2. CASE ~Rendered
    <3>1. alternate \in Leftovers \cup {NoFiber}
        BY <2>2 DEF TypeOK
    <3>2. alternate.is => alternate \in Leftovers
        BY <3>1, NoFiberIsNot
    <3>3. alternate \in Leftovers => g \in Leftovers
        BY MarkedFiber, TimesAreNumbers
    <3>4. alternate' = IF marks /\ alternate.is THEN g ELSE alternate
        BY <1>5 DEF MarkUpdateTime
    <3> HIDE DEF g
    <3> QED BY <2>2, <3>1, <3>2, <3>3, <3>4
  <2> QED BY <2>1, <2>2
<1>9. /\ parent' \in [props : AnyProps, childTime : AnyTime] /\ parent'.props = parent.props
      /\ parent'.childTime = IF marks THEN Later(parent.childTime, t) ELSE parent.childTime
    BY <1>5, LaterType, TimesAreNumbers DEF MarkUpdateTime, TypeOK
<1>10. Dispatches(t, action, eager, marks)
    BY <1>1, <1>2, <1>4, <1>6, <1>7, <1>8, <1>9 DEF Dispatches, eager, marks
<1> QED BY <1>10

\* The types hold after a dispatch.
LEMMA DispatchTypes ==
    ASSUME TypeOK, Shape, NEW t \in Times, NEW action, NEW eager, NEW marks,
           Dispatches(t, action, eager, marks)
    PROVE  TypeOK' /\ Shape'
<1>1. Rendered' <=> Rendered
    BY DEF Dispatches, Rendered
<1>2. expected' \in States \cup {NoState}
    BY DEF Dispatches, TypeOK
<1>3. TypeOK'
    BY <1>1, <1>2 DEF Dispatches, SameFiber, TypeOK
<1>4. Shape'
    BY <1>1 DEF Dispatches, SameFiber, Shape
<1> QED BY <1>3, <1>4

\* And after the first render.
LEMMA MountTypes ==
    ASSUME TypeOK, Shape, NEW t \in Times, NEW r, Mounts(t, r)
    PROVE  TypeOK' /\ Shape'
<1>1. r \in Passes /\ (r.baseQueue = <<>> => r.baseState = r.state)
    BY DEF Mounts, Finishes
<1>2. queue' = [pending |-> <<>>, lastRenderedState |-> r.lastRenderedState]
      /\ r.lastRenderedState \in States \cup {NoState}
    BY <1>1 DEF Mounts, Passes
<1>3. queue' \in [pending : Seq(Updates), lastRenderedState : States \cup {NoState}]
    BY <1>2
<1>4. /\ alternate' \in Fibers
      /\ alternate'.baseQueue = <<>> => alternate'.baseState = alternate'.state
    BY <1>1, AsFiberType DEF Mounts
<1>5. current' = current /\ ~current.is /\ PropsAt(t) \in Props /\ ~passive
    BY DEF Mounts
<1>6. Renders(t, "renders", FALSE)
    BY DEF Mounts
<1>7. TypeOK'
    BY <1>3, <1>4, <1>5, <1>6, RendersDoes DEF TypeOK, Rendered
<1>9. r.lastRenderedState \in States
    BY <1>1, ComponentAssumption DEF Mounts, Finishes, Passes
<1>8. Shape'
    BY <1>2, <1>4, <1>5, <1>6, <1>9, RendersDoes, ComponentAssumption DEF Shape, Rendered
<1> QED BY <1>7, <1>8

\* The component is rendered anew: what becomes of the two fibers.
LEMMA RerenderFibers ==
    ASSUME TypeOK, Shape, NEW t \in Times, NEW d, NEW r, Rerenders(t, d, r)
    PROVE  /\ r \in Passes /\ d \in Passes /\ AllUpdates \in Seq(Updates)
           /\ queue'.pending = <<>> /\ queue'.lastRenderedState = r.lastRenderedState
           /\ queue' \in [pending : Seq(Updates), lastRenderedState : States \cup {NoState}]
           /\ current' \in Fibers /\ current'.is = TRUE
           /\ current'.state = current.state /\ current'.baseState = current.baseState
           /\ current'.baseQueue = AllUpdates /\ current'.hook = current.hook
           /\ current'.list = current.list /\ current'.changed = current.changed
           /\ current'.time = IF ~r.received /\ current.time <= t THEN NoWork ELSE current.time
           /\ alternate' \in Fibers
           /\ alternate'.time = r.time /\ alternate'.state = r.state
           /\ alternate'.baseState = r.baseState /\ alternate'.baseQueue = r.baseQueue
           /\ alternate'.hook = r.hook
           /\ alternate'.list = IF r.received THEN r.list ELSE current.list
           /\ alternate'.changed = IF r.received THEN r.changed ELSE FALSE
<1>1. r \in Passes /\ d \in Passes /\ current.is
    BY DEF Rerenders, Reduced, Finishes
<1>2. current \in Fibers /\ current.is = TRUE /\ queue.pending \in Seq(Updates)
    BY <1>1, FiberIs DEF TypeOK
<1>3. AllUpdates \in Seq(Updates)
    BY <1>2 DEF AllUpdates, Fibers
<1>4. /\ AsFiber(r) \in Fibers /\ AsFiber(r).is = TRUE
      /\ AsFiber(r).time = r.time /\ AsFiber(r).state = r.state /\ AsFiber(r).baseState = r.baseState
      /\ AsFiber(r).baseQueue = r.baseQueue /\ AsFiber(r).hook = r.hook /\ AsFiber(r).list = r.list
      /\ AsFiber(r).changed = r.changed
    BY <1>1, AsFiberType
<1>5. queue' = [pending |-> <<>>, lastRenderedState |-> r.lastRenderedState]
      /\ r.lastRenderedState \in States \cup {NoState}
    BY <1>1 DEF Rerenders, Passes
<1>6. queue' \in [pending : Seq(Updates), lastRenderedState : States \cup {NoState}]
    BY <1>5
<1> DEFINE f == AsFiber(r)
<1> HIDE DEF f
<1>7. CASE r.received
  <2>1. alternate' = f /\ current' = [current EXCEPT !.baseQueue = AllUpdates]
      BY <1>7 DEF Rerenders, f
  <2>2. /\ current' \in Fibers /\ current'.is = TRUE
        /\ current'.state = current.state /\ current'.baseState = current.baseState
        /\ current'.baseQueue = AllUpdates /\ current'.hook = current.hook
        /\ current'.list = current.list /\ current'.changed = current.changed
        /\ current'.time = current.time
      BY <1>2, <1>3, <2>1 DEF Fibers
  <2> QED BY <1>1, <1>3, <1>4, <1>5, <1>6, <1>7, <2>1, <2>2 DEF f
<1>8. CASE ~r.received
  <2>1. alternate' = [f EXCEPT !.list = current.list, !.changed = FALSE]
        /\ current' = [current EXCEPT !.baseQueue = AllUpdates, !.time = IF @ <= t THEN NoWork ELSE @]
      BY <1>8 DEF Rerenders, f
  <2>2. /\ current' \in Fibers /\ current'.is = TRUE
        /\ current'.state = current.state /\ current'.baseState = current.baseState
        /\ current'.baseQueue = AllUpdates /\ current'.hook = current.hook
        /\ current'.list = current.list /\ current'.changed = current.changed
        /\ current'.time = IF current.time <= t THEN NoWork ELSE current.time
      BY <1>2, <1>3, <2>1, TimesAreNumbers DEF Fibers
  <2>3. /\ alternate' \in Fibers
        /\ alternate'.time = f.time /\ alternate'.state = f.state
        /\ alternate'.baseState = f.baseState /\ alternate'.baseQueue = f.baseQueue
        /\ alternate'.hook = f.hook
        /\ alternate'.list = current.list /\ alternate'.changed = FALSE
      BY <1>2, <1>4, <2>1 DEF Fibers, f
  <2> QED BY <1>1, <1>3, <1>4, <1>5, <1>6, <1>8, <2>2, <2>3 DEF f
<1> QED BY <1>7, <1>8

\* The types hold after a render.
LEMMA RerenderTypes ==
    ASSUME TypeOK, Shape, NEW t \in Times, NEW d, NEW r, Rerenders(t, d, r)
    PROVE  TypeOK' /\ Shape'
<1>1. /\ current.is /\ PropsAt(t) \in Props /\ ~passive
      /\ Reduced(ParentRenders(t), t, d) /\ Finishes(d, r, PropsAt(t))
      /\ Renders(t, IF r.received THEN "renders" ELSE "bailsOut", r.drops)
    BY DEF Rerenders
<1> DEFINE RF == /\ r \in Passes /\ d \in Passes /\ AllUpdates \in Seq(Updates)
           /\ queue'.pending = <<>> /\ queue'.lastRenderedState = r.lastRenderedState
           /\ queue' \in [pending : Seq(Updates), lastRenderedState : States \cup {NoState}]
           /\ current' \in Fibers /\ current'.is = TRUE
           /\ current'.state = current.state /\ current'.baseState = current.baseState
           /\ current'.baseQueue = AllUpdates 
           /\ alternate' \in Fibers
           /\ alternate'.time = r.time /\ alternate'.state = r.state
           /\ alternate'.baseState = r.baseState /\ alternate'.baseQueue = r.baseQueue
<1>11. RF
    BY RerenderFibers
<1>2. r.drops \in BOOLEAN /\ r.lastRenderedState \in States \cup {NoState} /\ r.state \in States
      /\ d.state \in States
    BY <1>11 DEF Passes
<1>3. r.lastRenderedState \in States
    BY <1>1, <1>2 DEF Finishes, Reduced, Shape
<1>4. r.baseQueue = <<>> => r.baseState = r.state
    BY <1>1 DEF Finishes, Reduced
<1> DEFINE does == IF r.received THEN "renders" ELSE "bailsOut"
<1>12. does \in {"renders", "bailsOut"} /\ Renders(t, does, r.drops)
    BY <1>1
<1> HIDE DEF does
<1>13. /\ pc' = "rendered" /\ render'.does = does
       /\ render' \in [props : AnyProps, parentRenders : BOOLEAN,
                       does : {"nothing", "renders", "bailsOut", "deletes"}, drops : BOOLEAN]
       /\ parent' = parent /\ waiting' = waiting /\ passive' = passive
       /\ alive' = alive /\ screen' = screen /\ expected' = expected /\ spoilt' = spoilt
       /\ made' = made /\ parentMade' = parentMade /\ discards' = discards
    BY <1>2, <1>12, RendersDoes
<1>14. Rendered'
    BY <1>12, <1>13 DEF Rendered
<1>5. TypeOK'
    BY <1>11, <1>13, <1>14 DEF TypeOK
<1>6. AllUpdates = <<>> => current.baseQueue = <<>>
    BY FiberIs, <1>1 DEF AllUpdates, Fibers, TypeOK
<1>7. Shape'
    BY <1>1, <1>2, <1>3, <1>4, <1>6, <1>11, <1>13, RendersDoes, ComponentAssumption DEF Shape, Rendered
<1> QED BY <1>5, <1>7

\* And after one that throws.
LEMMA ThrowTypes ==
    ASSUME TypeOK, Shape, NEW t \in Times, NEW d, NEW p, Throws(t, d, p)
    PROVE  TypeOK' /\ Shape'
<1>1. current \in Fibers /\ current.is = TRUE /\ queue.pending \in Seq(Updates)
    BY FiberIs DEF Throws, TypeOK
<1>2. AllUpdates \in Seq(Updates) /\ (AllUpdates = <<>> => current.baseQueue = <<>>)
    BY <1>1 DEF AllUpdates, Fibers
<1>3. /\ current' \in Fibers /\ current'.is = TRUE /\ current'.state = current.state
      /\ current'.baseState = current.baseState /\ current'.baseQueue = AllUpdates
    BY <1>1, <1>2 DEF Throws, Fibers
<1>4. alternate' \in Leftovers
    BY DEF Throws, Leftovers, Passes
<1>5. /\ queue' = [pending |-> <<>>, lastRenderedState |-> p.lastRenderedState]
      /\ p.lastRenderedState \in States
    BY DEF Throws, Reduced, Passes, Shape
<1>6. queue' \in [pending : Seq(Updates), lastRenderedState : States \cup {NoState}]
    BY <1>5
<1>7. /\ pc = "idle" /\ spoilt' \subseteq {"skipped", "bailout", "eager", "effect"}
      /\ discards' \in Nat
      /\ UNCHANGED <<parent, waiting, pc, render, passive, alive, screen, expected, made, parentMade>>
    BY DEF Throws, TypeOK
<1>8. ~Rendered'
    BY <1>7 DEF Rendered
<1>9. TypeOK'
    BY <1>3, <1>4, <1>6, <1>7, <1>8 DEF TypeOK
<1>10. Shape'
    BY <1>1, <1>2, <1>3, <1>5, <1>7, <1>8 DEF Shape
<1> QED BY <1>9, <1>10

\* And after one is thrown away.
LEMMA DiscardTypes == ASSUME TypeOK, Shape, discard PROVE TypeOK' /\ Shape'
<1>1. /\ pc' = "idle" /\ render' = NoRender /\ discards' = discards + 1
      /\ alternate' = IF current.is THEN Leftover(alternate) ELSE NoFiber
      /\ queue' = IF current.is THEN queue ELSE NoQueue
      /\ spoilt' = spoilt \cup Breaks
      /\ UNCHANGED <<current, parent, waiting, passive, alive, screen, expected, made, parentMade>>
    BY DEF discard
<1>2. alternate \in Fibers \cup Leftovers \cup {NoFiber}
    BY DEF TypeOK
<1>3. alternate' \in Leftovers \cup {NoFiber}
    BY <1>1, <1>2, LeftoverType
<1>4. NoQueue \in [pending : Seq(Updates), lastRenderedState : States \cup {NoState}]
      /\ NoQueue.pending = <<>>
    BY DEF NoQueue
<1>5. render' \in [props : AnyProps, parentRenders : BOOLEAN,
                   does : {"nothing", "renders", "bailsOut", "deletes"}, drops : BOOLEAN]
      /\ render'.does = "nothing"
    BY <1>1 DEF NoRender, AnyProps
<1>6. Breaks \subseteq {"bailout", "eager"}
    BY DEF Breaks
<1>7. ~Rendered'
    BY <1>1 DEF Rendered
<1>8. TypeOK'
    BY <1>1, <1>3, <1>4, <1>5, <1>6, <1>7 DEF TypeOK
<1>9. Shape'
    BY <1>1, <1>4, <1>5, <1>7 DEF Shape
<1> QED BY <1>8, <1>9

\* Instances are counted.
LEMMA RanType ==
    ASSUME NEW a \in [States -> Int], NEW e
    PROVE  Ran(a, e) \in [States -> Int]
BY DEF Ran

\* So they are after a commit.
LEMMA AliveAfterType ==
    ASSUME TypeOK, NEW f, NEW k \in Kinds
    PROVE  AliveAfter(f, k) \in [Kinds -> [States -> Int]]
<1>1. alive \in [Kinds -> [States -> Int]]
    BY DEF TypeOK
<1>2. Ran(alive[k], f.list[k]) \in [States -> Int]
    BY <1>1, RanType
<1>3. AliveAfter(f, k) = IF f.changed /\ f.list[k].hasEffect
                         THEN [alive EXCEPT ![k] = Ran(alive[k], f.list[k])] ELSE alive
    BY DEF AliveAfter
<1> QED BY <1>1, <1>2, <1>3

\* And after a commit.
LEMMA CommitTypes == ASSUME TypeOK, Shape, commitRoot PROVE TypeOK' /\ Shape'
<1>1. /\ Rendered /\ pc' = "idle" /\ render' = NoRender
      /\ current' = CommitHookEffects(alternate, "layout")
      /\ alternate' = Leftover(current)
      /\ parent' = [props |-> render.props, childTime |-> alternate.time]
      /\ waiting' = IF render.parentRenders THEN {} ELSE waiting
      /\ passive' = alternate.changed
      /\ alive' = AliveAfter(alternate, "layout")
      /\ screen' = IF render.does = "renders" THEN alternate.state ELSE screen
      /\ expected' = IF MayDispatch(render.props) THEN NoState ELSE expected
      /\ spoilt' = spoilt \cup (IF render.drops THEN {"skipped"} ELSE {})
                          \cup (IF \E k \in Kinds : alternate.hook[k].deps # alternate.list[k].deps
                                THEN {"effect"} ELSE {})
      /\ UNCHANGED <<queue, made, parentMade, discards>>
    BY DEF commitRoot, Rendered, bounds
<1>2. alternate \in Fibers
    BY <1>1 DEF TypeOK
<1>3. current' \in Fibers /\ current'.is = TRUE /\ current'.state = alternate.state
      /\ current'.baseState = alternate.baseState /\ current'.baseQueue = alternate.baseQueue
    BY <1>1, <1>2, KindsAre, CommittedFiber DEF Committed
<1>4. alternate' \in Leftovers \cup {NoFiber}
  <2>1. current \in Fibers \cup Leftovers \cup {NoFiber}
      BY DEF TypeOK
  <2> QED BY <1>1, <2>1, LeftoverType
<1>5. ~Rendered'
    BY <1>1 DEF Rendered
<1>6. alive' \in [Kinds -> [States -> Int]]
    BY <1>1, AliveAfterType, KindsAre
<1>7. alternate.time \in AnyTime /\ alternate.changed \in BOOLEAN /\ alternate.state \in States
    BY <1>2 DEF Fibers
<1>8. render.props \in Props /\ parent' \in [props : AnyProps, childTime : AnyTime]
      /\ parent'.props = render.props
    BY <1>1, <1>7 DEF TypeOK, Shape, AnyProps
<1>9. NoRender \in [props : AnyProps, parentRenders : BOOLEAN,
                    does : {"nothing", "renders", "bailsOut", "deletes"}, drops : BOOLEAN]
      /\ NoRender.does = "nothing"
    BY DEF NoRender, AnyProps
<1>10. /\ queue' = queue /\ passive' \in BOOLEAN /\ screen' \in States \cup {NoState}
       /\ expected' \in States \cup {NoState}
       /\ spoilt' \subseteq {"skipped", "bailout", "eager", "effect"}
       /\ \A u \in waiting' : u \in [time : Times, props : AnyProps] /\ waiting' = {u}
    BY <1>1, <1>7 DEF TypeOK
<1>11. made' \in Nat /\ parentMade' \in Nat /\ discards' \in Nat
    BY <1>1 DEF TypeOK
<1>12. TypeOK'
    BY <1>1, <1>3, <1>4, <1>5, <1>6, <1>8, <1>9, <1>10, <1>11 DEF TypeOK
<1>13. queue.lastRenderedState \in States
    BY <1>1 DEF Shape
<1>14. Shape'
    BY <1>1, <1>3, <1>5, <1>8, <1>9, <1>10, <1>13 DEF Shape
<1> QED BY <1>12, <1>14

\* The component is left as it is.
Bails(t) ==
    /\ current.is /\ PropsAt(t) = parent.props /\ pc = "idle" /\ ~passive
    /\ alternate' = [current EXCEPT !.changed = FALSE]
    /\ queue' = queue /\ current' = current
    /\ Renders(t, "bailsOut", FALSE)

\* bailoutOnAlreadyFinishedWork in these words.
LEMMA BailoutDoes ==
    ASSUME TypeOK, NEW t \in Times, bailoutOnAlreadyFinishedWork(t)
    PROVE  Bails(t)
BY PropsAtType DEF bailoutOnAlreadyFinishedWork, CanRender, Bails

\* The work in progress that is a copy of current.
LEMMA BailoutFiber ==
    ASSUME TypeOK, NEW t \in Times, Bails(t)
    PROVE  /\ current \in Fibers
           /\ alternate' \in Fibers
           /\ alternate'.time = current.time /\ alternate'.state = current.state
           /\ alternate'.baseState = current.baseState
           /\ alternate'.baseQueue = current.baseQueue
           /\ alternate'.hook = current.hook /\ alternate'.list = current.list
           /\ alternate'.changed = FALSE
<1>1. current \in Fibers
    BY FiberIs DEF Bails
<1> QED BY <1>1 DEF Bails, Fibers

\* And after a bail-out.
LEMMA BailoutTypes ==
    ASSUME TypeOK, Shape, NEW t \in Times, Bails(t)
    PROVE  TypeOK' /\ Shape'
<1>1. /\ alternate' \in Fibers
      /\ alternate'.state = current.state
      /\ alternate'.baseState = current.baseState
      /\ alternate'.baseQueue = current.baseQueue
    BY BailoutFiber
<1>2. /\ current.is /\ PropsAt(t) = parent.props /\ ~passive
      /\ queue' = queue /\ current' = current
    BY DEF Bails
<1>3. /\ pc' = "rendered" /\ render'.does = "bailsOut" /\ render'.props = parent.props
      /\ render' \in [props : AnyProps, parentRenders : BOOLEAN,
                      does : {"nothing", "renders", "bailsOut", "deletes"}, drops : BOOLEAN]
      /\ parent' = parent /\ waiting' = waiting /\ passive' = passive
      /\ alive' = alive /\ screen' = screen /\ expected' = expected /\ spoilt' = spoilt
      /\ made' = made /\ parentMade' = parentMade /\ discards' = discards
    BY <1>2, RendersDoes DEF Bails
<1>4. Rendered'
    BY <1>3 DEF Rendered
<1>5. TypeOK'
    BY <1>1, <1>2, <1>3, <1>4 DEF TypeOK
<1>6. Shape'
    BY <1>1, <1>2, <1>3, <1>4, ComponentAssumption DEF Shape
<1> QED BY <1>5, <1>6

\* And when a deletion is rendered.
LEMMA DeleteTypes ==
    ASSUME TypeOK, Shape, NEW t \in Times, deleteComponent(t)
    PROVE  TypeOK' /\ Shape'
<1>1. /\ pc = "idle" /\ ~passive /\ Renders(t, "deletes", FALSE)
      /\ UNCHANGED <<queue, current, alternate>>
    BY DEF deleteComponent, CanRender
<1>2. /\ pc' = "rendered" /\ render'.does = "deletes"
      /\ render' \in [props : AnyProps, parentRenders : BOOLEAN,
                      does : {"nothing", "renders", "bailsOut", "deletes"}, drops : BOOLEAN]
      /\ parent' = parent /\ waiting' = waiting /\ passive' = passive
      /\ alive' = alive /\ screen' = screen /\ expected' = expected /\ spoilt' = spoilt
      /\ made' = made /\ parentMade' = parentMade /\ discards' = discards
    BY <1>1, RendersDoes
<1>3. ~Rendered /\ ~Rendered'
    BY <1>1, <1>2 DEF Rendered
<1>4. TypeOK'
    BY <1>1, <1>2, <1>3 DEF TypeOK
<1>5. Shape'
    BY <1>1, <1>2, <1>3 DEF Shape
<1> QED BY <1>4, <1>5

\* And committed.
LEMMA DeletionTypes == ASSUME TypeOK, Shape, commitDeletion PROVE TypeOK' /\ Shape'
<1>1. /\ pc = "rendered" /\ pc' = "idle" /\ render' = NoRender
      /\ queue' = NoQueue /\ current' = NoFiber /\ alternate' = NoFiber
      /\ parent' = [props |-> Gone, childTime |-> NoWork]
      /\ waiting' = IF render.parentRenders THEN {} ELSE waiting
      /\ alive' = IF ~current.is THEN alive
                  ELSE [k \in Kinds |-> Ran(alive[k], [current.list[k] EXCEPT !.deps = NoState])]
      /\ screen' = NoState /\ expected' = InitialState /\ spoilt' = {}
      /\ UNCHANGED <<passive, made, parentMade, discards>>
    BY DEF commitDeletion, bounds
<1>2. NoQueue \in [pending : Seq(Updates), lastRenderedState : States \cup {NoState}]
      /\ NoQueue.pending = <<>>
    BY DEF NoQueue
<1>3. NoRender \in [props : AnyProps, parentRenders : BOOLEAN,
                    does : {"nothing", "renders", "bailsOut", "deletes"}, drops : BOOLEAN]
      /\ NoRender.does = "nothing"
    BY DEF NoRender, AnyProps
<1>4. alive' \in [Kinds -> [States -> Int]]
  <2>1. ASSUME NEW k \in Kinds
        PROVE  Ran(alive[k], [current.list[k] EXCEPT !.deps = NoState]) \in [States -> Int]
      BY RanType DEF TypeOK
  <2> QED BY <1>1, <2>1 DEF TypeOK
<1>5. ~Rendered'
    BY <1>1 DEF Rendered
<1>6. parent' \in [props : AnyProps, childTime : AnyTime]
    BY <1>1, TimesAreNumbers DEF AnyProps
<1>7. \A u \in waiting' : u \in [time : Times, props : AnyProps] /\ waiting' = {u}
    BY <1>1 DEF TypeOK
<1>8. TypeOK'
    BY <1>1, <1>2, <1>3, <1>4, <1>5, <1>6, <1>7, ComponentAssumption DEF TypeOK
<1>9. Shape'
    BY <1>1, <1>2, <1>3, <1>5, NoFiberIsNot DEF Shape
<1> QED BY <1>8, <1>9

\* And after passive effects are flushed.
LEMMA FlushTypes == ASSUME TypeOK, Shape, flushPassiveEffects PROVE TypeOK' /\ Shape'
<1>1. /\ pc = "idle" /\ passive /\ passive' = FALSE
      /\ current' = CommitHookEffects(current, "passive")
      /\ alive' = AliveAfter(current, "passive")
      /\ UNCHANGED <<queue, alternate, parent, waiting, pc, render, screen, expected, spoilt,
                     made, parentMade, discards>>
    BY DEF flushPassiveEffects, bounds
<1>2. current.is /\ current \in Fibers
    BY <1>1, FiberIs DEF Shape
<1>3. current' \in Fibers /\ current'.is = TRUE /\ current'.state = current.state
      /\ current'.baseState = current.baseState /\ current'.baseQueue = current.baseQueue
    BY <1>1, <1>2, KindsAre, CommittedFiber DEF Committed
<1>4. alive' \in [Kinds -> [States -> Int]]
    BY <1>1, AliveAfterType, KindsAre
<1>5. Rendered' <=> Rendered
    BY <1>1 DEF Rendered
<1>6. TypeOK'
    BY <1>1, <1>3, <1>4, <1>5 DEF TypeOK
<1>7. Shape'
    BY <1>1, <1>2, <1>3, <1>5 DEF Shape
<1> QED BY <1>6, <1>7

\* And after the parent is updated.
LEMMA ParentTypes ==
    ASSUME TypeOK, Shape, NEW t \in Times, NEW props \in Props \cup {Gone}, updateParent(t, props)
    PROVE  TypeOK' /\ Shape'
<1>1. /\ waiting' = {[time |-> t, props |-> props]} /\ parentMade' = parentMade + 1
      /\ UNCHANGED <<queue, current, alternate, parent, pc, render, passive, alive, screen, expected,
                     spoilt, made, discards>>
    BY DEF updateParent, history
<1>2. \A u \in waiting' : u \in [time : Times, props : AnyProps] /\ waiting' = {u}
    BY <1>1 DEF AnyProps
<1>3. Rendered' <=> Rendered
    BY <1>1 DEF Rendered
<1>4. TypeOK'
    BY <1>1, <1>2, <1>3 DEF TypeOK
<1>5. Shape'
    BY <1>1, <1>3 DEF Shape
<1> QED BY <1>4, <1>5

\* The steps, each with what is known of it.
StepCases ==
    \/ \E t \in Times : \E action, eager, marks : Dispatches(t, action, eager, marks)
    \/ \E t \in Times, props \in Props \cup {Gone} : updateParent(t, props)
    \/ \E t \in Times : \E r : Mounts(t, r)
    \/ \E t \in Times : deleteComponent(t)
    \/ \E t \in Times : Bails(t)
    \/ \E t \in Times : \E d, r : Rerenders(t, d, r)
    \/ \E t \in Times : \E d, p : Throws(t, d, p)
    \/ discard
    \/ commitRoot
    \/ commitDeletion
    \/ flushPassiveEffects
    \/ UNCHANGED vars

\* Every step is one of the cases.
LEMMA StepIsOneOf == ASSUME TypeOK, Shape, [Next]_vars PROVE StepCases
BY DispatchDoes, MountDoes, BailoutDoes, UpdateDoes, ThrowDoes DEF Next, Render, Commit, StepCases

\* Every step keeps the types and the shape of the state.
LEMMA StepTypes == ASSUME TypeOK, Shape, [Next]_vars PROVE TypeOK' /\ Shape'
<1>1. ASSUME NEW t \in Times, NEW action, NEW eager, NEW marks, Dispatches(t, action, eager, marks)
      PROVE  TypeOK' /\ Shape'
    BY <1>1, DispatchTypes
<1>2. ASSUME NEW t \in Times, NEW props \in Props \cup {Gone}, updateParent(t, props)
      PROVE  TypeOK' /\ Shape'
    BY <1>2, ParentTypes
<1>3. ASSUME NEW t \in Times, NEW r, Mounts(t, r) PROVE TypeOK' /\ Shape'
    BY <1>3, MountTypes
<1>4. ASSUME NEW t \in Times, deleteComponent(t) PROVE TypeOK' /\ Shape'
    BY <1>4, DeleteTypes
<1>5. ASSUME NEW t \in Times, Bails(t) PROVE TypeOK' /\ Shape'
    BY <1>5, BailoutTypes
<1>6. ASSUME NEW t \in Times, NEW d, NEW r, Rerenders(t, d, r) PROVE TypeOK' /\ Shape'
    BY <1>6, RerenderTypes
<1>7. ASSUME NEW t \in Times, NEW d, NEW p, Throws(t, d, p) PROVE TypeOK' /\ Shape'
    BY <1>7, ThrowTypes
<1>8. CASE UNCHANGED vars
    BY <1>8 DEF vars, history, bounds, TypeOK, Shape, Rendered
<1> QED
    BY <1>1, <1>2, <1>3, <1>4, <1>5, <1>6, <1>7, <1>8, StepIsOneOf,
       DiscardTypes, CommitTypes, DeletionTypes, FlushTypes DEF StepCases

-----------------------------------------------------------------------------
(* The instances of effects *)

\* e.destroy and e.create have run.
LEMMA RanInstance ==
    ASSUME NEW e
    PROVE  Ran(Instance(e.destroy), e) = Instance(e.deps)
BY DEF Ran, Instance

\* The effects of the finished tree before it is committed: what their instances are.
LEMMA MadeInstances ==
    ASSUME InstancesInv, NEW r, MadeEffects(r)
    PROVE  \A k \in Kinds : /\ r.hook[k].destroy = r.list[k].destroy
                            /\ alive[k] = Instance(r.list[k].destroy)
BY DEF InstancesInv, MadeEffects, Previous, NoEffect

\* Every step keeps one instance of an effect at most, the one that will be destroyed.
LEMMA StepInstances ==
    ASSUME TypeOK, Shape, InstancesInv, [Next]_vars
    PROVE  InstancesInv'
<1>1. ASSUME NEW t \in Times, NEW action, NEW eager, NEW marks, Dispatches(t, action, eager, marks)
      PROVE  InstancesInv'
    BY <1>1 DEF Dispatches, SameFiber, InstancesInv, Rendered
<1>2. ASSUME NEW t \in Times, NEW props \in Props \cup {Gone}, updateParent(t, props)
      PROVE  InstancesInv'
    BY <1>2 DEF updateParent, history, InstancesInv, Rendered
<1>3. ASSUME NEW t \in Times, NEW r, Mounts(t, r) PROVE InstancesInv'
  <2>1. r \in Passes /\ MadeEffects(r) /\ ~current.is /\ current' = current /\ alive' = alive
      BY <1>3, RendersDoes DEF Mounts, Finishes
  <2>2. alternate'.hook = r.hook /\ alternate'.list = r.list
      BY <1>3, <2>1, AsFiberType DEF Mounts
  <2> QED BY <2>1, <2>2, MadeInstances DEF InstancesInv
<1>4. ASSUME NEW t \in Times, deleteComponent(t) PROVE InstancesInv'
    BY <1>4, RendersDoes DEF deleteComponent, InstancesInv, Rendered
<1>5. ASSUME NEW t \in Times, Bails(t) PROVE InstancesInv'
  <2>1. current.is /\ current' = current /\ alive' = alive
      BY <1>5, RendersDoes DEF Bails
  <2> QED BY <1>5, <2>1, BailoutFiber DEF InstancesInv
<1>6. ASSUME NEW t \in Times, NEW d, NEW r, Rerenders(t, d, r) PROVE InstancesInv'
  <2>1. r \in Passes /\ MadeEffects(r) /\ current.is
      BY <1>6 DEF Rerenders, Finishes
  <2>2. alive' = alive
    <3>1. Renders(t, IF r.received THEN "renders" ELSE "bailsOut", r.drops)
        BY <1>6 DEF Rerenders
    <3> QED BY <3>1 DEF Renders, history
  <2>3. /\ current'.is = TRUE /\ current'.hook = current.hook /\ current'.list = current.list
        /\ alternate'.hook = r.hook
        /\ alternate'.list = IF r.received THEN r.list ELSE current.list
      BY <1>6, RerenderFibers
  <2>4. \A k \in Kinds : /\ r.hook[k].destroy = r.list[k].destroy
                         /\ alive[k] = Instance(r.list[k].destroy)
                         /\ r.hook[k].destroy = current.hook[k].destroy
      BY <2>1, MadeInstances DEF MadeEffects, Previous
  <2> QED BY <2>1, <2>2, <2>3, <2>4 DEF InstancesInv
<1>7. ASSUME NEW t \in Times, NEW d, NEW p, Throws(t, d, p) PROVE InstancesInv'
  <2>1. current'.is = current.is /\ current'.hook = current.hook /\ current'.list = current.list
      BY <1>7, FiberIs DEF Throws, Fibers
  <2> QED BY <1>7, <2>1 DEF Throws, InstancesInv, Rendered
<1>8. CASE discard
    BY <1>8 DEF discard, InstancesInv, Rendered
<1>9. CASE commitRoot
  <2>1. /\ Rendered /\ pc' = "idle"
        /\ current' = CommitHookEffects(alternate, "layout")
        /\ alive' = AliveAfter(alternate, "layout")
      BY <1>9 DEF commitRoot, Rendered
  <2>2. alternate \in Fibers /\ "layout" \in Kinds
      BY <2>1, KindsAre DEF TypeOK
  <2>20. Committed(alternate, "layout", current')
      BY <2>1, <2>2, CommittedFiber
  <2> DEFINE runs == alternate.changed /\ alternate.list["layout"].hasEffect
  <2>3. \A j \in Kinds :
           /\ current'.list[j].destroy = IF runs /\ j = "layout" THEN alternate.list[j].deps
                                         ELSE alternate.list[j].destroy
           /\ current'.hook[j].destroy = IF runs /\ j = "layout" THEN alternate.list[j].deps
                                         ELSE alternate.hook[j].destroy
      BY <2>20 DEF Committed
  <2>4. \A j \in Kinds :
           alive'[j] = IF runs /\ j = "layout" THEN Ran(alive[j], alternate.list[j]) ELSE alive[j]
      BY <2>1, <2>2 DEF AliveAfter, TypeOK
  <2>5. current'.is = TRUE
      BY <2>20 DEF Committed
  <2>6. \A j \in Kinds : /\ alternate.hook[j].destroy = alternate.list[j].destroy
                         /\ alive[j] = Instance(alternate.list[j].destroy)
      BY <2>1 DEF InstancesInv
  <2>7. ~Rendered'
      BY <2>1 DEF Rendered
  <2> HIDE DEF runs
  <2>8. \A j \in Kinds : /\ current'.hook[j].destroy = current'.list[j].destroy
                         /\ alive'[j] = Instance(current'.list[j].destroy)
      BY <2>3, <2>4, <2>6, RanInstance
  <2> QED BY <2>5, <2>7, <2>8 DEF InstancesInv
<1>10. CASE commitDeletion
  <2>1. /\ current' = NoFiber /\ pc' = "idle"
        /\ alive' = IF ~current.is THEN alive
                    ELSE [k \in Kinds |-> Ran(alive[k], [current.list[k] EXCEPT !.deps = NoState])]
      BY <1>10 DEF commitDeletion
  <2>2. ASSUME NEW k \in Kinds, current.is
        PROVE  Ran(alive[k], [current.list[k] EXCEPT !.deps = NoState]) = Instance(NoState)
    <3> DEFINE e == [current.list[k] EXCEPT !.deps = NoState]
    <3>1. current.list[k] \in Effects
        BY <2>2, FiberIs DEF Fibers
    <3>2. e.deps = NoState /\ e.destroy = current.list[k].destroy
        BY <3>1 DEF Effects
    <3> HIDE DEF e
    <3>3. Ran(alive[k], e) = Instance(NoState)
        BY <2>2, <3>2, RanInstance DEF InstancesInv
    <3> QED BY <3>3 DEF e
  <2>3. \A k \in Kinds : alive'[k] = Instance(NoState)
      BY <2>1, <2>2 DEF InstancesInv
  <2> QED BY <2>1, <2>3, NoFiberIsNot DEF InstancesInv, Rendered
<1>11. CASE flushPassiveEffects
  <2>1. /\ pc = "idle" /\ pc' = pc /\ passive
        /\ current' = CommitHookEffects(current, "passive")
        /\ alive' = AliveAfter(current, "passive")
      BY <1>11 DEF flushPassiveEffects
  <2>2. current.is /\ current \in Fibers /\ "passive" \in Kinds
      BY <2>1, FiberIs, KindsAre DEF Shape
  <2>20. Committed(current, "passive", current')
      BY <2>1, <2>2, CommittedFiber
  <2> DEFINE runs == current.changed /\ current.list["passive"].hasEffect
  <2>3. \A j \in Kinds :
           /\ current'.list[j].destroy = IF runs /\ j = "passive" THEN current.list[j].deps
                                         ELSE current.list[j].destroy
           /\ current'.hook[j].destroy = IF runs /\ j = "passive" THEN current.list[j].deps
                                         ELSE current.hook[j].destroy
      BY <2>20 DEF Committed
  <2>4. \A j \in Kinds :
           alive'[j] = IF runs /\ j = "passive" THEN Ran(alive[j], current.list[j]) ELSE alive[j]
      BY <2>1, <2>2 DEF AliveAfter, TypeOK
  <2>5. current'.is = TRUE
      BY <2>20 DEF Committed
  <2>6. \A j \in Kinds : /\ current.hook[j].destroy = current.list[j].destroy
                         /\ alive[j] = Instance(current.list[j].destroy)
      BY <2>2 DEF InstancesInv
  <2>7. ~Rendered'
      BY <2>1 DEF Rendered
  <2> HIDE DEF runs
  <2>8. \A j \in Kinds : /\ current'.hook[j].destroy = current'.list[j].destroy
                         /\ alive'[j] = Instance(current'.list[j].destroy)
      BY <2>3, <2>4, <2>6, RanInstance
  <2> QED BY <2>5, <2>7, <2>8 DEF InstancesInv
<1>12. CASE UNCHANGED vars
    BY <1>12 DEF vars, history, InstancesInv, Rendered
<1> QED
    BY <1>1, <1>2, <1>3, <1>4, <1>5, <1>6, <1>7, <1>8, <1>9, <1>10, <1>11, <1>12, StepIsOneOf
       DEF StepCases

-----------------------------------------------------------------------------
(* What the effects are made for *)

\* Every step keeps the effects those of the committed state.
LEMMA StepEffects ==
    ASSUME TypeOK, Shape, InstancesInv, EffectsInv, [Next]_vars
    PROVE  EffectsInv'
<1>1. ASSUME NEW t \in Times, NEW action, NEW eager, NEW marks, Dispatches(t, action, eager, marks)
      PROVE  EffectsInv'
    BY <1>1 DEF Dispatches, SameFiber, EffectsInv, Rendered
<1>2. ASSUME NEW t \in Times, NEW props \in Props \cup {Gone}, updateParent(t, props)
      PROVE  EffectsInv'
    BY <1>2 DEF updateParent, history, EffectsInv, Rendered
<1>3. ASSUME NEW t \in Times, NEW r, Mounts(t, r) PROVE EffectsInv'
  <2>1. r \in Passes /\ MadeEffects(r) /\ ~current.is /\ current' = current /\ spoilt' = spoilt
        /\ passive' = passive
      BY <1>3, RendersDoes DEF Mounts, Finishes
  <2>2. alternate'.list = r.list /\ alternate'.state = r.state /\ alternate'.changed = r.changed
      BY <1>3, <2>1, AsFiberType DEF Mounts
  <2>3. \A k \in Kinds : r.list[k].deps = r.state /\ r.changed /\ r.list[k].hasEffect
      BY <2>1, ComponentAssumption DEF MadeEffects, Previous, NoEffect, Passes, Effects
  <2> QED BY <2>1, <2>2, <2>3 DEF EffectsInv
<1>4. ASSUME NEW t \in Times, deleteComponent(t) PROVE EffectsInv'
    BY <1>4 DEF deleteComponent, CanRender, Renders, history, EffectsInv, Rendered
<1>5. ASSUME NEW t \in Times, Bails(t) PROVE EffectsInv'
  <2>1. current.is /\ current' = current /\ ~passive /\ spoilt' = spoilt /\ passive' = passive
      BY <1>5, RendersDoes DEF Bails
  <2> QED BY <1>5, <2>1, BailoutFiber DEF EffectsInv
<1>6. ASSUME NEW t \in Times, NEW d, NEW r, Rerenders(t, d, r) PROVE EffectsInv'
  <2>1. r \in Passes /\ MadeEffects(r) /\ current.is /\ ~passive
        /\ Reduced(ParentRenders(t), t, d) /\ Finishes(d, r, PropsAt(t))
        /\ Renders(t, IF r.received THEN "renders" ELSE "bailsOut", r.drops)
      BY <1>6 DEF Rerenders, Finishes
  <2>2. spoilt' = spoilt /\ passive' = passive
      BY <2>1 DEF Renders, history
  <2>3. /\ current'.is = TRUE /\ current'.hook = current.hook /\ current'.list = current.list
        /\ current'.state = current.state /\ current'.changed = current.changed
        /\ alternate'.hook = r.hook /\ alternate'.state = r.state
        /\ alternate'.list = IF r.received THEN r.list ELSE current.list
        /\ alternate'.changed = IF r.received THEN r.changed ELSE FALSE
      BY <1>6, RerenderFibers
  <2>4. ~r.received => r.state = current.state
      BY <2>1 DEF Finishes, Reduced
  <2>5. ASSUME "effect" \notin spoilt, NEW k \in Kinds
        PROVE  /\ current.list[k].deps = current.state /\ current.hook[k].deps = current.state
               /\ current.list[k].destroy = current.state
      BY <2>1, <2>5 DEF EffectsInv
  <2>6. ASSUME "effect" \notin spoilt, NEW k \in Kinds
        PROVE  /\ alternate'.list[k].deps = alternate'.state
               /\ \/ alternate'.list[k].destroy = alternate'.state
                  \/ alternate'.changed /\ alternate'.list[k].hasEffect
    <3>1. CASE r.received
      <4>1. current.hook[k].destroy = current.state
          BY <2>1, <2>5, <2>6 DEF InstancesInv
      <4> QED BY <2>1, <2>3, <2>5, <2>6, <3>1, <4>1 DEF MadeEffects, Previous
    <3>2. CASE ~r.received
        BY <2>3, <2>4, <2>5, <2>6, <3>2
    <3> QED BY <3>1, <3>2
  <2> QED BY <2>2, <2>3, <2>5, <2>6, <2>1 DEF EffectsInv
<1>7. ASSUME NEW t \in Times, NEW d, NEW p, Throws(t, d, p) PROVE EffectsInv'
  <2>1. current'.is = current.is /\ current'.hook = current.hook /\ current'.list = current.list
        /\ current'.state = current.state /\ current'.changed = current.changed
      BY <1>7, FiberIs DEF Throws, Fibers
  <2> QED BY <1>7, <2>1 DEF Throws, EffectsInv, Rendered
<1>8. CASE discard
    BY <1>8 DEF discard, EffectsInv, Rendered
<1>9. CASE commitRoot
  <2>1. /\ Rendered /\ pc' = "idle"
        /\ current' = CommitHookEffects(alternate, "layout")
        /\ passive' = alternate.changed
        /\ "effect" \notin spoilt' => /\ "effect" \notin spoilt
                                      /\ \A k \in Kinds : alternate.hook[k].deps = alternate.list[k].deps
      BY <1>9 DEF commitRoot, Rendered
  <2>2. alternate \in Fibers /\ "layout" \in Kinds
      BY <2>1, KindsAre DEF TypeOK
  <2>20. Committed(alternate, "layout", current')
      BY <2>1, <2>2, CommittedFiber
  <2>3. /\ current'.is = TRUE /\ current'.state = alternate.state
        /\ current'.changed = alternate.changed
        /\ \A j \in Kinds :
             /\ current'.list[j].deps = alternate.list[j].deps
             /\ current'.hook[j].deps = alternate.hook[j].deps
             /\ current'.list[j].hasEffect = alternate.list[j].hasEffect
             /\ current'.list[j].destroy =
                  IF (alternate.changed /\ alternate.list["layout"].hasEffect) /\ j = "layout"
                  THEN alternate.list[j].deps ELSE alternate.list[j].destroy
      BY <2>20 DEF Committed
  <2>4. ~Rendered'
      BY <2>1 DEF Rendered
  <2>5. ASSUME "effect" \notin spoilt', NEW k \in Kinds
        PROVE  /\ current'.list[k].deps = current'.state /\ current'.hook[k].deps = current'.state
               /\ \/ current'.list[k].destroy = current'.state
                  \/ k = "passive" /\ passive' /\ current'.changed /\ current'.list[k].hasEffect
    <3>1. /\ alternate.list[k].deps = alternate.state /\ alternate.hook[k].deps = alternate.state
          /\ \/ alternate.list[k].destroy = alternate.state
             \/ alternate.changed /\ alternate.list[k].hasEffect
        BY <2>1, <2>5 DEF EffectsInv
    <3> QED BY <2>1, <2>3, <2>5, <3>1, KindsAre
  <2> QED BY <2>3, <2>4, <2>5 DEF EffectsInv
<1>10. CASE commitDeletion
    BY <1>10, NoFiberIsNot DEF commitDeletion, EffectsInv, Rendered
<1>11. CASE flushPassiveEffects
  <2>1. /\ pc = "idle" /\ pc' = pc /\ passive /\ passive' = FALSE /\ spoilt' = spoilt
        /\ current' = CommitHookEffects(current, "passive")
      BY <1>11 DEF flushPassiveEffects
  <2>2. current.is /\ current \in Fibers /\ "passive" \in Kinds
      BY <2>1, FiberIs, KindsAre DEF Shape
  <2>20. Committed(current, "passive", current')
      BY <2>1, <2>2, CommittedFiber
  <2>3. /\ current'.is = TRUE /\ current'.state = current.state
        /\ \A j \in Kinds :
             /\ current'.list[j].deps = current.list[j].deps
             /\ current'.hook[j].deps = current.hook[j].deps
             /\ current'.list[j].destroy =
                  IF (current.changed /\ current.list["passive"].hasEffect) /\ j = "passive"
                  THEN current.list[j].deps ELSE current.list[j].destroy
      BY <2>20 DEF Committed
  <2>4. ~Rendered'
      BY <2>1 DEF Rendered
  <2>5. ASSUME "effect" \notin spoilt', NEW k \in Kinds
        PROVE  /\ current'.list[k].deps = current'.state /\ current'.hook[k].deps = current'.state
               /\ current'.list[k].destroy = current'.state
    <3>1. /\ current.list[k].deps = current.state /\ current.hook[k].deps = current.state
          /\ \/ current.list[k].destroy = current.state
             \/ k = "passive" /\ passive /\ current.changed /\ current.list[k].hasEffect
        BY <2>1, <2>2, <2>5 DEF EffectsInv
    <3> QED BY <2>3, <3>1
  <2> QED BY <2>3, <2>4, <2>5 DEF EffectsInv
<1>12. CASE UNCHANGED vars
    BY <1>12 DEF vars, history, EffectsInv, Rendered
<1> QED
    BY <1>1, <1>2, <1>3, <1>4, <1>5, <1>6, <1>7, <1>8, <1>9, <1>10, <1>11, <1>12, StepIsOneOf
       DEF StepCases

-----------------------------------------------------------------------------
(* The screen *)

\* Every step keeps the screen on the committed state.
LEMMA StepScreen ==
    ASSUME TypeOK, Shape, ScreenInv, [Next]_vars
    PROVE  ScreenInv'
<1>1. ASSUME NEW t \in Times, NEW action, NEW eager, NEW marks, Dispatches(t, action, eager, marks)
      PROVE  ScreenInv'
    BY <1>1 DEF Dispatches, SameFiber, ScreenInv, Rendered, TypeOK, Shape
<1>2. ASSUME NEW t \in Times, NEW props \in Props \cup {Gone}, updateParent(t, props)
      PROVE  ScreenInv'
    BY <1>2 DEF updateParent, history, ScreenInv
<1>3. ASSUME NEW t \in Times, NEW r, Mounts(t, r) PROVE ScreenInv'
  <2>1. r \in Passes /\ ~current.is /\ current' = current /\ Renders(t, "renders", FALSE)
        /\ alternate' = AsFiber(r) /\ RenderPhaseUpdate(PropsAt(t), r.state) = <<>>
      BY <1>3 DEF Mounts, Finishes
  <2>2. alternate'.state = r.state /\ render'.props = PropsAt(t) /\ render'.does = "renders"
      BY <2>1, AsFiberType, RendersDoes
  <2> QED BY <2>1, <2>2 DEF ScreenInv
<1>4. ASSUME NEW t \in Times, deleteComponent(t) PROVE ScreenInv'
    BY <1>4, RendersDoes DEF deleteComponent, ScreenInv
<1>5. ASSUME NEW t \in Times, Bails(t) PROVE ScreenInv'
  <2>1. current.is /\ current' = current /\ screen' = screen /\ parent' = parent
        /\ render'.does = "bailsOut" /\ render'.props = parent.props
      BY <1>5, RendersDoes DEF Bails
  <2> QED BY <1>5, <2>1, BailoutFiber DEF ScreenInv
<1>6. ASSUME NEW t \in Times, NEW d, NEW r, Rerenders(t, d, r) PROVE ScreenInv'
  <2>1. current.is /\ ParentRenders(t) \in BOOLEAN
        /\ Reduced(ParentRenders(t), t, d) /\ Finishes(d, r, PropsAt(t))
        /\ Renders(t, IF r.received THEN "renders" ELSE "bailsOut", r.drops)
      BY <1>6, PropsAtType DEF Rerenders
  <2>2. /\ current'.is = TRUE /\ current'.state = current.state /\ alternate'.state = r.state
        /\ r \in Passes
      BY <1>6, RerenderFibers
  <2>3. /\ screen' = screen /\ parent' = parent /\ render'.props = PropsAt(t)
        /\ render'.does = IF r.received THEN "renders" ELSE "bailsOut"
      BY <2>1 DEF Renders, history
  <2>4. ~r.received => r.state = current.state /\ PropsAt(t) = parent.props
      BY <2>1, PropsAtType DEF Finishes, Reduced
  <2>5. RenderPhaseUpdate(PropsAt(t), r.state) = <<>>
      BY <2>1 DEF Finishes
  <2> QED BY <2>1, <2>2, <2>3, <2>4, <2>5 DEF ScreenInv
<1>7. ASSUME NEW t \in Times, NEW d, NEW p, Throws(t, d, p) PROVE ScreenInv'
  <2>1. current'.is = current.is /\ current'.state = current.state
      BY <1>7, FiberIs DEF Throws, Fibers
  <2> QED BY <1>7, <2>1 DEF Throws, ScreenInv, Shape
<1>8. CASE discard
    BY <1>8 DEF discard, ScreenInv, NoRender
<1>9. CASE commitRoot
  <2>1. /\ Rendered /\ render' = NoRender
        /\ current' = CommitHookEffects(alternate, "layout")
        /\ parent'.props = render.props
        /\ screen' = IF render.does = "renders" THEN alternate.state ELSE screen
      BY <1>9 DEF commitRoot, Rendered
  <2>2. alternate \in Fibers /\ "layout" \in Kinds
      BY <2>1, KindsAre DEF TypeOK
  <2>20. Committed(alternate, "layout", current')
      BY <2>1, <2>2, CommittedFiber
  <2>3. current'.state = alternate.state
      BY <2>20 DEF Committed
  <2>4. render.does \in {"renders", "bailsOut"} /\ (render.does = "bailsOut" => current.is)
      BY <2>1 DEF TypeOK, Shape, Rendered
  <2> QED BY <2>1, <2>3, <2>4 DEF ScreenInv, NoRender
<1>10. CASE commitDeletion
    BY <1>10, NoFiberIsNot DEF commitDeletion, ScreenInv, NoRender
<1>11. CASE flushPassiveEffects
  <2>1. /\ passive /\ pc = "idle"
        /\ current' = CommitHookEffects(current, "passive")
        /\ UNCHANGED <<alternate, parent, render, screen>>
      BY <1>11 DEF flushPassiveEffects
  <2>2. current.is /\ current \in Fibers /\ "passive" \in Kinds
      BY <2>1, FiberIs, KindsAre DEF Shape
  <2>20. Committed(current, "passive", current')
      BY <2>1, <2>2, CommittedFiber
  <2>3. current'.is = TRUE /\ current'.state = current.state
      BY <2>20 DEF Committed
  <2> QED BY <2>1, <2>2, <2>3 DEF ScreenInv
<1>12. CASE UNCHANGED vars
    BY <1>12 DEF vars, history, ScreenInv
<1> QED
    BY <1>1, <1>2, <1>3, <1>4, <1>5, <1>6, <1>7, <1>8, <1>9, <1>10, <1>11, <1>12, StepIsOneOf
       DEF StepCases

-----------------------------------------------------------------------------
(* Updates *)

\* None of the flaws that lose updates has been met.
Unspoilt == spoilt \subseteq {"effect"}

\* What waits once the finished tree is committed, and what it comes to.
AllNext == alternate.baseQueue \o queue.pending
Ahead   == Replay(alternate.baseState, AllNext)

\* The committed fiber.  While a finished tree waits, lastRenderedState may be the
\* state of that tree, and a bail-out may have cleared the time of current.
CurrentInv ==
    current.is =>
      /\ current.time <= parent.childTime
      /\ current.time # NoWork => AllUpdates # <<>>
      /\ Unspoilt =>
           /\ expected \in {Replayed, NoState}
           /\ EagerOK(current.baseState, current.baseQueue)
           /\ pc = "idle" \/ queue.lastRenderedState = current.state =>
                EagerOK(current.baseState, AllUpdates)
           /\ pc = "idle" /\ current.time = NoWork => queue.lastRenderedState = current.state
           /\ /\ current.time = NoWork /\ queue.lastRenderedState = current.state
              /\ render.does = "bailsOut" => alternate.time = NoWork
              => Replayed = current.state

\* The fiber of the finished tree, which becomes the committed one.
AlternateInv ==
    /\ ~current.is => expected = InitialState
    /\ Rendered =>
         /\ alternate.time # NoWork => AllNext # <<>>
         /\ Unspoilt =>
              /\ expected \in {Ahead, NoState} \/ MayDispatch(render.props)
              /\ ~render.drops =>
                   /\ EagerOK(alternate.baseState, AllNext)
                   /\ alternate.time = NoWork =>
                        Ahead = alternate.state /\ queue.lastRenderedState = alternate.state

\* Nothing behind a list is the list.
LEMMA ConcatEmpty == ASSUME NEW p \in Seq(Updates) PROVE p \o <<>> = p
OBVIOUS

\* One more behind two lists is one more behind the second.
LEMMA ConcatAppend ==
    ASSUME NEW p \in Seq(Updates), NEW q \in Seq(Updates), NEW u \in Updates
    PROVE  p \o Append(q, u) = Append(p \o q, u) /\ Append(p \o q, u) # <<>>
OBVIOUS

\* AllUpdates updates, and what they come to.
LEMMA AllType ==
    ASSUME TypeOK, current.is
    PROVE  /\ current \in Fibers /\ current.time \in Nat /\ current.state \in States
           /\ current.baseState \in States /\ current.baseQueue \in Seq(Updates)
           /\ queue.pending \in Seq(Updates) /\ AllUpdates \in Seq(Updates)
           /\ Replayed = Replay(current.baseState, AllUpdates) /\ Replayed \in States
<1>1. /\ current \in Fibers /\ current.time \in Nat /\ current.state \in States
      /\ current.baseState \in States /\ current.baseQueue \in Seq(Updates)
      /\ queue.pending \in Seq(Updates)
    BY FiberIs, TimesAreNumbers DEF TypeOK, Fibers
<1>2. AllUpdates \in Seq(Updates) /\ Replayed = Replay(current.baseState, AllUpdates)
    BY <1>1 DEF AllUpdates, Replayed
<1> QED BY <1>1, <1>2, ReplayType

\* The same once the finished tree is committed.
LEMMA AllNextType ==
    ASSUME TypeOK, Rendered
    PROVE  /\ alternate \in Fibers /\ alternate.is = TRUE
           /\ alternate.time \in Nat /\ alternate.state \in States
           /\ alternate.baseState \in States /\ alternate.baseQueue \in Seq(Updates)
           /\ AllNext \in Seq(Updates) /\ Ahead \in States
<1>1. /\ alternate \in Fibers /\ alternate.is = TRUE
      /\ alternate.time \in Nat /\ alternate.state \in States
      /\ alternate.baseState \in States /\ alternate.baseQueue \in Seq(Updates)
      /\ queue.pending \in Seq(Updates)
    BY TimesAreNumbers DEF TypeOK, Fibers
<1>2. AllNext \in Seq(Updates)
    BY <1>1 DEF AllNext
<1> QED BY <1>1, <1>2, ReplayType DEF Ahead

\* An update is added to what waits, with its eager state right.
LEMMA DispatchUpdates ==
    ASSUME TypeOK, Shape, CurrentInv, AlternateInv,
           NEW t \in Times, NEW action, NEW eager, NEW marks, Dispatches(t, action, eager, marks)
    PROVE  CurrentInv' /\ AlternateInv'
<1> DEFINE u == [time |-> t, action |-> action, eager |-> eager]
           last == queue.lastRenderedState
<1>1. /\ current.is /\ current'.is = TRUE /\ action \in [States -> States] /\ u \in Updates
      /\ SameFiber(current', current)
      /\ queue'.pending = Append(queue.pending, u) /\ queue'.lastRenderedState = last
      /\ UNCHANGED <<pc, render, spoilt>>
      /\ (Rendered' <=> Rendered) /\ (Unspoilt' <=> Unspoilt)
      /\ u.action = action /\ u.eager = eager
    BY DEF Dispatches, SameFiber, Rendered, Unspoilt
<1>2. last \in States
    BY <1>1 DEF Shape
<1> HIDE DEF u
<1>3. /\ AllUpdates' = Append(AllUpdates, u) /\ AllUpdates' # <<>>
      /\ Replayed' = action[Replayed]
      /\ EagerOK(current.baseState, AllUpdates') <=>
           EagerOK(current.baseState, AllUpdates) /\ (eager # NoState => eager = action[Replayed])
  <2>1. AllUpdates' = Append(AllUpdates, u) /\ AllUpdates' # <<>>
    <3>1. AllUpdates' = current.baseQueue \o Append(queue.pending, u)
        BY <1>1 DEF AllUpdates, SameFiber
    <3>2. current.baseQueue \o Append(queue.pending, u) = Append(AllUpdates, u)
          /\ Append(AllUpdates, u) # <<>>
      <4>1. current.baseQueue \in Seq(Updates) /\ queue.pending \in Seq(Updates) /\ u \in Updates
          BY <1>1, AllType
      <4> QED BY <4>1, ConcatAppend DEF AllUpdates
    <3> QED BY <3>1, <3>2
  <2>2. Replayed' = Replay(current.baseState, AllUpdates')
      BY <1>1 DEF Replayed, AllUpdates, SameFiber
  <2> QED BY <1>1, <2>1, <2>2, AllType, ReplayAppend, EagerAppend
<1>4. Rendered =>
        /\ AllNext' # <<>>
        /\ Ahead' = action[Ahead]
        /\ EagerOK(alternate.baseState, AllNext') <=>
             EagerOK(alternate.baseState, AllNext) /\ (eager # NoState => eager = action[Ahead])
        /\ SameFiber(alternate', alternate)
        /\ alternate'.time = IF marks THEN Later(alternate.time, t) ELSE alternate.time
  <2> SUFFICES ASSUME Rendered
               PROVE  /\ AllNext' # <<>>
                      /\ Ahead' = action[Ahead]
                      /\ EagerOK(alternate.baseState, AllNext') <=>
                           EagerOK(alternate.baseState, AllNext)
                           /\ (eager # NoState => eager = action[Ahead])
                      /\ SameFiber(alternate', alternate)
                      /\ alternate'.time = IF marks THEN Later(alternate.time, t) ELSE alternate.time
      OBVIOUS
  <2>1. SameFiber(alternate', alternate)
        /\ alternate'.time = IF marks THEN Later(alternate.time, t) ELSE alternate.time
      BY DEF Dispatches
  <2>2. queue.pending \in Seq(Updates)
      BY DEF TypeOK
  <2>3. AllNext' = Append(AllNext, u) /\ AllNext' # <<>>
    <3>1. AllNext' = alternate.baseQueue \o Append(queue.pending, u)
        BY <1>1, <2>1 DEF AllNext, SameFiber
    <3>2. alternate.baseQueue \o Append(queue.pending, u) = Append(AllNext, u)
          /\ Append(AllNext, u) # <<>>
      <4>1. alternate.baseQueue \in Seq(Updates) /\ u \in Updates
          BY <1>1, AllNextType
      <4> QED BY <2>2, <4>1, ConcatAppend DEF AllNext
    <3> QED BY <3>1, <3>2
  <2>4. Ahead' = Replay(alternate.baseState, AllNext')
      BY <2>1 DEF Ahead, SameFiber
  <2>5. Ahead' = action[Ahead]
      BY <1>1, <2>3, <2>4, AllNextType, ReplayAppend DEF Ahead
  <2>6. EagerOK(alternate.baseState, AllNext') <=>
           EagerOK(alternate.baseState, AllNext) /\ (eager # NoState => eager = action[Ahead])
      BY <1>1, <2>3, AllNextType, EagerAppend DEF Ahead
  <2> QED BY <2>1, <2>3, <2>5, <2>6
<1>5. eager # NoState \/ ~marks =>
        /\ eager = action[last] /\ current.time = NoWork /\ (Rendered => alternate.time = NoWork)
  <2>1. Eagerly => current.time = NoWork /\ (Rendered => alternate.time = NoWork)
      BY AllNextType DEF Eagerly
  <2>2. eager = IF Eagerly THEN action[last] ELSE NoState
      BY DEF Dispatches
  <2>3. ~marks => eager = last
      BY DEF Dispatches
  <2> QED BY <1>2, <2>1, <2>2, <2>3, ComponentAssumption
<1>6. ~marks => eager = last
    BY DEF Dispatches
<1>7. marks => current'.time # NoWork /\ (Rendered => alternate'.time # NoWork)
  <2>1. t \in AnyTime /\ t \in Nat /\ t # 0 /\ NoWork = 0 /\ AnyTime \subseteq Nat
      BY TimesAreNumbers
  <2>2. current.time \in AnyTime /\ (Rendered => alternate.time \in AnyTime)
      BY <1>1, AllType, AllNextType DEF Fibers
  <2>3. marks => current'.time = Later(current.time, t)
      BY DEF Dispatches
  <2>4. \A s \in AnyTime : Later(s, t) # NoWork
      BY <2>1, LaterType
  <2> QED BY <1>4, <2>2, <2>3, <2>4
<1>8. ~marks => current'.time = current.time /\ (Rendered => alternate'.time = alternate.time)
    BY <1>4 DEF Dispatches
<1>9. current'.time <= parent'.childTime
  <2>1. current.time \in Nat /\ parent.childTime \in Nat /\ t \in Nat /\ current.time <= parent.childTime
      BY <1>1, AllType, TimesAreNumbers DEF TypeOK, CurrentInv
  <2> QED BY <2>1 DEF Dispatches, Later
<1>10. current'.state = current.state /\ current'.baseState = current.baseState
       /\ current'.baseQueue = current.baseQueue
    BY <1>1 DEF SameFiber
<1>11. Rendered => alternate'.state = alternate.state /\ alternate'.baseState = alternate.baseState
    BY <1>4 DEF SameFiber
<1>12. expected' = (IF expected = NoState THEN NoState ELSE action[expected])
    BY DEF Dispatches
<1>13. render.does = "bailsOut" => Rendered
    BY DEF TypeOK, Shape, Rendered
<1>14. pc = "idle" => render.does = "nothing"
    BY DEF Shape
<1>15. ASSUME Unspoilt
       PROVE  /\ expected' \in {Replayed', NoState}
              /\ EagerOK(current.baseState, current.baseQueue)
              /\ pc = "idle" \/ last = current.state => EagerOK(current.baseState, AllUpdates')
              /\ pc = "idle" /\ current'.time = NoWork => last = current.state
              /\ /\ current'.time = NoWork /\ last = current.state
                 /\ render.does = "bailsOut" => alternate'.time = NoWork
                 => Replayed' = current.state
  <2>1. expected \in {Replayed, NoState} /\ EagerOK(current.baseState, current.baseQueue)
      BY <1>1, <1>15 DEF CurrentInv
  <2>2. pc = "idle" \/ last = current.state => EagerOK(current.baseState, AllUpdates)
      BY <1>1, <1>15 DEF CurrentInv
  <2>3. pc = "idle" /\ current.time = NoWork => last = current.state
      BY <1>1, <1>15 DEF CurrentInv
  <2>4. (eager # NoState \/ ~marks) /\ last = current.state => Replayed = last
      BY <1>1, <1>5, <1>13, <1>15 DEF CurrentInv
  <2> QED BY <1>3, <1>5, <1>6, <1>7, <1>8, <1>12, <2>1, <2>2, <2>3, <2>4
<1>16. ASSUME Unspoilt, Rendered
       PROVE  /\ expected' \in {Ahead', NoState} \/ MayDispatch(render.props)
              /\ ~render.drops =>
                   /\ EagerOK(alternate.baseState, AllNext')
                   /\ alternate'.time = NoWork =>
                        Ahead' = alternate.state /\ last = alternate.state
  <2>1. expected \in {Ahead, NoState} \/ MayDispatch(render.props)
      BY <1>16 DEF AlternateInv
  <2>2. ~render.drops =>
          /\ EagerOK(alternate.baseState, AllNext)
          /\ alternate.time = NoWork => Ahead = alternate.state /\ last = alternate.state
      BY <1>16 DEF AlternateInv
  <2> QED BY <1>4, <1>5, <1>6, <1>7, <1>8, <1>12, <1>16, <2>1, <2>2
<1>17. CurrentInv'
    BY <1>1, <1>3, <1>9, <1>10, <1>15 DEF CurrentInv
<1>18. MayDispatch(render.props)' = MayDispatch(render.props)
    BY <1>1 DEF MayDispatch
<1>19. AlternateInv'
    BY <1>1, <1>4, <1>11, <1>16, <1>18 DEF AlternateInv
<1> QED BY <1>17, <1>19

\* The first render has no update to lose.
LEMMA MountUpdates ==
    ASSUME TypeOK, Shape, AlternateInv, NEW t \in Times, NEW r, Mounts(t, r)
    PROVE  CurrentInv' /\ AlternateInv'
<1>1. /\ ~current.is /\ current' = current /\ r \in Passes /\ PropsAt(t) \in Props
      /\ r.baseQueue = <<>> /\ r.time = NoWork
      /\ r.baseState = r.state /\ r.lastRenderedState = r.state
      /\ r.baseState = InitialState \/ RenderPhaseUpdate(PropsAt(t), InitialState) # <<>>
    BY DEF Mounts, Finishes
<1>2. queue'.pending = <<>> /\ queue'.lastRenderedState = r.state
    BY <1>1 DEF Mounts
<1>3. /\ alternate'.time = NoWork /\ alternate'.state = r.state /\ alternate'.baseState = r.state
      /\ alternate'.baseQueue = <<>>
    BY <1>1, AsFiberType DEF Mounts
<1>4. render'.props = PropsAt(t) /\ expected' = expected
    BY RendersDoes DEF Mounts
<1>5. AllNext' = <<>> /\ Ahead' = r.state
  <2>1. <<>> \o <<>> = <<>>
      OBVIOUS
  <2>2. AllNext' = <<>>
      BY <1>2, <1>3, <2>1 DEF AllNext
  <2> QED BY <1>3, <2>2, ReplayNone DEF Ahead
<1>6. expected' \in {Ahead', NoState} \/ MayDispatch(render.props)'
    BY <1>1, <1>4, <1>5, ComponentAssumption DEF AlternateInv, MayDispatch
<1>7. AlternateInv'
    BY <1>1, <1>2, <1>3, <1>4, <1>5, <1>6, EagerNone DEF AlternateInv
<1> QED BY <1>1, <1>7 DEF CurrentInv

\* What a render of the mounted component does to the updates.
LEMMA RerenderUpdates ==
    ASSUME TypeOK, Shape, CurrentInv, AlternateInv,
           NEW t \in Times, NEW d, NEW r, Rerenders(t, d, r)
    PROVE  CurrentInv' /\ AlternateInv'
<1> DEFINE props == PropsAt(t)
           last == queue.lastRenderedState
<1>1. /\ pc = "idle" /\ current.is /\ props \in Props
      /\ Reduced(ParentRenders(t), t, d) /\ Finishes(d, r, props)
      /\ Renders(t, IF r.received THEN "renders" ELSE "bailsOut", r.drops)
    BY DEF Rerenders
<1>2. /\ r \in Passes /\ d \in Passes /\ AllUpdates \in Seq(Updates)
      /\ queue'.pending = <<>> /\ queue'.lastRenderedState = r.lastRenderedState
      /\ current'.is = TRUE
      /\ current'.state = current.state /\ current'.baseState = current.baseState
      /\ current'.baseQueue = AllUpdates
      /\ current'.time = IF ~r.received /\ current.time <= t THEN NoWork ELSE current.time
    BY RerenderFibers
<1>3. /\ alternate'.time = r.time /\ alternate'.state = r.state
      /\ alternate'.baseState = r.baseState /\ alternate'.baseQueue = r.baseQueue
    BY RerenderFibers
<1>4. /\ pc' = "rendered" /\ render'.props = props /\ render'.drops = r.drops
      /\ render'.does = IF r.received THEN "renders" ELSE "bailsOut"
      /\ parent' = parent /\ expected' = expected /\ spoilt' = spoilt
    BY <1>1 DEF Renders, history
<1>5. Unspoilt' <=> Unspoilt
    BY <1>4 DEF Unspoilt
<1>6. AllUpdates' = AllUpdates /\ Replayed' = Replayed
  <2>1. AllUpdates' = AllUpdates
      BY <1>2, ConcatEmpty DEF AllUpdates
  <2>2. Replayed' = Replay(current.baseState, AllUpdates')
      BY <1>2 DEF Replayed, AllUpdates
  <2> QED BY <1>1, <2>1, <2>2, AllType
<1>7. AllNext' = d.baseQueue /\ Ahead' = Replay(r.baseState, d.baseQueue)
  <2>1. r.baseQueue = d.baseQueue /\ r.baseQueue \in Seq(Updates)
      BY <1>1, <1>2 DEF Finishes, Passes
  <2>2. AllNext' = d.baseQueue
      BY <1>2, <1>3, <2>1, ConcatEmpty DEF AllNext
  <2> QED BY <1>3, <2>2 DEF Ahead
<1>8. /\ d.time = NoWork <=> d.baseQueue = <<>>
      /\ d.baseQueue = <<>> => d.baseState = d.state
      /\ d.state \in States
      /\ d.received <=> ParentRenders(t) \/ d.state # current.state
      /\ d.lastRenderedState = IF AllUpdates = <<>> THEN last ELSE d.state
      /\ AllUpdates = <<>> => d.state = current.state
    BY <1>1, <1>2 DEF Reduced, Passes
\* The component has not dispatched, or it has.
<1>9. \/ /\ RenderPhaseUpdate(props, d.state) = <<>>
         /\ r.state = d.state /\ r.baseState = d.baseState /\ r.time = d.time
         /\ r.drops = FALSE /\ r.received = d.received
         /\ r.lastRenderedState = d.lastRenderedState
      \/ /\ RenderPhaseUpdate(props, d.state) # <<>>
         /\ r.baseState = IF d.baseQueue = <<>> THEN r.state ELSE d.baseState
         /\ r.time = NoWork
         /\ r.drops <=> d.time # NoWork
         /\ r.received <=> d.received \/ r.state # d.state
         /\ r.lastRenderedState = r.state
    BY <1>1 DEF Finishes
<1>10. RenderPhaseUpdate(props, r.state) = <<>>
    BY <1>1 DEF Finishes
<1>11. /\ current.time \in Nat /\ parent.childTime \in Nat /\ current.time <= parent.childTime
       /\ current.time # NoWork => AllUpdates # <<>>
    BY <1>1, AllType, TimesAreNumbers DEF TypeOK, CurrentInv
<1>12. current'.time <= parent'.childTime /\ (current'.time # NoWork => AllUpdates' # <<>>)
    BY <1>2, <1>4, <1>6, <1>11, TimesAreNumbers
<1>13. ASSUME Unspoilt
       PROVE  /\ expected \in {Replayed, NoState}
              /\ EagerOK(current.baseState, AllUpdates)
              /\ current.time = NoWork => last = current.state /\ Replayed = current.state
              /\ Replay(d.baseState, d.baseQueue) = Replayed
              /\ EagerOK(d.baseState, d.baseQueue)
  <2>1. render.does = "nothing"
      BY <1>1 DEF Shape
  <2>2. /\ expected \in {Replayed, NoState} /\ EagerOK(current.baseState, AllUpdates)
        /\ current.time = NoWork => last = current.state /\ Replayed = current.state
      BY <1>1, <1>13, <2>1 DEF CurrentInv
  <2>3. Replayed = Replay(current.baseState, AllUpdates)
      BY <1>1, AllType
  <2> QED BY <1>1, <2>2, <2>3 DEF Reduced
<1>14. ASSUME Unspoilt, current'.time = NoWork, ~r.received => alternate'.time = NoWork
       PROVE  Replayed = current.state
  <2>1. CASE current.time = NoWork
      BY <1>13, <1>14, <2>1
  <2>2. CASE current.time # NoWork
    <3>1. ~r.received /\ r.time = NoWork
        BY <1>2, <1>3, <1>14, <2>2
    <3>2. r.state = d.state /\ d.state = current.state
        BY <1>8, <1>9, <3>1
    <3>3. d.time = NoWork
        BY <1>9, <1>10, <3>1, <3>2
    <3>4. Replay(d.baseState, d.baseQueue) = current.state
        BY <1>8, <3>2, <3>3, ReplayNone
    <3> QED BY <1>13, <1>14, <3>4
  <2> QED BY <2>1, <2>2
<1>15. CurrentInv'
    BY <1>2, <1>4, <1>5, <1>6, <1>12, <1>13, <1>14 DEF CurrentInv
<1>16. alternate'.time # NoWork => AllNext' # <<>>
    BY <1>3, <1>7, <1>8, <1>9
<1>17. ASSUME Unspoilt
       PROVE  expected' \in {Ahead', NoState} \/ MayDispatch(render.props)'
  <2>1. CASE RenderPhaseUpdate(props, d.state) = <<>>
      BY <1>4, <1>7, <1>9, <1>13, <1>17, <2>1
  <2>2. CASE RenderPhaseUpdate(props, d.state) # <<>>
      BY <1>4, <1>8, <2>2 DEF MayDispatch
  <2> QED BY <2>1, <2>2
<1>18. ASSUME Unspoilt, ~r.drops
       PROVE  /\ EagerOK(r.baseState, d.baseQueue)
              /\ r.time = NoWork => Replay(r.baseState, d.baseQueue) = r.state
                                    /\ r.lastRenderedState = r.state
  <2>1. CASE RenderPhaseUpdate(props, d.state) = <<>>
    <3>1. r.state = d.state /\ r.baseState = d.baseState /\ r.time = d.time
          /\ r.lastRenderedState = d.lastRenderedState
        BY <1>9, <2>1
    <3>2. EagerOK(r.baseState, d.baseQueue)
        BY <1>13, <1>18, <3>1
    <3>3. r.time = NoWork => Replay(r.baseState, d.baseQueue) = r.state
        BY <1>8, <3>1, ReplayNone
    <3>4. r.time = NoWork => r.lastRenderedState = r.state
        BY <1>8, <1>11, <1>13, <1>18, <3>1
    <3> QED BY <3>2, <3>3, <3>4
  <2>2. CASE RenderPhaseUpdate(props, d.state) # <<>>
    <3>1. d.baseQueue = <<>> /\ r.baseState = r.state /\ r.lastRenderedState = r.state
        BY <1>8, <1>9, <1>18, <2>2
    <3> QED BY <3>1, EagerNone, ReplayNone
  <2> QED BY <2>1, <2>2
<1>19. AlternateInv'
    BY <1>2, <1>3, <1>4, <1>5, <1>7, <1>16, <1>17, <1>18 DEF AlternateInv
<1> QED BY <1>15, <1>19

\* A bail-out leaves what waits as it is.
LEMMA BailoutUpdates ==
    ASSUME TypeOK, Shape, CurrentInv, AlternateInv, NEW t \in Times, Bails(t)
    PROVE  CurrentInv' /\ AlternateInv'
<1>1. /\ pc = "idle" /\ current.is /\ current' = current /\ queue' = queue
      /\ PropsAt(t) = parent.props /\ Renders(t, "bailsOut", FALSE)
    BY DEF Bails
<1>2. /\ alternate'.time = current.time /\ alternate'.state = current.state
      /\ alternate'.baseState = current.baseState /\ alternate'.baseQueue = current.baseQueue
    BY BailoutFiber
<1>3. /\ pc' = "rendered" /\ render'.does = "bailsOut" /\ render'.drops = FALSE
      /\ parent' = parent /\ expected' = expected /\ spoilt' = spoilt
    BY <1>1, RendersDoes
<1>4. AllUpdates' = AllUpdates /\ Replayed' = Replayed /\ AllNext' = AllUpdates /\ (Unspoilt' <=> Unspoilt)
    BY <1>1, <1>2, <1>3 DEF AllUpdates, Replayed, AllNext, Unspoilt
<1>5. Ahead' = Replayed
    BY <1>1, <1>2, <1>4, AllType DEF Ahead
<1>6. render.does = "nothing"
    BY <1>1 DEF Shape
<1>7. CurrentInv'
    BY <1>1, <1>2, <1>3, <1>4, <1>6 DEF CurrentInv
<1>8. AlternateInv'
    BY <1>1, <1>2, <1>3, <1>4, <1>5, <1>6 DEF CurrentInv, AlternateInv
<1> QED BY <1>7, <1>8

\* A render that throws has moved what waits, and no more.
LEMMA ThrowUpdates ==
    ASSUME TypeOK, Shape, CurrentInv, AlternateInv, NEW t \in Times, NEW d, NEW p, Throws(t, d, p)
    PROVE  CurrentInv' /\ AlternateInv'
<1>1. /\ pc = "idle" /\ current.is /\ queue'.pending = <<>>
      /\ queue'.lastRenderedState = p.lastRenderedState
      /\ UNCHANGED <<parent, pc, render, expected>>
      /\ spoilt' = spoilt \cup (IF MistakesState(p.lastRenderedState, <<>>) THEN {"eager"} ELSE {})
    BY DEF Throws
<1>2. /\ current' = [current EXCEPT !.baseQueue = AllUpdates] /\ current \in Fibers /\ AllUpdates \in Seq(Updates)
    BY <1>1, AllType DEF Throws
<1>3. /\ current'.is = current.is /\ current'.time = current.time
      /\ current'.state = current.state /\ current'.baseState = current.baseState
      /\ current'.baseQueue = AllUpdates
    BY <1>2 DEF Fibers
<1>4. AllUpdates' = AllUpdates /\ Replayed' = Replayed
  <2>1. AllUpdates' = AllUpdates
      BY <1>1, <1>2, <1>3, ConcatEmpty DEF AllUpdates
  <2>2. Replayed' = Replay(current.baseState, AllUpdates')
      BY <1>3 DEF Replayed, AllUpdates
  <2> QED BY <1>1, <2>1, <2>2, AllType
<1>5. Unspoilt' => Unspoilt /\ (current.time = NoWork => p.lastRenderedState = current.state)
    BY <1>1 DEF Unspoilt, MistakesState
<1>6. render.does = "nothing" /\ ~Rendered'
    BY <1>1 DEF Shape, Rendered
<1>7. CurrentInv'
    BY <1>1, <1>3, <1>4, <1>5, <1>6 DEF CurrentInv
<1>8. AlternateInv'
    BY <1>1, <1>3, <1>6 DEF AlternateInv
<1> QED BY <1>7, <1>8

\* So has one that is thrown away.
LEMMA DiscardUpdates ==
    ASSUME TypeOK, Shape, CurrentInv, AlternateInv, discard
    PROVE  CurrentInv' /\ AlternateInv'
<1>1. /\ pc = "rendered" /\ pc' = "idle" /\ render' = NoRender
      /\ queue' = IF current.is THEN queue ELSE NoQueue
      /\ spoilt' = spoilt \cup Breaks
      /\ UNCHANGED <<current, parent, expected>>
    BY DEF discard
<1>2. ~Rendered' /\ render'.does = "nothing"
    BY <1>1 DEF Rendered, NoRender
<1>3. AlternateInv'
    BY <1>1, <1>2 DEF AlternateInv
<1>4. SUFFICES ASSUME current.is PROVE CurrentInv'
    BY <1>1, <1>3 DEF CurrentInv
<1>5. queue' = queue /\ AllUpdates' = AllUpdates /\ Replayed' = Replayed
    BY <1>1, <1>4 DEF AllUpdates, Replayed
<1>6. Unspoilt' => Unspoilt /\ ~MistakesState(queue.lastRenderedState, queue.pending)
               /\ ~(render.does = "bailsOut" /\ alternate.time > current.time)
  <2>1. Unspoilt' => Unspoilt /\ "bailout" \notin Breaks /\ "eager" \notin Breaks
      BY <1>1 DEF Unspoilt
  <2> QED BY <1>4, <2>1 DEF Breaks
<1>7. ASSUME Unspoilt' PROVE EagerOK(current.baseState, AllUpdates)
  <2>1. CASE queue.lastRenderedState = current.state
      BY <1>4, <1>6, <1>7, <2>1 DEF CurrentInv
  <2>2. CASE queue.lastRenderedState # current.state
    <3>1. \A i \in 1 .. Len(queue.pending) : queue.pending[i].eager = NoState
        BY <1>6, <1>7, <2>2, <1>4, AllType DEF MistakesState, ToSet
    <3>2. EagerOK(current.baseState, current.baseQueue)
        BY <1>4, <1>6, <1>7 DEF CurrentInv
    <3> QED BY <1>4, <3>1, <3>2, AllType, EagerConcat DEF AllUpdates
  <2> QED BY <2>1, <2>2
<1>8. ASSUME Unspoilt', current.time = NoWork
      PROVE  queue.lastRenderedState = current.state /\ Replayed = current.state
  <2>1. queue.lastRenderedState = current.state
      BY <1>6, <1>8 DEF MistakesState
  <2>2. render.does = "bailsOut" => alternate.time = NoWork
    <3>1. render.does = "bailsOut" => Rendered
        BY <1>1 DEF Rendered
    <3>2. Rendered => alternate.time \in Nat
        BY AllNextType
    <3> QED BY <1>6, <1>8, <3>1, <3>2 DEF NoWork
  <2> QED BY <1>4, <1>6, <1>8, <2>1, <2>2 DEF CurrentInv
<1>9. CurrentInv'
    BY <1>1, <1>2, <1>4, <1>5, <1>6, <1>7, <1>8 DEF CurrentInv
<1> QED BY <1>9

\* A commit puts the finished tree's account in the place of the current one.
LEMMA CommitUpdates ==
    ASSUME TypeOK, Shape, CurrentInv, AlternateInv, commitRoot
    PROVE  CurrentInv' /\ AlternateInv'
<1>1. /\ Rendered /\ pc' = "idle" /\ render' = NoRender /\ queue' = queue
      /\ current' = CommitHookEffects(alternate, "layout")
      /\ parent' = [props |-> render.props, childTime |-> alternate.time]
      /\ expected' = IF MayDispatch(render.props) THEN NoState ELSE expected
      /\ Unspoilt' => Unspoilt /\ ~render.drops
    BY DEF commitRoot, Rendered, Unspoilt
<1>2. alternate \in Fibers /\ "layout" \in Kinds
    BY <1>1, KindsAre DEF TypeOK
<1>3. Committed(alternate, "layout", current')
    BY <1>1, <1>2, CommittedFiber
<1>4. /\ current'.is = TRUE /\ current'.time = alternate.time /\ current'.state = alternate.state
      /\ current'.baseState = alternate.baseState /\ current'.baseQueue = alternate.baseQueue
    BY <1>3 DEF Committed
<1>5. AllUpdates' = AllNext /\ Replayed' = Ahead
  <2>1. AllUpdates' = AllNext
      BY <1>1, <1>4 DEF AllUpdates, AllNext
  <2>2. Replayed' = Replay(current'.baseState, AllUpdates')
      BY DEF Replayed, AllUpdates
  <2> QED BY <1>4, <2>1, <2>2 DEF Ahead
<1>6. ~Rendered'
    BY <1>1 DEF Rendered
<1>7. current'.time <= parent'.childTime /\ (current'.time # NoWork => AllUpdates' # <<>>)
    BY <1>1, <1>4, <1>5, AllNextType DEF AlternateInv
<1>8. ASSUME Unspoilt'
      PROVE  /\ expected' \in {Replayed', NoState}
             /\ EagerOK(current'.baseState, current'.baseQueue)
             /\ EagerOK(current'.baseState, AllUpdates')
             /\ current'.time = NoWork =>
                  queue.lastRenderedState = current'.state /\ Replayed' = current'.state
  <2>1. /\ expected \in {Ahead, NoState} \/ MayDispatch(render.props)
        /\ EagerOK(alternate.baseState, AllNext)
        /\ alternate.time = NoWork =>
             Ahead = alternate.state /\ queue.lastRenderedState = alternate.state
      BY <1>1, <1>8 DEF AlternateInv
  <2>2. EagerOK(alternate.baseState, alternate.baseQueue)
    <3>1. alternate.baseQueue \in Seq(Updates) /\ queue.pending \in Seq(Updates)
        BY <1>1, AllNextType DEF TypeOK
    <3> QED BY <2>1, <3>1, EagerConcat DEF AllNext
  <2> QED BY <1>1, <1>4, <1>5, <2>1, <2>2
<1>9. CurrentInv'
    BY <1>1, <1>7, <1>8 DEF CurrentInv
<1>10. AlternateInv'
    BY <1>4, <1>6 DEF AlternateInv
<1> QED BY <1>9, <1>10

\* A flush of passive effects touches no update.
LEMMA FlushUpdates ==
    ASSUME TypeOK, Shape, CurrentInv, AlternateInv, flushPassiveEffects
    PROVE  CurrentInv' /\ AlternateInv'
<1>1. /\ pc = "idle" /\ passive
      /\ current' = CommitHookEffects(current, "passive")
      /\ UNCHANGED <<queue, alternate, parent, pc, render, expected, spoilt>>
    BY DEF flushPassiveEffects
<1>2. current.is /\ current \in Fibers /\ "passive" \in Kinds
    BY <1>1, FiberIs, KindsAre DEF Shape
<1>3. Committed(current, "passive", current')
    BY <1>1, <1>2, CommittedFiber
<1>4. /\ current'.is = TRUE /\ current'.time = current.time /\ current'.state = current.state
      /\ current'.baseState = current.baseState /\ current'.baseQueue = current.baseQueue
    BY <1>3 DEF Committed
<1>5. AllUpdates' = AllUpdates /\ Replayed' = Replayed
    BY <1>1, <1>4 DEF AllUpdates, Replayed
<1>6. CurrentInv'
    BY <1>1, <1>2, <1>4, <1>5 DEF CurrentInv, Unspoilt
<1>7. AlternateInv'
    BY <1>1, <1>2, <1>4 DEF AlternateInv, Rendered
<1> QED BY <1>6, <1>7

\* Every step keeps the account of the updates.
LEMMA StepUpdates ==
    ASSUME TypeOK, Shape, CurrentInv, AlternateInv, [Next]_vars
    PROVE  CurrentInv' /\ AlternateInv'
<1>1. ASSUME NEW t \in Times, NEW action, NEW eager, NEW marks, Dispatches(t, action, eager, marks)
      PROVE  CurrentInv' /\ AlternateInv'
    BY <1>1, DispatchUpdates
<1>2. ASSUME NEW t \in Times, NEW props \in Props \cup {Gone}, updateParent(t, props)
      PROVE  CurrentInv' /\ AlternateInv'
    BY <1>2 DEF updateParent, history, CurrentInv, AlternateInv, AllUpdates, Replayed, AllNext, Ahead,
                Unspoilt, Rendered, MayDispatch
<1>3. ASSUME NEW t \in Times, NEW r, Mounts(t, r) PROVE CurrentInv' /\ AlternateInv'
    BY <1>3, MountUpdates
<1>4. ASSUME NEW t \in Times, deleteComponent(t) PROVE CurrentInv' /\ AlternateInv'
  <2>1. /\ pc = "idle" /\ Renders(t, "deletes", FALSE) /\ UNCHANGED <<queue, current, alternate>>
      BY <1>4 DEF deleteComponent, CanRender
  <2>2. /\ pc' = "rendered" /\ render'.does = "deletes"
        /\ UNCHANGED <<parent, expected, spoilt>>
      BY <2>1 DEF Renders, history
  <2>3. render.does = "nothing" /\ ~Rendered'
      BY <2>1, <2>2 DEF Shape, Rendered
  <2>4. AllUpdates' = AllUpdates /\ Replayed' = Replayed /\ (Unspoilt' <=> Unspoilt)
      BY <2>1, <2>2 DEF AllUpdates, Replayed, Unspoilt
  <2>5. CurrentInv'
      BY <2>1, <2>2, <2>3, <2>4 DEF CurrentInv
  <2>6. AlternateInv'
      BY <2>1, <2>2, <2>3 DEF AlternateInv
  <2> QED BY <2>5, <2>6
<1>5. ASSUME NEW t \in Times, Bails(t) PROVE CurrentInv' /\ AlternateInv'
    BY <1>5, BailoutUpdates
<1>6. ASSUME NEW t \in Times, NEW d, NEW r, Rerenders(t, d, r) PROVE CurrentInv' /\ AlternateInv'
    BY <1>6, RerenderUpdates
<1>7. ASSUME NEW t \in Times, NEW d, NEW p, Throws(t, d, p) PROVE CurrentInv' /\ AlternateInv'
    BY <1>7, ThrowUpdates
<1>8. CASE commitDeletion
    BY <1>8, NoFiberIsNot DEF commitDeletion, CurrentInv, AlternateInv, Rendered
<1>9. CASE UNCHANGED vars
    BY <1>9 DEF vars, history, CurrentInv, AlternateInv, AllUpdates, Replayed, AllNext, Ahead,
                Unspoilt, Rendered, MayDispatch
<1> QED
    BY <1>1, <1>2, <1>3, <1>4, <1>5, <1>6, <1>7, <1>8, <1>9, StepIsOneOf,
       DiscardUpdates, CommitUpdates, FlushUpdates DEF StepCases

-----------------------------------------------------------------------------
(* Theorems *)

\* The inductive invariant.
IInv ==
    /\ TypeOK /\ Shape
    /\ InstancesInv /\ EffectsInv
    /\ ScreenInv
    /\ CurrentInv /\ AlternateInv

\* The invariant holds at first.
LEMMA InitInv == ASSUME Init PROVE IInv
<1>1. ~current.is /\ ~Rendered /\ render.does = "nothing" /\ expected = InitialState
    BY NoFiberIsNot DEF Init, Rendered, NoRender
<1>2. \A k \in Kinds : alive[k] = Instance(NoState)
    BY ComponentAssumption DEF Init, Instance
<1> QED
    BY <1>1, <1>2, InitTypes
       DEF IInv, InstancesInv, EffectsInv, ScreenInv, CurrentInv, AlternateInv

\* The invariant holds in every state the component can come to, whatever it
\* dispatches, its parent does and the work loop throws away: renderWithHooks, the
\* commit and dispatchAction keep the fibers, the queue and the effects in agreement.
THEOREM Inductive == Spec => []IInv
<1>1. ASSUME IInv, [Next]_vars PROVE IInv'
    BY <1>1, StepTypes, StepInstances, StepEffects, StepScreen, StepUpdates DEF IInv
<1> QED BY InitInv, <1>1, PTL DEF Spec

\* Type correctness of the two fibers, the queue and the effects: the fields that
\* updateReducer, updateEffect and createWorkInProgress copy and replace are all there.
THEOREM TypeCorrect == Spec => []TypeOK
<1>1. IInv => TypeOK
    BY DEF IInv
<1> QED BY <1>1, Inductive, PTL

\* Of each effect exactly the instance of the committed state is alive, none once the
\* component is gone: commitHookEffectListUnmount destroys what the mount before it has
\* created, over renders thrown away, bail-outs and passive effects that come late.
THEOREM EffectsFollow == Spec => []EffectsFollowState
<1>1. ASSUME IInv PROVE EffectsFollowState
  <2> SUFFICES ASSUME pc = "idle", "effect" \notin spoilt, NEW k \in Kinds, k = "layout" \/ ~passive
               PROVE  alive[k] = [s \in States |-> IF current.is /\ s = current.state THEN 1 ELSE 0]
      BY DEF EffectsFollowState
  <2>1. CASE current.is
    <3>1. current.list[k].destroy = current.state
        BY <1>1, <2>1 DEF IInv, EffectsInv
    <3>2. alive[k] = Instance(current.state)
        BY <1>1, <2>1, <3>1 DEF IInv, InstancesInv
    <3> QED BY <2>1, <3>2 DEF Instance
  <2>2. CASE ~current.is
    <3>1. alive[k] = Instance(NoState)
        BY <1>1, <2>2 DEF IInv, InstancesInv
    <3> QED BY <2>2, <3>1, ComponentAssumption DEF Instance
  <2> QED BY <2>1, <2>2
<1> QED BY <1>1, Inductive, PTL

\* The screen shows the committed state, and one the component would not replace by a
\* dispatch of its own: a bail-out of updateFunctionComponent leaves children that were
\* made from the same state, and the passes of renderWithHooks come to an end.
THEOREM ScreenShows == Spec => []ScreenShowsState
<1>1. IInv => ScreenShowsState
    BY DEF IInv, ScreenInv, ScreenShowsState
<1> QED BY <1>1, Inductive, PTL

\* No update is forgotten by updateReducer's skipping and rebasing, by the eager states
\* of dispatchAction, by bail-outs and by renders that are thrown away: a component that
\* no time marks shows all that was dispatched.
THEOREM NothingForgotten == Spec => []NothingIsForgotten
<1>1. ASSUME IInv PROVE NothingIsForgotten
  <2> SUFFICES ASSUME Unspoilt, pc = "idle", current.is PROVE NothingIsLost
      BY DEF NothingIsForgotten, NothingIsLost, Unspoilt
  <2>1. render.does = "nothing"
      BY <1>1 DEF IInv, Shape
  <2> QED BY <1>1, <2>1 DEF IInv, CurrentInv, NothingIsLost
<1> QED BY <1>1, Inductive, PTL
===============================================================================
