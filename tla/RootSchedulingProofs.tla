------------------------ MODULE RootSchedulingProofs ------------------------
(***************************************************************************)
(* Proofs about a root, for any set of updates and of levels: its marks    *)
(* stay in range, no commit takes back what an earlier one showed, the     *)
(* callback that the root remembers is alive whenever the thread is free,  *)
(* and its first pending level is the most urgent one that an update waits *)
(* at.                                                                     *)
(***************************************************************************)
EXTENDS RootScheduling, SequenceTheorems, FiniteSetTheorems, WellFoundedInduction, TLAPS

-----------------------------------------------------------------------------
(* The operations of ReactFiberRoot.js keep marks within 0 .. N and the    *)
(* suspended levels a range.                                               *)

RootOK(r) == r \in Roots(Marks) /\ RangeOK(r)

LEMMA MarksAreNumbers == /\ Sync \in Nat /\ Idle \in Marks /\ Sync \in Marks /\ NoWork \in Marks
                         /\ Levels \subseteq Marks /\ Marks \subseteq Nat
  BY LevelsAssumption DEF Marks, NoWork, Idle

LEMMA MarkBounds == \A n : n \in Marks <=> n \in Nat /\ n <= Sync
  BY MarksAreNumbers DEF Marks, NoWork

LEMMA HigherIsAMark == \A s, t \in Marks : Higher(s, t) \in Marks
  BY DEF Higher

LEMMA NewRootOK == RootOK(NewRoot)
  BY MarksAreNumbers DEF RootOK, RangeOK, NewRoot, Roots

\* markRootSuspendedAtTime widens the range by a level.
LEMMA SuspendedOK ==
    ASSUME NEW r, RootOK(r), NEW t \in Marks, t # NoWork
    PROVE  RootOK(markRootSuspendedAtTime(r, t))
<1> DEFINE first == Higher(r.firstSuspendedTime, t)
           last == IF r.lastSuspendedTime > t \/ r.firstSuspendedTime = NoWork
                   THEN t ELSE r.lastSuspendedTime
<1>1. first \in Marks /\ last \in Marks
  BY HigherIsAMark DEF RootOK, Roots
<1>2. r.firstSuspendedTime \in Nat /\ r.lastSuspendedTime \in Nat /\ t \in Nat
  BY MarksAreNumbers DEF RootOK, Roots
<1>3. last <= first /\ last # NoWork
  BY <1>2 DEF RootOK, RangeOK, Higher, NoWork
<1>4. ClearedBy(r.lastPingedTime, t) \in Marks /\ ClearedBy(r.lastExpiredTime, t) \in Marks
  BY MarksAreNumbers DEF RootOK, Roots, ClearedBy
<1> HIDE DEF first, last
<1>5. RootOK([r EXCEPT !.firstSuspendedTime = first, !.lastSuspendedTime = last,
                       !.lastPingedTime = ClearedBy(@, t),
                       !.lastExpiredTime = ClearedBy(@, t)])
  BY <1>1, <1>3, <1>4 DEF RootOK, RangeOK, Roots
<1> QED
  BY <1>5 DEF markRootSuspendedAtTime, first, last

LEMMA UnsuspendedOK ==
    ASSUME NEW r, RootOK(r)
    PROVE  RootOK(Unsuspended(r))
<1>1. Unsuspended(r) \in Roots(Marks)
  BY MarksAreNumbers DEF RootOK, Roots, Unsuspended
<1>2. Unsuspended(r).firstSuspendedTime = NoWork /\ Unsuspended(r).lastSuspendedTime = NoWork
  BY DEF RootOK, Roots, Unsuspended
<1> QED
  BY <1>1, <1>2 DEF RootOK, RangeOK, NoWork

\* markRootUpdatedAtTime narrows the range from below, or clears it.
LEMMA UpdatedOK ==
    ASSUME NEW r, RootOK(r), NEW t \in Marks
    PROVE  RootOK(markRootUpdatedAtTime(r, t))
<1> DEFINE p == [r EXCEPT !.firstPendingTime = Higher(@, t)]
           u == IF t >= p.firstSuspendedTime THEN Unsuspended(p)
                ELSE IF t >= p.lastSuspendedTime THEN [p EXCEPT !.lastSuspendedTime = t + 1]
                ELSE p
<1>1. RootOK(p)
  BY HigherIsAMark DEF RootOK, RangeOK, Roots
<1> HIDE DEF p
<1>2. RootOK(u)
  <2>1. RootOK(Unsuspended(p))
    BY <1>1, UnsuspendedOK
  <2>2. CASE ~(t >= p.firstSuspendedTime) /\ t >= p.lastSuspendedTime
    <3>1. p.firstSuspendedTime \in Nat /\ p.firstSuspendedTime <= Sync /\ t \in Nat
      BY <1>1, MarkBounds DEF RootOK, Roots
    <3>2. t + 1 \in Marks /\ t + 1 <= p.firstSuspendedTime /\ t + 1 # NoWork
      BY <2>2, <3>1, MarkBounds, MarksAreNumbers DEF NoWork
    <3>3. RootOK([p EXCEPT !.lastSuspendedTime = t + 1])
      BY <1>1, <3>2 DEF RootOK, RangeOK, Roots
    <3> QED BY <2>2, <3>3
  <2> QED BY <1>1, <2>1, <2>2
<1> HIDE DEF u
<1>3. RootOK([u EXCEPT !.nextKnownPendingLevel = Higher(@, t)])
  BY <1>2, HigherIsAMark DEF RootOK, RangeOK, Roots
<1> QED
  BY <1>1, <1>3 DEF markRootUpdatedAtTime, p, u

\* markRootFinishedAtTime narrows the range from above, or clears it.
LEMMA FinishedOK ==
    ASSUME NEW r, RootOK(r), NEW t \in Marks, NEW remaining \in Marks
    PROVE  RootOK(markRootFinishedAtTime(r, t, remaining))
<1> DEFINE s == IF t <= r.lastSuspendedTime THEN Unsuspended(r)
                ELSE IF t <= r.firstSuspendedTime
                     THEN [r EXCEPT !.firstSuspendedTime = t - 1]
                ELSE r
<1>1. RootOK(s)
  <2>1. RootOK(Unsuspended(r))
    BY UnsuspendedOK
  <2>2. CASE ~(t <= r.lastSuspendedTime) /\ t <= r.firstSuspendedTime
    <3>1. r.lastSuspendedTime \in Nat /\ t \in Nat /\ t <= Sync
      BY MarkBounds DEF RootOK, Roots
    <3>2. t - 1 \in Marks /\ r.lastSuspendedTime <= t - 1
      BY <2>2, <3>1, MarkBounds, MarksAreNumbers
    <3>3. r.lastSuspendedTime # NoWork
      BY <2>2, <3>1 DEF RootOK, RangeOK, NoWork
    <3>4. RootOK([r EXCEPT !.firstSuspendedTime = t - 1])
      BY <3>2, <3>3 DEF RootOK, RangeOK, Roots
    <3> QED BY <2>2, <3>4
  <2> QED BY <2>1, <2>2
<1> HIDE DEF s
<1>2. RootOK([s EXCEPT !.firstPendingTime = remaining,
                       !.lastPingedTime = ClearedBy(@, t),
                       !.lastExpiredTime = ClearedBy(@, t)])
  BY <1>1, MarksAreNumbers DEF RootOK, RangeOK, Roots, ClearedBy
<1> QED
  BY <1>2 DEF markRootFinishedAtTime, s

LEMMA ExpiredOK ==
    ASSUME NEW r, RootOK(r), NEW t \in Marks
    PROVE  RootOK(markRootExpiredAtTime(r, t))
  BY DEF RootOK, RangeOK, Roots, markRootExpiredAtTime

LEMMA PingedOK ==
    ASSUME NEW r, RootOK(r), NEW t \in Marks
    PROVE  RootOK([r EXCEPT !.lastPingedTime = t])
  BY DEF RootOK, RangeOK, Roots

LEMMA KnownOK ==
    ASSUME NEW r, RootOK(r), NEW t \in Marks
    PROVE  RootOK([r EXCEPT !.nextKnownPendingLevel = t])
  BY DEF RootOK, RangeOK, Roots

LEMMA NextIsAMark ==
    ASSUME NEW r, RootOK(r)
    PROVE  getNextRootExpirationTimeToWorkOn(r) \in Marks
  BY MarksAreNumbers
  DEF RootOK, Roots, getNextRootExpirationTimeToWorkOn, NextWhenSuspended, Higher

\* The highest of a set of marks exists, is one of them, and bounds the others.
LEMMA HighestOfMarks ==
    ASSUME NEW S \in SUBSET Marks, S # {}
    PROVE  HighestOf(S) \in S /\ \A s \in S : s <= HighestOf(S)
<1> DEFINE T == {Sync - s : s \in S}
<1>1. T \subseteq Nat /\ T # {}
  <2>1. \A s \in S : Sync - s \in Nat
    BY MarkBounds, MarksAreNumbers
  <2> QED BY <2>1
<1>2. PICK x \in T : \A y \in T : ~ (<<y, x>> \in OpToRel(<, Nat))
  <2> HIDE DEF T
  <2> QED BY <1>1, NatLessThanWellFounded, WFMin
<1>3. \A y \in T : ~(y < x)
  BY <1>1, <1>2 DEF OpToRel
<1>4. PICK t \in S : x = Sync - t
  OBVIOUS
<1>5. \A s \in S : s <= t
  <2> TAKE s \in S
  <2>1. s \in Nat /\ t \in Nat
    BY MarkBounds
  <2>2. ~(Sync - s < Sync - t)
    BY <1>3, <1>4
  <2> QED BY <2>1, <2>2, MarksAreNumbers
<1> QED
  BY <1>4, <1>5 DEF HighestOf

LEMMA RemainingIsAMark ==
    ASSUME level \in [Updates -> Marks], NEW done
    PROVE  Remaining(done) \in Marks
<1>1. {level[u] : u \in Updates \ done} \in SUBSET Marks
  OBVIOUS
<1> QED
  BY <1>1, HighestOfMarks, MarksAreNumbers DEF Remaining, HighestOf

-----------------------------------------------------------------------------
(* Where the thread may be.  Outside a flush of the sync queue a task of   *)
(* the Scheduler has an empty stack, and frame.time is its level; inside a *)
(* flush the stack continues the one that the flush was called with.  A    *)
(* thread that will be idle next has no task's frame left.                 *)

Push(p, s) == <<p>> \o s

\* The stacks that a flush may be called with: for want of a task, or in one.
FromIdle == {Push("idle", <<>>), Push("commitRoot", Push("idle", <<>>))}
FromTask == {Push("begin", <<>>), Push("tail", <<>>), Push("commitRoot", Push("tail", <<>>))}
Base(b) == \/ b \in FromIdle /\ frame = NoFrame
           \/ b \in FromTask /\ frame.time # NoWork

InFlush(b) ==
    \/ pc \in {"flush", "begin", "render", "tail"} /\ back = b
    \/ pc = "passive" /\ back = Push("begin", b)
    \/ pc = "passive" /\ back = Push("commitRoot", Push("tail", b))
    \/ pc \in {"commitRoot", "commit"} /\ back = Push("tail", b)

OutsideFlush ==
    \/ pc = "idle" /\ back = <<>> /\ frame = NoFrame
    \/ pc \in {"begin", "render", "finish", "tail", "return"} /\ back = <<>> /\ frame.time # NoWork
    \/ pc = "event" /\ back = Push("idle", <<>>) /\ frame = NoFrame
    \/ pc = "passive" /\ Base(back)
    \/ pc \in {"commitRoot", "commit"} /\ back = Push("idle", <<>>) /\ frame = NoFrame
    \/ pc \in {"commitRoot", "commit"} /\ back = Push("tail", <<>>) /\ frame.time # NoWork

ControlOK == IF flushing THEN \E b : Base(b) /\ InFlush(b) ELSE OutsideFlush

thread == <<pc, back, frame, flushing>>

Places == {"idle", "begin", "tail", "commitRoot"}

LEMMA PlacesToReturnTo ==
    "idle" \in Places /\ "tail" \in Places /\ "begin" \in Places /\ "commitRoot" \in Places
  BY DEF Places

\* What was pushed last is popped first.
LEMMA PushPop ==
    ASSUME NEW s \in Seq(Places), NEW p \in Places
    PROVE  Push(p, s) \in Seq(Places) /\ Head(Push(p, s)) = p /\ Tail(Push(p, s)) = s
<1> DEFINE t == <<p>> \o s
<1>1. <<p>> \in Seq(Places) /\ Len(<<p>>) = 1 /\ <<p>>[1] = p
  OBVIOUS
<1>2. /\ t \in Seq(Places) /\ Len(t) = 1 + Len(s)
      /\ \A i \in 1 .. 1 + Len(s) : t[i] = IF i <= 1 THEN <<p>>[i] ELSE s[i - 1]
  <2>1. /\ t \in Seq(Places) /\ Len(t) = Len(<<p>>) + Len(s)
        /\ \A i \in 1 .. Len(<<p>>) + Len(s) :
              t[i] = IF i <= Len(<<p>>) THEN <<p>>[i] ELSE s[i - Len(<<p>>)]
    BY <1>1, ConcatProperties, Zenon
  <2> QED BY <1>1, <2>1
<1> HIDE DEF t
<1>3. Len(s) \in Nat
  BY LenProperties
<1>4. t # <<>> /\ Head(t) = p
  BY <1>1, <1>2, <1>3
<1>5. /\ Tail(t) \in Seq(Places) /\ Len(Tail(t)) = Len(s)
      /\ \A i \in 1 .. Len(s) : Tail(t)[i] = t[i + 1]
  BY <1>2, <1>3, <1>4, HeadTailProperties
<1>6. \A i \in 1 .. Len(s) : Tail(t)[i] = s[i]
  <2> TAKE i \in 1 .. Len(s)
  <2>1. i + 1 \in 1 .. 1 + Len(s) /\ ~(i + 1 <= 1) /\ i + 1 - 1 = i
    BY <1>3
  <2> QED BY <1>2, <1>5, <2>1
<1>7. Tail(t) = s
  BY <1>5, <1>6, SeqEqual
<1> QED
  BY <1>2, <1>4, <1>7 DEF Push, t

LEMMA BasesAreStacks == <<>> \in Seq(Places) /\ \A b \in FromIdle \union FromTask : b \in Seq(Places)
<1>1. <<>> \in Seq(Places)
  BY EmptySeq
<1>3. /\ Push("idle", <<>>) \in Seq(Places) /\ Push("tail", <<>>) \in Seq(Places)
      /\ Push("begin", <<>>) \in Seq(Places)
  BY <1>1, PlacesToReturnTo, PushPop
<1>4. /\ Push("commitRoot", Push("idle", <<>>)) \in Seq(Places)
      /\ Push("commitRoot", Push("tail", <<>>)) \in Seq(Places)
  BY <1>3, PlacesToReturnTo, PushPop
<1> QED
  BY <1>1, <1>3, <1>4 DEF FromIdle, FromTask

\* The thread returns from the bottom of a flush.
LEMMA ReturnFromBase ==
    ASSUME NEW b, Base(b), back = b, Return, ~flushing', frame' = frame
    PROVE  ControlOK'
<1>1. <<>> \in Seq(Places) /\ b \in Seq(Places)
  BY BasesAreStacks DEF Base
<1>2. CASE b = Push("idle", <<>>) /\ frame = NoFrame
  <2>1. pc' = "idle" /\ back' = <<>>
    BY <1>1, <1>2, PlacesToReturnTo, PushPop DEF Return
  <2> QED BY <1>2, <2>1 DEF ControlOK, OutsideFlush
<1>3. CASE b = Push("commitRoot", Push("idle", <<>>)) /\ frame = NoFrame
  <2>1. Push("idle", <<>>) \in Seq(Places)
    BY <1>1, PlacesToReturnTo, PushPop
  <2>2. pc' = "commitRoot" /\ back' = Push("idle", <<>>)
    BY <1>3, <2>1, PlacesToReturnTo, PushPop DEF Return
  <2> QED BY <1>3, <2>2 DEF ControlOK, OutsideFlush
<1>4. CASE b \in FromTask /\ frame.time # NoWork
  <2>1. CASE b = Push("begin", <<>>)
    <3>1. pc' = "begin" /\ back' = <<>>
      BY <1>1, <2>1, PlacesToReturnTo, PushPop DEF Return
    <3> QED BY <1>4, <3>1 DEF ControlOK, OutsideFlush
  <2>2. CASE b = Push("tail", <<>>)
    <3>1. pc' = "tail" /\ back' = <<>>
      BY <1>1, <2>2, PlacesToReturnTo, PushPop DEF Return
    <3> QED BY <1>4, <3>1 DEF ControlOK, OutsideFlush
  <2>3. CASE b = Push("commitRoot", Push("tail", <<>>))
    <3>1. Push("tail", <<>>) \in Seq(Places)
      BY <1>1, PlacesToReturnTo, PushPop
    <3>2. pc' = "commitRoot" /\ back' = Push("tail", <<>>)
      BY <2>3, <3>1, PlacesToReturnTo, PushPop DEF Return
    <3> QED BY <1>4, <3>2 DEF ControlOK, OutsideFlush
  <2> QED BY <1>4, <2>1, <2>2, <2>3 DEF FromTask
<1> QED
  BY <1>2, <1>3, <1>4 DEF Base, FromIdle

\* An event, a commit or passive effects end.
LEMMA FlushOrReturn ==
    ASSUME ControlOK, pc \in {"event", "passive", "commit"}, FlushThenReturn, frame' = frame
    PROVE  ControlOK'
<1>1. CASE flushing
  <2>1. Return /\ flushing'
    BY <1>1 DEF FlushThenReturn
  <2>2. PICK b : Base(b) /\ InFlush(b)
    BY <1>1 DEF ControlOK
  <2>3. b \in Seq(Places) /\ Push("tail", b) \in Seq(Places)
    BY <2>2, BasesAreStacks, PlacesToReturnTo, PushPop DEF Base
  <2>4. Base(b)'
    BY <2>2 DEF Base
  <2>5. InFlush(b)'
    <3>1. CASE pc = "passive" /\ back = Push("begin", b)
      BY <2>1, <2>3, <3>1, PlacesToReturnTo, PushPop DEF Return, InFlush
    <3>2. CASE pc = "passive" /\ back = Push("commitRoot", Push("tail", b))
      BY <2>1, <2>3, <3>2, PlacesToReturnTo, PushPop DEF Return, InFlush
    <3>3. CASE pc = "commit" /\ back = Push("tail", b)
      BY <2>1, <2>3, <3>3, PlacesToReturnTo, PushPop DEF Return, InFlush
    <3> QED BY <2>2, <3>1, <3>2, <3>3 DEF InFlush
  <2> QED BY <2>1, <2>4, <2>5 DEF ControlOK
<1>2. CASE ~flushing
  <2>1. Base(back)
    BY <1>2 DEF ControlOK, OutsideFlush, Base, FromIdle, FromTask
  <2>2. CASE queue' = 0
    <3>1. Return /\ ~flushing'
      BY <1>2, <2>2 DEF FlushThenReturn
    <3> QED BY <2>1, <3>1, ReturnFromBase
  <2>3. CASE queue' # 0
    <3>1. pc' = "flush" /\ flushing' /\ back' = back
      BY <1>2, <2>3 DEF FlushThenReturn
    <3>2. Base(back)'
      BY <2>1, <3>1 DEF Base
    <3> QED BY <3>1, <3>2 DEF ControlOK, InFlush
  <2> QED BY <2>2, <2>3
<1> QED
  BY <1>1, <1>2

LEMMA InitControl == Init => ControlOK
  BY DEF Init, ControlOK, OutsideFlush

LEMMA ThreadStays ==
    ASSUME ControlOK, UNCHANGED thread
    PROVE  ControlOK'
  BY DEF thread, ControlOK, OutsideFlush, InFlush, Base

\* An idle thread has an empty stack, and what it calls returns to it.
LEMMA CallFromIdle ==
    ASSUME ControlOK, pc = "idle"
    PROVE  /\ ~flushing /\ back = <<>> /\ frame = NoFrame
           /\ \A p : Call(p, "idle") => pc' = p /\ back' = Push("idle", <<>>)
  BY DEF ControlOK, OutsideFlush, InFlush, Call, Push

\* Updates, tasks and timeouts.
LEMMA HostControl ==
    ASSUME ControlOK,
           \/ \E u \in Updates, l \in Levels : scheduleUpdateOnFiber(u, l)
           \/ \E k \in tasks : \E c \in Levels \union {k.time} : taskTimedOut(k, c)
           \/ HostTask
    PROVE  ControlOK'
<1>1. ASSUME NEW u \in Updates, NEW l \in Levels, scheduleUpdateOnFiber(u, l)
      PROVE  ControlOK'
  <2>1. flushing' = flushing /\ frame' = frame
    BY <1>1 DEF scheduleUpdateOnFiber
  <2>2. CASE pc = "idle"
    <3>1. ~flushing /\ pc' = "event" /\ back' = Push("idle", <<>>) /\ frame = NoFrame
      BY <1>1, <2>2, CallFromIdle DEF scheduleUpdateOnFiber
    <3> QED BY <2>1, <3>1 DEF ControlOK, OutsideFlush
  <2>3. CASE pc # "idle"
    BY <1>1, <2>1, <2>3, ThreadStays DEF scheduleUpdateOnFiber, thread
  <2> QED BY <2>2, <2>3
<1>2. ASSUME NEW k \in tasks, NEW c, taskTimedOut(k, c)
      PROVE  ControlOK'
  BY <1>2, ThreadStays DEF taskTimedOut, thread, control
<1>3. ASSUME NEW k \in tasks, performConcurrentWorkOnRoot(k)
      PROVE  ControlOK'
  <2> DEFINE next == getNextRootExpirationTimeToWorkOn(root)
  <2>1. pc = "idle" /\ flushing' = flushing
    BY <1>3 DEF performConcurrentWorkOnRoot, Free
  <2>2. ~flushing /\ back = <<>>
    BY <2>1, CallFromIdle
  <2>3. CASE next = NoWork
    BY <1>3, <2>1, <2>3, ThreadStays DEF performConcurrentWorkOnRoot, thread
  <2>4. CASE next # NoWork
    <3>1. frame'.time # NoWork
      BY <1>3, <2>4 DEF performConcurrentWorkOnRoot
    <3>2. CASE passive
      <4>1. pc' = "passive" /\ back' = Push("begin", <<>>)
        BY <1>3, <2>2, <2>4, <3>2 DEF performConcurrentWorkOnRoot, Call, Push
      <4>2. Base(back)'
        BY <3>1, <4>1 DEF Base, FromTask
      <4> QED BY <2>1, <2>2, <4>1, <4>2 DEF ControlOK, OutsideFlush
    <3>3. CASE ~passive
      <4>1. pc' = "begin" /\ back' = <<>>
        BY <1>3, <2>2, <2>4, <3>3 DEF performConcurrentWorkOnRoot
      <4> QED BY <2>1, <2>2, <3>1, <4>1 DEF ControlOK, OutsideFlush
    <3> QED BY <3>2, <3>3
  <2> QED BY <2>3, <2>4
<1>4. ASSUME flushTask
      PROVE  ControlOK'
  <2>1. pc' = "flush" /\ flushing' /\ back' = Push("idle", <<>>) /\ frame' = NoFrame
    BY <1>4, CallFromIdle DEF flushTask, Free
  <2>2. Base(back)'
    BY <2>1 DEF Base, FromIdle
  <2> QED BY <2>1, <2>2 DEF ControlOK, InFlush
<1>5. ASSUME passiveTask
      PROVE  ControlOK'
  <2>1. ~flushing' /\ pc' = "passive" /\ back' = Push("idle", <<>>) /\ frame' = NoFrame
    BY <1>5, CallFromIdle DEF passiveTask, Free, hostVars
  <2>2. Base(back)'
    BY <2>1 DEF Base, FromIdle
  <2> QED BY <2>1, <2>2 DEF ControlOK, OutsideFlush
<1>6. ASSUME commitTimeout
      PROVE  ControlOK'
  <2>1. ~flushing' /\ pc' = "commitRoot" /\ back' = Push("idle", <<>>) /\ frame' = NoFrame
    BY <1>6, CallFromIdle DEF commitTimeout, Free, hostVars
  <2> QED BY <2>1 DEF ControlOK, OutsideFlush
<1> QED
  BY <1>1, <1>2, <1>3, <1>4, <1>5, <1>6 DEF HostTask, RunTask

\* Units of work, and the ends of renders.
LEMMA RenderControl ==
    ASSUME ControlOK,
           \/ begin \/ Unit \/ complete \/ yield
           \/ finishErrored \/ finishSuspended \/ finishDelayed \/ finishCompleted
           \/ \E u \in Updates : skipUnit(u)
    PROVE  ControlOK'
<1>1. ASSUME begin
      PROVE  ControlOK'
  <2>1. pc = "begin" /\ pc' = "render" /\ UNCHANGED <<back, frame, flushing>>
    BY <1>1 DEF begin, hostVars
  <2> QED BY <2>1 DEF ControlOK, OutsideFlush, InFlush, Base
<1>2. ASSUME NEW u, renderUnit(u) \/ suspendUnit(u) \/ throwUnit(u) \/ skipUnit(u)
      PROVE  ControlOK'
  BY <1>2, ThreadStays DEF renderUnit, suspendUnit, throwUnit, skipUnit, thread, control, hostVars
<1>3. ASSUME complete
      PROVE  ControlOK'
  <2>1. pc = "render" /\ UNCHANGED <<frame, flushing>>
    BY <1>3 DEF complete, hostVars
  <2>2. CASE flushing
    <3>1. PICK b : Base(b) /\ InFlush(b)
      BY <2>2 DEF ControlOK
    <3>2. back = b
      BY <2>1, <3>1 DEF InFlush
    <3>3. pc' = "commitRoot" /\ back' = Push("tail", b)
      BY <1>3, <2>2, <3>2 DEF complete, Call, Push
    <3>4. Base(b)'
      BY <2>1, <3>1 DEF Base
    <3> QED BY <2>1, <2>2, <3>3, <3>4 DEF ControlOK, InFlush
  <2>3. CASE ~flushing
    <3>1. pc' = "finish" /\ back' = back
      BY <1>3, <2>3 DEF complete
    <3> QED BY <2>1, <2>3, <3>1 DEF ControlOK, OutsideFlush
  <2> QED BY <2>2, <2>3
<1>4. ASSUME yield
      PROVE  ControlOK'
  <2>1. pc = "render" /\ ~flushing /\ pc' = "tail" /\ UNCHANGED <<back, frame, flushing>>
    BY <1>4 DEF yield, hostVars
  <2> QED BY <2>1 DEF ControlOK, OutsideFlush
<1>5. ASSUME finishErrored \/ finishSuspended \/ finishDelayed \/ finishCompleted
      PROVE  ControlOK'
  <2>1. pc = "finish" /\ UNCHANGED <<frame, flushing>>
    BY <1>5 DEF finishErrored, finishSuspended, finishDelayed, finishCompleted, hostVars
  <2>2. ~flushing /\ back = <<>> /\ frame.time # NoWork
    BY <2>1 DEF ControlOK, OutsideFlush, InFlush
  <2>3. \/ pc' = "tail" /\ back' = back
        \/ pc' = "commitRoot" /\ back' = Push("tail", <<>>)
    BY <1>5, <2>2 DEF finishErrored, finishSuspended, finishDelayed, finishCompleted,
                      CommitNow, CommitLater, GoElsewhere, Call, Push
  <2> QED BY <2>1, <2>2, <2>3 DEF ControlOK, OutsideFlush
<1> QED
  BY <1>1, <1>2, <1>3, <1>4, <1>5 DEF Unit

\* Flushes, commits and returns.
LEMMA ReturnControl ==
    ASSUME ControlOK,
           \/ endEvent \/ endPassive \/ endCommit \/ endFlush \/ performSyncWorkOnRoot
           \/ flushPassiveFirst \/ nothingToCommit \/ commitRootImpl
           \/ exitRoot \/ returnToScheduler
    PROVE  ControlOK'
<1>1. ASSUME endEvent \/ endPassive \/ endCommit
      PROVE  ControlOK'
  <2>1. pc \in {"event", "passive", "commit"} /\ FlushThenReturn /\ frame' = frame
    BY <1>1 DEF endEvent, endPassive, endCommit
  <2> QED BY <2>1, FlushOrReturn
<1>2. ASSUME endFlush
      PROVE  ControlOK'
  <2>1. pc = "flush" /\ Return /\ ~flushing' /\ frame' = frame
    BY <1>2 DEF endFlush
  <2>2. Base(back)
    BY <2>1 DEF ControlOK, OutsideFlush, InFlush
  <2> QED BY <2>1, <2>2, ReturnFromBase
<1>3. ASSUME performSyncWorkOnRoot
      PROVE  ControlOK'
  <2>1. pc = "flush" /\ UNCHANGED <<frame, flushing>>
    BY <1>3 DEF performSyncWorkOnRoot
  <2>2. flushing /\ Base(back)
    BY <2>1 DEF ControlOK, OutsideFlush, InFlush
  <2>3. \/ pc' = "begin" /\ back' = back
        \/ pc' = "passive" /\ back' = Push("begin", back)
    BY <1>3 DEF performSyncWorkOnRoot, Call, Push
  <2>4. \A b : b = back => Base(b)'
    BY <2>1, <2>2 DEF Base
  <2> QED BY <2>1, <2>2, <2>3, <2>4 DEF ControlOK, InFlush
<1>4. ASSUME flushPassiveFirst
      PROVE  ControlOK'
  <2>1. /\ pc = "commitRoot" /\ UNCHANGED <<frame, flushing>>
        /\ pc' = "passive" /\ back' = Push("commitRoot", back)
    BY <1>4 DEF flushPassiveFirst, Call, Push, hostVars
  <2>2. CASE flushing
    <3>1. PICK b : Base(b) /\ back = Push("tail", b)
      BY <2>1, <2>2 DEF ControlOK, InFlush
    <3>2. Base(b)'
      BY <2>1, <3>1 DEF Base
    <3> QED BY <2>1, <2>2, <3>1, <3>2 DEF ControlOK, InFlush
  <2>3. CASE ~flushing
    <3>1. \/ back = Push("idle", <<>>) /\ frame = NoFrame
          \/ back = Push("tail", <<>>) /\ frame.time # NoWork
      BY <2>1, <2>3 DEF ControlOK, OutsideFlush
    <3>2. Base(back)'
      BY <2>1, <3>1 DEF Base, FromIdle, FromTask
    <3> QED BY <2>1, <2>3, <3>2 DEF ControlOK, OutsideFlush
  <2> QED BY <2>2, <2>3
<1>5. ASSUME nothingToCommit
      PROVE  ControlOK'
  <2>1. pc = "commitRoot" /\ Return /\ UNCHANGED <<frame, flushing>>
    BY <1>5 DEF nothingToCommit, hostVars
  <2>2. CASE flushing
    <3>1. PICK b : Base(b) /\ back = Push("tail", b)
      BY <2>1, <2>2 DEF ControlOK, InFlush
    <3>2. b \in Seq(Places)
      BY <3>1, BasesAreStacks DEF Base
    <3>3. pc' = "tail" /\ back' = b
      BY <2>1, <3>1, <3>2, PlacesToReturnTo, PushPop DEF Return
    <3>4. Base(b)'
      BY <2>1, <3>1 DEF Base
    <3> QED BY <2>1, <2>2, <3>3, <3>4 DEF ControlOK, InFlush
  <2>3. CASE ~flushing
    <3>1. Base(back)
      BY <2>1, <2>3 DEF ControlOK, OutsideFlush, Base, FromIdle, FromTask
    <3> QED BY <2>1, <2>3, <3>1, ReturnFromBase
  <2> QED BY <2>2, <2>3
<1>6. ASSUME commitRootImpl
      PROVE  ControlOK'
  <2>1. pc = "commitRoot" /\ pc' = "commit" /\ UNCHANGED <<back, frame, flushing>>
    BY <1>6 DEF commitRootImpl, hostVars
  <2> QED BY <2>1 DEF ControlOK, OutsideFlush, InFlush, Base
<1>7. ASSUME exitRoot
      PROVE  ControlOK'
  <2>1. pc = "tail" /\ UNCHANGED <<back, frame, flushing>>
    BY <1>7 DEF exitRoot
  <2>2. pc' = IF flushing THEN "flush" ELSE "return"
    BY <1>7 DEF exitRoot
  <2> QED BY <2>1, <2>2 DEF ControlOK, OutsideFlush, InFlush, Base
<1>8. ASSUME returnToScheduler
      PROVE  ControlOK'
  <2>1. pc = "return" /\ pc' = "idle" /\ frame' = NoFrame /\ UNCHANGED <<back, flushing>>
    BY <1>8 DEF returnToScheduler
  <2> QED BY <2>1 DEF ControlOK, OutsideFlush, InFlush
<1> QED
  BY <1>1, <1>2, <1>3, <1>4, <1>5, <1>6, <1>7, <1>8

LEMMA ControlStep == ControlOK /\ [Next]_vars => ControlOK'
<1> SUFFICES ASSUME ControlOK, [Next]_vars PROVE ControlOK'
  OBVIOUS
<1>1. CASE UNCHANGED vars
  BY <1>1, ThreadStays DEF vars, thread, control, hostVars
<1>2. ASSUME NEW u \in Updates, load(u) \/ Listener(u)
      PROVE  ControlOK'
  BY <1>2, ThreadStays DEF load, Listener, pingSuspendedRoot, retryTimedOutBoundary, thread, control, hostVars
<1> QED
  BY <1>1, <1>2, HostControl, RenderControl, ReturnControl DEF Next, Thread

-----------------------------------------------------------------------------
(* What the variables hold, and what is built on what.  The level of a     *)
(* render is never NoWork: markRootSuspendedAtTime would open a range at   *)
(* NoWork.  That rests on ControlOK: frame.time is a level when a task     *)
(* begins to render.                                                       *)

Statuses == {"incomplete", "suspended", "delayed", "errored", "completed"}
Renders == [time : Marks, status : Statuses, todo : SUBSET Updates, base : SUBSET Updates,
            included : SUBSET Updates, fallback : SUBSET Updates, news : BOOLEAN,
            next : Marks, pinged : BOOLEAN]
Finished == [time : Marks, tree : SUBSET Updates, fallback : SUBSET Updates]

Timed(T) == \A k \in T : k.time \in Marks
HostOK == Timed(tasks) /\ Timed({frame.task}) /\ frame.time \in Marks
TreeOK == level \in [Updates -> Marks] /\ tree \subseteq Updates /\ hidden \subseteq Updates
PingsOK == \A p \in pings : p[2] \in Marks
WorkOK == /\ wip \in Renders /\ finished \in Finished
          /\ pc \in {"render", "finish"} => Rendering
\* A render includes the tree that it may replace, and so does what it leaves.
BuiltOnTree == /\ Rendering => tree \subseteq wip.base
               /\ finished # None => tree \subseteq finished.tree

Data == RootOK(root) /\ HostOK /\ TreeOK /\ PingsOK /\ WorkOK /\ BuiltOnTree
Inv == Data /\ ControlOK

LEMMA RemainingMark ==
    ASSUME TreeOK, NEW done
    PROVE  Remaining(done) \in Marks
  BY RemainingIsAMark DEF TreeOK

LEMMA FreshRenderOK ==
    ASSUME TreeOK, NEW t \in Marks
    PROVE  FreshRender(t) \in Renders /\ FreshRender(t).time = t /\ FreshRender(t).base = tree
  BY MarksAreNumbers DEF TreeOK, FreshRender, Renders, Statuses

LEMMA NothingBegun == NoRender \in Renders /\ NoRender.time = NoWork /\ None \in Finished
  BY MarksAreNumbers DEF NoRender, Renders, Statuses, None, Finished

\* ensureRootIsScheduled schedules at a level of the root.
LEMMA EnsureOK ==
    ASSUME NEW r, RootOK(r), NEW T, Timed(T), ensureRootIsScheduled(r, T)
    PROVE  root' = r /\ RootOK(root)' /\ Timed(tasks')
<1> DEFINE next == getNextRootExpirationTimeToWorkOn(r)
<1>1. root' = r /\ RootOK(root)'
  BY DEF ensureRootIsScheduled, RootOK
<1>2. next \in Marks
  BY NextIsAMark
<1>3. \/ tasks' = T
      \/ tasks' = {k \in T : k.node # callback.node}
      \/ scheduleCallback(next, T)
  BY DEF ensureRootIsScheduled
<1>4. scheduleCallback(next, T) => Timed(tasks')
  BY <1>2 DEF scheduleCallback, Timed
<1> QED
  BY <1>1, <1>3, <1>4 DEF Timed

\* An update marks the root, the tree and the render in progress.
LEMMA MarkOK ==
    ASSUME RootOK(root), HostOK, TreeOK, WorkOK, NEW u \in Updates, NEW t \in Marks,
           markUpdateTimeFromFiberToRoot(u, t)
    PROVE  /\ RootOK(root)' /\ Timed(tasks') /\ level' \in [Updates -> Marks]
           /\ wip' \in Renders /\ wip'.time = wip.time /\ wip'.base = wip.base
<1> DEFINE r == IF Rendering /\ wip.status = "delayed"
                THEN markRootSuspendedAtTime(root, wip.time) ELSE root
<1>1. wip.time \in Marks
  BY DEF WorkOK, Renders
<1>2. RootOK(r)
  BY <1>1, SuspendedOK DEF Rendering
<1> HIDE DEF r
<1>3. RootOK(markRootUpdatedAtTime(r, t))
  BY <1>2, UpdatedOK
<1>4. ensureRootIsScheduled(markRootUpdatedAtTime(r, t), tasks)
  BY DEF markUpdateTimeFromFiberToRoot, r
<1>5. RootOK(root)' /\ Timed(tasks')
  BY <1>3, <1>4, EnsureOK DEF HostOK
<1>6. level' \in [Updates -> Marks]
  BY HigherIsAMark DEF TreeOK, markUpdateTimeFromFiberToRoot
<1>7. wip' \in Renders /\ wip'.time = wip.time /\ wip'.base = wip.base
  <2>1. CASE Rendering
    <3>1. PICK met \in {{}, {u}} :
              wip' = [wip EXCEPT !.next = Higher(@, t),
                                 !.todo = IF t >= wip.time THEN @ \union met ELSE @]
      BY <2>1 DEF markUpdateTimeFromFiberToRoot
    <3> DEFINE n == Higher(wip.next, t)
               todo == IF t >= wip.time THEN wip.todo \union met ELSE wip.todo
    <3>2. n \in Marks /\ todo \in SUBSET Updates
      BY HigherIsAMark DEF WorkOK, Renders
    <3>3. wip' = [wip EXCEPT !.next = n, !.todo = todo]
      BY <3>1 DEF WorkOK, Renders
    <3> HIDE DEF n, todo
    <3> QED BY <3>2, <3>3 DEF WorkOK, Renders
  <2>2. CASE ~Rendering
    BY <2>2 DEF markUpdateTimeFromFiberToRoot, WorkOK
  <2> QED BY <2>1, <2>2
<1> QED
  BY <1>5, <1>6, <1>7

LEMMA InitData == Init => Data
<1> SUFFICES ASSUME Init PROVE Data
  OBVIOUS
<1>1. RootOK(root)
  BY NewRootOK DEF Init
<1>2. HostOK /\ PingsOK
  BY MarksAreNumbers DEF Init, HostOK, Timed, PingsOK, NoFrame, NoCallback
<1>3. TreeOK
  BY MarksAreNumbers DEF Init, TreeOK
<1>4. WorkOK /\ BuiltOnTree
  BY NothingBegun DEF Init, WorkOK, BuiltOnTree, Rendering
<1> QED
  BY <1>1, <1>2, <1>3, <1>4 DEF Data

LEMMA DataStays == ASSUME Data, UNCHANGED vars PROVE Data'
<1> USE DEF vars, rootVars, hostVars, treeVars, dataVars, control
<1>1. RootOK(root)' /\ HostOK'
  BY DEF Data, HostOK, Timed, RootOK
<1>2. TreeOK' /\ PingsOK'
  BY DEF Data, TreeOK, PingsOK
<1>3. WorkOK' /\ BuiltOnTree'
  BY DEF Data, WorkOK, BuiltOnTree, Rendering
<1> QED
  BY <1>1, <1>2, <1>3 DEF Data

LEMMA NewLevel ==
    ASSUME WorkOK, NEW l \in Levels
    PROVE  computeExpirationForFiber(l) \in Marks
<1>1. l \in Marks /\ l - 1 \in Marks
  BY LevelsAssumption, MarkBounds, MarksAreNumbers DEF Idle
<1>2. wip.time \in Marks
  BY DEF WorkOK, Renders
<1> QED
  BY <1>1, <1>2 DEF computeExpirationForFiber

\* Updates and retries.
LEMMA UpdateData ==
    ASSUME Data, NEW u \in Updates, NEW l \in Levels,
           \/ scheduleUpdateOnFiber(u, l)
           \/ retryTimedOutBoundary(u, l)
    PROVE  Data'
<1> DEFINE t == computeExpirationForFiber(l)
<1>1. t \in Marks
  BY NewLevel DEF Data
<1>2. markUpdateTimeFromFiberToRoot(u, t)
  BY DEF scheduleUpdateOnFiber, retryTimedOutBoundary
<1> HIDE DEF t
<1>3. /\ RootOK(root)' /\ Timed(tasks') /\ level' \in [Updates -> Marks]
      /\ wip' \in Renders /\ wip'.time = wip.time /\ wip'.base = wip.base
  BY <1>1, <1>2, MarkOK DEF Data
<1>4. /\ UNCHANGED <<finished, frame, tree, hidden, pings>>
      /\ pc' = pc \/ pc' = "event"
  BY DEF scheduleUpdateOnFiber, retryTimedOutBoundary, dataVars, control, Call
<1>5. HostOK' /\ TreeOK' /\ PingsOK'
  BY <1>3, <1>4 DEF Data, HostOK, Timed, TreeOK, PingsOK
<1>6. WorkOK' /\ BuiltOnTree'
  BY <1>3, <1>4 DEF Data, WorkOK, BuiltOnTree, Rendering
<1> QED
  BY <1>3, <1>5, <1>6 DEF Data

\* The thread returns to one of four places, none of them inside a render.
LEMMA ReturnPlace ==
    ASSUME ControlOK, pc \in {"event", "passive", "flush", "commitRoot", "commit"}, Return
    PROVE  pc' \in Places
<1>1. <<>> \in Seq(Places) /\ \A b \in FromIdle \union FromTask : b \in Seq(Places)
  BY BasesAreStacks
<1>2. /\ Push("idle", <<>>) \in Seq(Places) /\ Push("tail", <<>>) \in Seq(Places)
  BY <1>1, PlacesToReturnTo, PushPop
<1>3. ASSUME NEW p \in Places, NEW q \in Seq(Places), back = Push(p, q)
      PROVE  pc' \in Places
  BY <1>3, PushPop DEF Return
<1>4. ASSUME NEW b, Base(b), back = b
      PROVE  pc' \in Places
  <2>1. \E p \in Places, q \in Seq(Places) : b = Push(p, q)
    BY <1>1, <1>2, <1>4, PlacesToReturnTo DEF Base, FromIdle, FromTask
  <2> QED BY <1>3, <1>4, <2>1
<1>5. CASE flushing
  <2>1. PICK b : Base(b) /\ InFlush(b)
    BY <1>5 DEF ControlOK
  <2>2. b \in Seq(Places) /\ Push("tail", b) \in Seq(Places)
    BY <1>1, <2>1, PlacesToReturnTo, PushPop DEF Base
  <2>3. CASE back = b
    BY <1>4, <2>1, <2>3
  <2>4. CASE back = Push("begin", b) \/ back = Push("tail", b)
    BY <1>3, <2>2, <2>4, PlacesToReturnTo
  <2>5. CASE back = Push("commitRoot", Push("tail", b))
    BY <1>3, <2>2, <2>5, PlacesToReturnTo
  <2> QED BY <2>1, <2>3, <2>4, <2>5 DEF InFlush
<1>6. CASE ~flushing
  <2>1. Base(back) \/ back = Push("idle", <<>>) \/ back = Push("tail", <<>>)
    BY <1>6 DEF ControlOK, OutsideFlush
  <2> QED BY <1>1, <1>3, <1>4, <2>1, PlacesToReturnTo
<1> QED
  BY <1>5, <1>6

\* Tasks, timeouts, flushes and returns: they touch neither tree nor render.
LEMMA HostData ==
    ASSUME Data, ControlOK,
           \/ \E k \in tasks : \E c \in Levels \union {k.time} : taskTimedOut(k, c)
           \/ HostTask
           \/ endEvent \/ endPassive \/ endFlush \/ performSyncWorkOnRoot
           \/ flushPassiveFirst \/ nothingToCommit \/ endCommit \/ exitRoot \/ returnToScheduler
    PROVE  Data'
<1>1. /\ UNCHANGED <<finished, wip, tree, hidden, level, pings>>
      /\ pc' = pc \/ pc' \notin {"render", "finish"}
  <2>1. CASE \E k \in tasks : \E c \in Levels \union {k.time} : taskTimedOut(k, c)
    BY <2>1 DEF taskTimedOut, control, treeVars, dataVars
  <2>2. CASE HostTask
    BY <2>2 DEF HostTask, RunTask, performConcurrentWorkOnRoot, flushTask, passiveTask,
                commitTimeout, Call, rootVars, treeVars, dataVars
  <2>3. CASE performSyncWorkOnRoot
    BY <2>3 DEF performSyncWorkOnRoot, Call, rootVars, treeVars, dataVars
  <2>4. CASE endCommit
    <3>1. UNCHANGED <<finished, wip, tree, hidden, level, pings>>
      BY <2>4 DEF endCommit, treeVars, dataVars
    <3>2. pc' = "flush" \/ pc' \in Places
      BY <2>4, ReturnPlace DEF endCommit, FlushThenReturn
    <3> QED BY <3>1, <3>2 DEF Places
  <2>5. CASE endEvent \/ endPassive \/ endFlush \/ nothingToCommit
    <3>1. UNCHANGED <<finished, wip, tree, hidden, level, pings>>
      BY <2>5 DEF endEvent, endPassive, endFlush, nothingToCommit, rootVars, treeVars, dataVars
    <3>2. pc' = "flush" \/ pc' \in Places
      BY <2>5, ReturnPlace DEF endEvent, endPassive, endFlush, nothingToCommit, FlushThenReturn
    <3> QED BY <3>1, <3>2 DEF Places
  <2>6. CASE flushPassiveFirst \/ exitRoot \/ returnToScheduler
    BY <2>6 DEF flushPassiveFirst, exitRoot, returnToScheduler,
                Call, rootVars, treeVars, dataVars
  <2> QED BY <2>1, <2>2, <2>3, <2>4, <2>5, <2>6
<1>2. TreeOK' /\ PingsOK' /\ WorkOK' /\ BuiltOnTree'
  BY <1>1 DEF Data, TreeOK, PingsOK, WorkOK, BuiltOnTree, Rendering
<1>3. RootOK(root)' /\ HostOK'
  <2>1. ASSUME NEW r, RootOK(r), NEW T, Timed(T), ensureRootIsScheduled(r, T), frame' = frame
        PROVE  RootOK(root)' /\ HostOK'
    BY <2>1, EnsureOK DEF Data, HostOK
  <2>2. ASSUME NEW k \in tasks, NEW c \in Levels \union {k.time}, taskTimedOut(k, c)
        PROVE  RootOK(root)' /\ HostOK'
    <3>1. c \in Marks
      BY MarksAreNumbers DEF Data, HostOK, Timed
    <3>2. RootOK(markRootExpiredAtTime(root, c)) /\ Timed(tasks \ {k})
      BY <3>1, ExpiredOK DEF Data, HostOK, Timed
    <3> QED BY <2>1, <2>2, <3>2 DEF taskTimedOut, control
  <2>3. ASSUME NEW k \in tasks, performConcurrentWorkOnRoot(k)
        PROVE  RootOK(root)' /\ HostOK'
    <3>1. root' = root /\ tasks' = tasks \ {k} /\ k.time \in Marks
      BY <2>3 DEF performConcurrentWorkOnRoot, rootVars, Data, HostOK, Timed
    <3>2. \/ frame' = frame
          \/ frame'.task = k /\ frame'.time = getNextRootExpirationTimeToWorkOn(root)
      BY <2>3 DEF performConcurrentWorkOnRoot
    <3>3. getNextRootExpirationTimeToWorkOn(root) \in Marks
      BY NextIsAMark DEF Data
    <3> QED BY <3>1, <3>2, <3>3 DEF Data, HostOK, Timed, RootOK
  <2>4. CASE endCommit \/ exitRoot
    <3>1. ensureRootIsScheduled(root, tasks) /\ frame' = frame
      BY <2>4 DEF endCommit, exitRoot
    <3> QED BY <2>1, <3>1 DEF Data, HostOK
  <2>5. CASE returnToScheduler
    <3>1. root' = root /\ tasks' \subseteq tasks \union {frame.task} /\ frame' = NoFrame
      BY <2>5 DEF returnToScheduler, rootVars
    <3> QED BY <3>1, MarksAreNumbers DEF Data, HostOK, Timed, RootOK, NoFrame, NoCallback
  <2>6. CASE \/ flushTask \/ passiveTask \/ commitTimeout \/ endEvent \/ endPassive
             \/ endFlush \/ performSyncWorkOnRoot \/ flushPassiveFirst \/ nothingToCommit
    <3>1. UNCHANGED <<root, tasks, frame>>
      BY <2>6 DEF flushTask, passiveTask, commitTimeout, endEvent, endPassive, endFlush,
                  performSyncWorkOnRoot, flushPassiveFirst, nothingToCommit, rootVars, hostVars
    <3> QED BY <3>1 DEF Data, HostOK, Timed, RootOK
  <2> QED BY <2>2, <2>3, <2>4, <2>5, <2>6 DEF HostTask, RunTask
<1> QED
  BY <1>2, <1>3 DEF Data

\* Units of work.
LEMMA UnitData ==
    ASSUME Data, NEW u \in Updates, renderUnit(u) \/ suspendUnit(u) \/ throwUnit(u) \/ skipUnit(u)
    PROVE  Data'
<1>1. /\ UNCHANGED <<tasks, frame, finished, tree, hidden, level, pc>>
      /\ pc = "render" /\ Rendering
  BY DEF renderUnit, suspendUnit, throwUnit, skipUnit, rootVars, hostVars, treeVars, control,
         Data, WorkOK
<1>2. wip.time \in Marks /\ wip.time # NoWork /\ wip \in Renders
  BY <1>1 DEF Rendering, Data, WorkOK, Renders
<1> DEFINE v == Visited(u)
<1>3. v \in Renders /\ v.time = wip.time /\ v.base = wip.base
  <2>1. (wip.news \/ (u \notin hidden /\ Idle < level[u] /\ level[u] < Sync)) \in BOOLEAN
    OBVIOUS
  <2> QED BY <1>2, <2>1 DEF Visited, Renders
<1> HIDE DEF v
<1>4. wip' \in Renders /\ wip'.time = wip.time /\ wip'.base = wip.base
  <2>1. CASE renderUnit(u)
    <3>1. wip' = [v EXCEPT !.included = @ \union {u}]
      BY <2>1 DEF renderUnit, v
    <3> QED BY <1>3, <3>1 DEF Renders
  <2>2. CASE suspendUnit(u)
    <3> DEFINE w == [v EXCEPT !.fallback = @ \union {u}]
    <3>1. w \in Renders /\ w.time = wip.time /\ w.base = wip.base
      BY <1>3 DEF Renders
    <3>2. \/ wip' = w
          \/ wip' = [w EXCEPT !.status = IF @ = "incomplete" THEN "suspended" ELSE @]
          \/ wip' = [w EXCEPT !.status = IF @ \in {"incomplete", "suspended"} THEN "delayed" ELSE @]
      BY <2>2 DEF suspendUnit, v
    <3> HIDE DEF w
    <3> QED BY <3>1, <3>2 DEF Renders, Statuses
  <2>3. CASE throwUnit(u)
    <3>1. wip' = [v EXCEPT !.status = "errored"]
      BY <2>3 DEF throwUnit, v
    <3> QED BY <1>3, <3>1 DEF Renders, Statuses
  <2>4. CASE skipUnit(u)
    <3>1. wip' = [wip EXCEPT !.next = level[u]] /\ level[u] \in Marks
      BY <2>4 DEF skipUnit, Data, TreeOK
    <3> QED BY <1>2, <3>1 DEF Renders
  <2> QED BY <2>1, <2>2, <2>3, <2>4
<1>5. RootOK(root)'
  <2>1. CASE root' = root
    BY <2>1 DEF Data, RootOK
  <2>2. CASE suspendUnit(u) /\ root' # root
    <3> DEFINE w == [v EXCEPT !.fallback = @ \union {u}]
               r == markRootSuspendedAtTime(root, w.time)
    <3>1. w.time = wip.time /\ w.next \in Marks
      BY <1>3 DEF Renders
    <3>2. root' = markRootUpdatedAtTime(r, w.next)
      BY <2>2 DEF suspendUnit, v
    <3> HIDE DEF w
    <3>3. RootOK(r)
      BY <1>2, <3>1, SuspendedOK DEF Data
    <3> HIDE DEF r
    <3> QED BY <3>1, <3>2, <3>3, UpdatedOK DEF RootOK
  <2>3. CASE ~suspendUnit(u)
    BY <2>3 DEF renderUnit, throwUnit, skipUnit, rootVars, Data, RootOK
  <2> QED BY <2>1, <2>2, <2>3
<1>6. PingsOK'
  <2>1. pings' \subseteq pings \union {<<u, wip.time>>}
    BY DEF renderUnit, suspendUnit, throwUnit, skipUnit, dataVars
  <2> QED BY <1>2, <2>1 DEF Data, PingsOK
<1>7. HostOK' /\ TreeOK'
  BY <1>1 DEF Data, HostOK, Timed, TreeOK
<1>8. WorkOK' /\ BuiltOnTree'
  BY <1>1, <1>4 DEF Data, WorkOK, BuiltOnTree, Rendering
<1> QED
  BY <1>5, <1>6, <1>7, <1>8 DEF Data

\* A render begins, or goes on.
LEMMA BeginData == ASSUME Data, ControlOK, begin PROVE Data'
<1> DEFINE t == IF ~flushing THEN frame.time
                ELSE IF root.lastExpiredTime # NoWork THEN root.lastExpiredTime
                ELSE Sync
<1>1. t \in Marks /\ t # NoWork
  <2>1. ~flushing => frame.time # NoWork
    BY DEF begin, ControlOK, OutsideFlush
  <2>2. frame.time \in Marks /\ root.lastExpiredTime \in Marks
    BY DEF Data, HostOK, RootOK, Roots
  <2>3. Sync # NoWork
    BY LevelsAssumption DEF NoWork, Idle
  <2> QED BY <2>1, <2>2, <2>3, MarksAreNumbers
<1>2. /\ UNCHANGED <<root, tasks, frame, tree, hidden, level, pings>>
      /\ IF Rendering /\ wip.time = t THEN UNCHANGED <<finished, timer, wip>>
         ELSE prepareFreshStack(t)
  BY DEF begin, hostVars, treeVars, dataVars
<1>3. FreshRender(t) \in Renders /\ FreshRender(t).time = t /\ FreshRender(t).base = tree
  BY <1>1, FreshRenderOK DEF Data
<1> HIDE DEF t
<1>4. RootOK(root)' /\ HostOK' /\ TreeOK' /\ PingsOK'
  BY <1>2 DEF Data, RootOK, HostOK, Timed, TreeOK, PingsOK
<1>5. WorkOK' /\ BuiltOnTree'
  <2>1. CASE Rendering /\ wip.time = t
    BY <1>2, <2>1 DEF Data, WorkOK, BuiltOnTree, Rendering
  <2>2. CASE ~(Rendering /\ wip.time = t)
    <3>1. wip' = FreshRender(t) /\ finished' = None
      BY <1>2, <2>2 DEF prepareFreshStack
    <3> QED BY <1>1, <1>2, <1>3, <3>1, NothingBegun DEF WorkOK, BuiltOnTree, Rendering
  <2> QED BY <2>1, <2>2
<1> QED
  BY <1>4, <1>5 DEF Data

\* A render pauses or comes to its end.
LEMMA CompleteData == ASSUME Data, complete \/ yield PROVE Data'
<1>1. /\ UNCHANGED <<root, tasks, frame, tree, hidden, level, pings>>
      /\ pc = "render" /\ Rendering
  BY DEF complete, yield, rootVars, hostVars, treeVars, dataVars, Data, WorkOK
<1>2. RootOK(root)' /\ HostOK' /\ TreeOK' /\ PingsOK'
  BY <1>1 DEF Data, RootOK, HostOK, Timed, TreeOK, PingsOK
<1>3. CASE yield
  <2>1. pc' = "tail" /\ UNCHANGED <<finished, wip>>
    BY <1>3 DEF yield, rootVars
  <2> QED BY <1>1, <1>2, <2>1 DEF Data, WorkOK, BuiltOnTree, Rendering
<1>4. CASE complete
  <2>1. finished' = [time |-> wip.time, tree |-> wip.base \union wip.included,
                     fallback |-> wip.fallback]
    BY <1>4 DEF complete
  <2>2. finished' \in Finished /\ tree' \subseteq finished'.tree
    BY <1>1, <2>1 DEF Data, WorkOK, BuiltOnTree, Renders, Finished
  <2>3. \/ pc' = "commitRoot" /\ wip' = NoRender
        \/ pc' = "finish" /\ wip' = [wip EXCEPT !.status = IF @ = "incomplete" THEN "completed" ELSE @]
    BY <1>4 DEF complete, Call
  <2>4. CASE pc' = "commitRoot" /\ wip' = NoRender
    BY <1>2, <2>2, <2>4, NothingBegun DEF Data, WorkOK, BuiltOnTree, Rendering
  <2>5. CASE pc' = "finish" /\ wip' = [wip EXCEPT !.status = IF @ = "incomplete" THEN "completed" ELSE @]
    <3>1. wip' \in Renders /\ wip'.time = wip.time /\ wip'.base = wip.base
      BY <2>5 DEF Data, WorkOK, Renders, Statuses
    <3> QED BY <1>1, <1>2, <2>2, <3>1 DEF Data, WorkOK, BuiltOnTree, Rendering
  <2> QED BY <2>3, <2>4, <2>5
<1> QED
  BY <1>3, <1>4

\* finishConcurrentRender commits, waits, or goes elsewhere.
LEMMA FinishWork ==
    ASSUME Data, NEW r, RootOK(r), pc = "finish",
           \/ CommitNow(r) \/ CommitLater(r) \/ GoElsewhere(r)
           \/ root' = r /\ wip' = NoRender /\ pc' = "tail" /\ UNCHANGED finished,
           UNCHANGED <<tasks, frame, tree, hidden, level, pings>>
    PROVE  Data'
<1>1. Rendering /\ wip.time \in Marks
  BY DEF Data, WorkOK, Renders
<1>2. /\ pc' \in {"tail", "commitRoot"}
      /\ \/ wip' = NoRender /\ finished' = finished
         \/ wip' = FreshRender(wip.time) /\ finished' = None
  BY DEF CommitNow, CommitLater, GoElsewhere, prepareFreshStack, Call
<1>3. RootOK(root)'
  <2>1. r.lastSuspendedTime \in Marks
    BY DEF RootOK, Roots
  <2>2. \/ root' = r
        \/ root' = [r EXCEPT !.lastPingedTime = wip.time]
        \/ root' = [r EXCEPT !.lastPingedTime = r.lastSuspendedTime]
    BY DEF CommitNow, CommitLater, GoElsewhere
  <2> QED BY <1>1, <2>1, <2>2, PingedOK DEF RootOK
<1>4. HostOK' /\ TreeOK' /\ PingsOK'
  BY DEF Data, HostOK, Timed, TreeOK, PingsOK
<1>5. WorkOK' /\ BuiltOnTree'
  <2>1. FreshRender(wip.time) \in Renders /\ FreshRender(wip.time).base = tree
    BY <1>1, FreshRenderOK DEF Data
  <2>2. CASE wip' = NoRender /\ finished' = finished
    BY <1>2, <2>2, NothingBegun DEF Data, WorkOK, BuiltOnTree, Rendering
  <2>3. CASE wip' = FreshRender(wip.time) /\ finished' = None
    BY <1>2, <2>1, <2>3, NothingBegun DEF WorkOK, BuiltOnTree
  <2> QED BY <1>2, <2>2, <2>3
<1> QED
  BY <1>3, <1>4, <1>5 DEF Data

LEMMA FinishData ==
    ASSUME Data, finishErrored \/ finishSuspended \/ finishDelayed \/ finishCompleted
    PROVE  Data'
<1>1. pc = "finish" /\ UNCHANGED <<tasks, frame, tree, hidden, level, pings>>
  BY DEF finishErrored, finishSuspended, finishDelayed, finishCompleted, hostVars, treeVars, dataVars
<1>2. wip.time \in Marks /\ wip.time # NoWork
  BY <1>1 DEF Data, WorkOK, Renders, Rendering
<1>3. RootOK(markRootSuspendedAtTime(root, wip.time))
  BY <1>2, SuspendedOK DEF Data
<1>4. RootOK(SuspendedRoot)
  <2>1. FinishedLeaves \in Marks
    BY RemainingMark DEF FinishedLeaves, Data
  <2> QED BY <1>3, <2>1, KnownOK DEF SuspendedRoot
<1>5. CASE finishErrored
  <2> DEFINE t == IF wip.time > Idle THEN Idle ELSE wip.time
  <2>1. t \in Marks
    BY <1>2, MarksAreNumbers
  <2>2. /\ root' = markRootExpiredAtTime(root, t) /\ wip' = NoRender
        /\ pc' = "tail" /\ UNCHANGED finished
    BY <1>5 DEF finishErrored
  <2> HIDE DEF t
  <2>3. RootOK(markRootExpiredAtTime(root, t))
    BY <2>1, ExpiredOK DEF Data
  <2> QED BY <1>1, <2>2, <2>3, FinishWork
<1>6. CASE finishSuspended
  <2>1. CommitNow(SuspendedRoot) \/ GoElsewhere(SuspendedRoot) \/ CommitLater(SuspendedRoot)
    BY <1>6 DEF finishSuspended
  <2> QED BY <1>1, <1>4, <2>1, FinishWork
<1>7. CASE finishDelayed
  <2>1. CommitNow(SuspendedRoot) \/ GoElsewhere(SuspendedRoot) \/ CommitLater(SuspendedRoot)
    BY <1>7 DEF finishDelayed
  <2> QED BY <1>1, <1>4, <2>1, FinishWork
<1>8. CASE finishCompleted
  <2>1. RootOK(root)
    BY DEF Data
  <2>2. CommitNow(root) \/ CommitLater(markRootSuspendedAtTime(root, wip.time))
    BY <1>8 DEF finishCompleted
  <2> QED BY <1>1, <1>3, <2>1, <2>2, FinishWork
<1> QED
  BY <1>5, <1>6, <1>7, <1>8

\* A commit replaces the tree by one that was built on it.
LEMMA CommitData == ASSUME Data, commitRootImpl PROVE Data' /\ tree \subseteq tree'
<1>1. /\ finished # None /\ finished' = None /\ wip' = NoRender /\ pc' = "commit"
      /\ tree' = finished.tree
      /\ hidden' = (hidden \ finished.tree) \union finished.fallback
      /\ level' = [u \in Updates |-> IF u \in finished.tree \union finished.fallback
                                     THEN NoWork ELSE level[u]]
      /\ root' = markRootFinishedAtTime([root EXCEPT !.nextKnownPendingLevel = NoWork],
                                        finished.time, FinishedLeaves)
      /\ UNCHANGED <<tasks, frame, pings>>
  BY DEF commitRootImpl, hostVars
<1>2. /\ finished.time \in Marks /\ finished.tree \subseteq Updates
      /\ finished.fallback \subseteq Updates /\ tree \subseteq finished.tree
  BY <1>1 DEF Data, WorkOK, BuiltOnTree, Finished
<1>3. RootOK(root)'
  <2>1. FinishedLeaves \in Marks
    BY RemainingMark DEF FinishedLeaves, Data
  <2>2. RootOK([root EXCEPT !.nextKnownPendingLevel = NoWork])
    BY KnownOK, MarksAreNumbers DEF Data
  <2>3. RootOK(markRootFinishedAtTime([root EXCEPT !.nextKnownPendingLevel = NoWork],
                                      finished.time, FinishedLeaves))
    BY <1>2, <2>1, <2>2, FinishedOK
  <2> QED BY <1>1, <2>3 DEF RootOK
<1>4. TreeOK'
  BY <1>1, <1>2, MarksAreNumbers DEF Data, TreeOK
<1>5. HostOK' /\ PingsOK'
  BY <1>1 DEF Data, HostOK, Timed, PingsOK
<1>6. WorkOK' /\ BuiltOnTree'
  BY <1>1, NothingBegun DEF WorkOK, BuiltOnTree, Rendering
<1> QED
  BY <1>1, <1>2, <1>3, <1>4, <1>5, <1>6 DEF Data

\* Data comes, and a listener pings the root.
LEMMA PingData ==
    ASSUME Data, NEW u \in Updates,
           load(u) \/ \E t \in Idle .. Sync : pingSuspendedRoot(u, t)
    PROVE  Data'
<1>1. CASE load(u)
  <2>1. UNCHANGED <<root, tasks, frame, finished, wip, tree, hidden, level, pings, pc>>
    BY <1>1 DEF load, rootVars, hostVars, treeVars, control
  <2>2. RootOK(root)' /\ HostOK' /\ TreeOK' /\ PingsOK'
    BY <2>1 DEF Data, RootOK, HostOK, Timed, TreeOK, PingsOK
  <2>3. WorkOK' /\ BuiltOnTree'
    BY <2>1 DEF Data, WorkOK, BuiltOnTree, Rendering
  <2> QED BY <2>2, <2>3 DEF Data
<1>2. ASSUME NEW t \in Idle .. Sync, pingSuspendedRoot(u, t)
      PROVE  Data'
  <2>1. t \in Marks
    BY MarkBounds, MarksAreNumbers DEF Idle
  <2>2. /\ pc = "idle" /\ UNCHANGED <<frame, tree, hidden, level, pc>>
        /\ pings' \subseteq pings
    BY <1>2 DEF pingSuspendedRoot, treeVars, control
  <2>3. RootOK(root)' /\ Timed(tasks')
    <3>1. CASE UNCHANGED <<root, tasks>>
      BY <3>1 DEF Data, RootOK, HostOK, Timed
    <3>2. CASE ensureRootIsScheduled([root EXCEPT !.lastPingedTime = t], tasks)
      <4>1. RootOK([root EXCEPT !.lastPingedTime = t])
        BY <2>1, PingedOK DEF Data
      <4> QED BY <3>2, <4>1, EnsureOK DEF Data, HostOK
    <3> QED BY <1>2, <3>1, <3>2 DEF pingSuspendedRoot, rootVars
  <2>4. HostOK' /\ TreeOK' /\ PingsOK'
    BY <2>2, <2>3 DEF Data, HostOK, Timed, TreeOK, PingsOK
  <2>5. WorkOK' /\ BuiltOnTree'
    <3>1. CASE prepareFreshStack(t)
      <4>1. FreshRender(t) \in Renders /\ FreshRender(t).base = tree
        BY <2>1, FreshRenderOK DEF Data
      <4> QED BY <2>2, <3>1, <4>1, NothingBegun DEF prepareFreshStack, WorkOK, BuiltOnTree
    <3>2. CASE wip' = [wip EXCEPT !.pinged = TRUE] /\ UNCHANGED rootVars
      <4>1. wip' \in Renders /\ wip'.time = wip.time /\ wip'.base = wip.base
        BY <3>2 DEF Data, WorkOK, Renders
      <4> QED BY <2>2, <3>2, <4>1 DEF Data, WorkOK, BuiltOnTree, Rendering, rootVars
    <3>3. CASE UNCHANGED <<finished, wip>>
      BY <2>2, <3>3 DEF Data, WorkOK, BuiltOnTree, Rendering
    <3> QED BY <1>2, <3>1, <3>2, <3>3 DEF pingSuspendedRoot
  <2> QED BY <2>3, <2>4, <2>5 DEF Data
<1> QED
  BY <1>1, <1>2

LEMMA DataStep == Data /\ ControlOK /\ [Next]_vars => Data'
<1> SUFFICES ASSUME Data, ControlOK, [Next]_vars PROVE Data'
  OBVIOUS
<1>1. CASE UNCHANGED vars
  BY <1>1, DataStays
<1>2. ASSUME NEW u \in Updates, NEW l \in Levels, scheduleUpdateOnFiber(u, l)
      PROVE  Data'
  BY <1>2, UpdateData
<1>3. ASSUME NEW u \in Updates, skipUnit(u) \/ load(u) \/ Listener(u)
      PROVE  Data'
  BY <1>3, UnitData, UpdateData, PingData DEF Listener
<1>4. CASE Unit
  BY <1>4, UnitData DEF Unit
<1>5. CASE Thread
  BY <1>5, HostData, BeginData, FinishData, CommitData DEF Thread
<1> QED
  BY <1>1, <1>2, <1>3, <1>4, <1>5, HostData, CompleteData DEF Next

-----------------------------------------------------------------------------
LEMMA Invariance == Spec => []Inv
<1>1. Init => Inv
  BY InitControl, InitData DEF Inv
<1>2. Inv /\ [Next]_vars => Inv'
  BY ControlStep, DataStep DEF Inv
<1> QED
  BY <1>1, <1>2, PTL DEF Spec

\* The marks of the root, of its tasks and of its renders are levels, and the
\* suspended levels are a range whatever the order of updates, suspended
\* renders, pings, expirations and commits: no narrowing in ReactFiberRoot.js
\* leaves first below last, and no level NoWork is ever marked as suspended.
THEOREM Typing == Spec => []TypeOK
<1>1. Inv => TypeOK
  <2> SUFFICES ASSUME Inv PROVE TypeOK
    OBVIOUS
  <2>1. root \in Roots(Marks) /\ RangeOK(root)
    BY DEF Inv, Data, RootOK
  <2>2. /\ wip.time \in Marks /\ wip.next \in Marks
        /\ wip.todo \subseteq Updates /\ wip.base \subseteq Updates
        /\ wip.included \subseteq Updates /\ wip.fallback \subseteq Updates
    BY DEF Inv, Data, WorkOK, Renders
  <2>3. /\ finished.time \in Marks /\ finished.tree \subseteq Updates
        /\ finished.fallback \subseteq Updates
    BY DEF Inv, Data, WorkOK, Finished
  <2>4. /\ level \in [Updates -> Marks] /\ tree \subseteq Updates /\ hidden \subseteq Updates
        /\ \A p \in pings : p[2] \in Marks
    BY DEF Inv, Data, TreeOK, PingsOK
  <2>5. (\A k \in tasks \union {frame.task} : k.time \in Marks) /\ frame.time \in Marks
    BY DEF Inv, Data, HostOK, Timed
  <2> QED BY <2>1, <2>2, <2>3, <2>4, <2>5 DEF TypeOK
<1> QED
  BY <1>1, Invariance, PTL

\* No commit takes back what an earlier commit showed: a render is built on the
\* current tree, and every way in which the tree changes under a render, a
\* finished render or a waiting timeout throws these away.
THEOREM NothingIsEverUnshown == Spec => NothingIsUnshown
<1>1. Inv /\ [Next]_vars => [tree \subseteq tree']_vars
  <2> SUFFICES ASSUME Inv, Next PROVE tree \subseteq tree'
    OBVIOUS
  <2>1. CASE commitRootImpl
    BY <2>1, CommitData DEF Inv
  <2>2. CASE ~commitRootImpl
    <3>1. tree' = tree
      BY <2>2 DEF Next, HostTask, RunTask, Unit, Thread, Listener, scheduleUpdateOnFiber, taskTimedOut,
         performConcurrentWorkOnRoot, flushTask, passiveTask, commitTimeout, renderUnit, suspendUnit,
         throwUnit, complete, yield, endEvent, endPassive, endFlush, performSyncWorkOnRoot, begin,
         finishErrored, finishSuspended, finishDelayed, finishCompleted, flushPassiveFirst,
         nothingToCommit, endCommit, exitRoot, returnToScheduler, skipUnit, load,
         pingSuspendedRoot, retryTimedOutBoundary, treeVars
    <3> QED BY <3>1
  <2> QED BY <2>1, <2>2
<1> QED
  BY <1>1, Invariance, PTL DEF Spec, NothingIsUnshown

-----------------------------------------------------------------------------
(* A new task has a node that is none of the nodes in use, and not null    *)
(* nor the fake node, because only finitely many are in use.               *)

LEMMA LeastNumber ==
    ASSUME NEW S \in SUBSET Nat, S # {}
    PROVE  \E n \in S : \A m \in S : n <= m
<1>1. PICK n \in S : \A m \in S : ~ (<<m, n>> \in OpToRel(<, Nat))
  BY NatLessThanWellFounded, WFMin
<1>2. \A m \in S : ~(m < n)
  BY <1>1 DEF OpToRel
<1> QED
  BY <1>2

LEMMA NodesAreFinite ==
    ASSUME NEW T, IsFiniteSet(T)
    PROVE  IsFiniteSet({k.node : k \in T})
<1> DEFINE nodes == {k.node : k \in T}
           f == [k \in T |-> k.node]
<1>1. f \in Surjection(T, nodes)
  BY DEF Surjection
<1> QED
  BY <1>1, FS_Surjection

LEMMA FreeNumber ==
    ASSUME NEW S, IsFiniteSet(S), NEW a \in Nat
    PROVE  (a .. a + Cardinality(S)) \ S # {}
<1>1. Cardinality(S) \in Nat
  BY FS_CardinalityType
<1>2. /\ IsFiniteSet(a .. a + Cardinality(S))
      /\ Cardinality(a .. a + Cardinality(S)) = Cardinality(S) + 1
  <2>1. a + Cardinality(S) \in Int /\ a \in Int /\ ~(a > a + Cardinality(S))
    BY <1>1
  <2>2. Cardinality(a .. a + Cardinality(S)) = (a + Cardinality(S)) - a + 1
    BY <2>1, FS_Interval
  <2> QED BY <1>1, <2>1, <2>2, FS_Interval
<1>3. SUFFICES ASSUME a .. a + Cardinality(S) \subseteq S PROVE FALSE
  OBVIOUS
<1>4. Cardinality(a .. a + Cardinality(S)) <= Cardinality(S)
  BY <1>3, FS_Subset
<1> QED
  BY <1>1, <1>2, <1>4

LEMMA NewTask ==
    ASSUME NEW t, NEW T, IsFiniteSet(T), scheduleCallback(t, T)
    PROVE  /\ callback' \in tasks' /\ callback'.node \notin {Null, Fake}
           /\ IsFiniteSet(tasks')
<1> DEFINE used == {k.node : k \in T} \union {callback.node, frame.node, frame.task.node}
           free == (Fake + 1 .. Fake + 1 + Cardinality(used)) \ used
           node == CHOOSE n \in free : \A m \in free : n <= m
           task == [node |-> node, time |-> t]
           rest == {k \in T : k.node # callback.node}
<1>1. IsFiniteSet(used)
  <2>1. IsFiniteSet({callback.node} \union {frame.node} \union {frame.task.node})
    BY FS_Singleton, FS_Union
  <2>2. {callback.node, frame.node, frame.task.node}
            = {callback.node} \union {frame.node} \union {frame.task.node}
    OBVIOUS
  <2> QED BY <2>1, <2>2, NodesAreFinite, FS_Union
<1>2. free # {}
  <2> HIDE DEF used
  <2> QED BY <1>1, FreeNumber DEF Fake
<1>3. free \subseteq Nat /\ \A n \in free : n > Fake
  <2>1. Cardinality(used) \in Nat
    BY <1>1, FS_CardinalityType
  <2> HIDE DEF used
  <2> QED BY <2>1 DEF Fake
<1>4. node \in free
  <2> HIDE DEF free
  <2> QED BY <1>2, <1>3, LeastNumber
<1>5. node \notin {Null, Fake}
  <2> HIDE DEF node, free
  <2> QED BY <1>3, <1>4 DEF Null, Fake
<1>6. callback' = task /\ tasks' = rest \union {task}
  BY DEF scheduleCallback
<1>7. IsFiniteSet(rest \union {task})
  <2>1. IsFiniteSet(rest)
    BY FS_Subset
  <2> HIDE DEF rest, task
  <2> QED BY <2>1, FS_AddElement
<1> HIDE DEF node
<1> QED
  BY <1>5, <1>6, <1>7

-----------------------------------------------------------------------------
(* The callback.  A root has one only while it has something to work on,   *)
(* except while something is on the stack that will ask again before the   *)
(* thread is free (Settled: it will not).  The callback is a task that the *)
(* Scheduler has, or the one that runs and that will be handed back to it; *)
(* or it stands for a callback of the sync queue, or for the one being     *)
(* run, and that one does commit something, which takes the callback away. *)

Wanted(r) == getNextRootExpirationTimeToWorkOn(r) # NoWork

Settled == \/ pc \in {"idle", "event", "return"}
           \/ pc \in {"flush", "passive", "commitRoot"} /\ back \in FromIdle
RootWantsCallback == Settled => callback.node = Null \/ Wanted(root)

TaskAlive == callback.node \notin {Null, Fake} =>
                 callback \in tasks \/ (callback = frame.task /\ callback.node = frame.node)

SyncWork == flushing /\ pc \in {"begin", "render", "passive", "commitRoot"}
SyncAlive == callback.node = Fake => queue > 0 \/ SyncWork

Commits == pc = "commitRoot" \/ (pc = "passive" /\ Head(back) = "commitRoot")
SyncCommits == flushing /\ Commits => finished # None

Finite == IsFiniteSet(tasks) /\ queue \in Nat
Alive == Finite /\ RootWantsCallback /\ TaskAlive /\ SyncAlive /\ SyncCommits

LEMMA InitAlive == Init => Alive
  BY FS_EmptySet DEF Init, Alive, Finite, RootWantsCallback, TaskAlive, SyncAlive, SyncCommits,
     NoCallback, Null, Fake

\* What ensureRootIsScheduled leaves.
LEMMA EnsureCallback ==
    ASSUME NEW r, NEW T, IsFiniteSet(T), queue \in Nat, ensureRootIsScheduled(r, T)
    PROVE  /\ root' = r /\ IsFiniteSet(tasks') /\ queue' \in Nat
           /\ callback'.node = Null \/ Wanted(r)
           /\ \/ callback'.node = Null
              \/ callback'.node = Fake /\ queue' > 0
              \/ callback'.node \notin {Null, Fake} /\ callback' \in tasks'
              \/ UNCHANGED <<callback, queue>> /\ tasks' = T /\ r.lastExpiredTime = NoWork
<1> DEFINE next == getNextRootExpirationTimeToWorkOn(r)
           rest == {k \in T : k.node # callback.node}
<1>1. root' = r
  BY DEF ensureRootIsScheduled
<1>2. scheduleSyncCallback => callback'.node = Fake /\ queue' > 0 /\ queue' \in Nat
  BY DEF scheduleSyncCallback
<1>3. IsFiniteSet(rest)
  BY FS_Subset
<1>4. CASE r.lastExpiredTime # NoWork /\ scheduleSyncCallback /\ tasks' = T
  BY <1>1, <1>2, <1>4 DEF Wanted, getNextRootExpirationTimeToWorkOn
<1>5. CASE callback' = NoCallback /\ tasks' = T /\ UNCHANGED queue
  BY <1>1, <1>5 DEF NoCallback
<1>6. CASE r.lastExpiredTime = NoWork /\ next # NoWork /\ tasks' = T /\ UNCHANGED <<callback, queue>>
  BY <1>1, <1>6 DEF Wanted
<1>7. CASE next # NoWork /\ scheduleSyncCallback /\ tasks' = rest
  BY <1>1, <1>2, <1>3, <1>7 DEF Wanted
<1>8. CASE next # NoWork /\ scheduleCallback(next, T) /\ UNCHANGED queue
  BY <1>1, <1>8, NewTask DEF Wanted
<1> QED
  BY <1>4, <1>5, <1>6, <1>7, <1>8 DEF ensureRootIsScheduled

\* A step that ends with ensureRootIsScheduled.
LEMMA EnsureAlive ==
    ASSUME Alive, NEW r, ensureRootIsScheduled(r, tasks), frame' = frame,
           SyncWork => SyncWork', SyncCommits'
    PROVE  Alive'
<1>1. /\ root' = r /\ IsFiniteSet(tasks') /\ queue' \in Nat
      /\ callback'.node = Null \/ Wanted(r)
      /\ \/ callback'.node = Null
         \/ callback'.node = Fake /\ queue' > 0
         \/ callback'.node \notin {Null, Fake} /\ callback' \in tasks'
         \/ UNCHANGED <<callback, queue>> /\ tasks' = tasks
  BY EnsureCallback DEF Alive, Finite
<1>2. RootWantsCallback'
  BY <1>1 DEF RootWantsCallback, Wanted
<1>3. TaskAlive'
  BY <1>1 DEF TaskAlive, Alive, Null, Fake
<1>4. SyncAlive'
  BY <1>1 DEF SyncAlive, Alive, Null, Fake
<1> QED
  BY <1>1, <1>2, <1>3, <1>4 DEF Alive, Finite

\* A step that leaves the callback alone.
LEMMA KeepAlive ==
    ASSUME Alive, UNCHANGED <<callback, tasks, queue, frame>>,
           Settled' => Settled /\ root' = root, SyncWork => SyncWork', SyncCommits'
    PROVE  Alive'
<1>1. RootWantsCallback'
  BY DEF RootWantsCallback, Alive
<1>2. TaskAlive'
  BY DEF TaskAlive, Alive
<1>3. SyncAlive'
  BY DEF SyncAlive, Alive
<1> QED
  BY <1>1, <1>2, <1>3 DEF Alive, Finite

\* What a thread that is not to be idle next has on its stack.
LEMMA NotFromIdle ==
    /\ \A b \in Seq(Places) : Push("tail", b) \notin FromIdle /\ Push("begin", b) \notin FromIdle
    /\ \A b \in Seq(Places) : Push("commitRoot", b) \in FromIdle => b \in FromIdle
<1>1. Push("idle", <<>>) \in Seq(Places) /\ <<>> \in Seq(Places)
  BY BasesAreStacks DEF FromIdle
<1>2. /\ Head(Push("idle", <<>>)) = "idle"
      /\ Head(Push("commitRoot", Push("idle", <<>>))) = "commitRoot"
      /\ Tail(Push("commitRoot", Push("idle", <<>>))) = Push("idle", <<>>)
  BY <1>1, PlacesToReturnTo, PushPop
<1>3. ASSUME NEW b \in Seq(Places)
      PROVE  /\ Push("tail", b) \notin FromIdle /\ Push("begin", b) \notin FromIdle
             /\ Push("commitRoot", b) \in FromIdle => b \in FromIdle
  <2>1. /\ Head(Push("tail", b)) = "tail" /\ Head(Push("begin", b)) = "begin"
        /\ Head(Push("commitRoot", b)) = "commitRoot" /\ Tail(Push("commitRoot", b)) = b
    BY PlacesToReturnTo, PushPop
  <2> QED BY <1>2, <2>1 DEF FromIdle
<1> QED
  BY <1>3

LEMMA ReturnFromFlush ==
    ASSUME Base(back), Return
    PROVE  Settled' => back \in FromIdle
<1>1. <<>> \in Seq(Places) /\ Push("tail", <<>>) \in Seq(Places)
  BY BasesAreStacks DEF FromTask
<1>2. CASE back = Push("begin", <<>>) \/ back = Push("tail", <<>>)
  <2>1. pc' \in {"begin", "tail"}
    BY <1>1, <1>2, PlacesToReturnTo, PushPop DEF Return
  <2> QED BY <2>1 DEF Settled
<1>3. CASE back = Push("commitRoot", Push("tail", <<>>))
  <2>1. pc' = "commitRoot" /\ back' = Push("tail", <<>>)
    BY <1>1, <1>3, PlacesToReturnTo, PushPop DEF Return
  <2> QED BY <1>1, <2>1, NotFromIdle DEF Settled
<1> QED
  BY <1>2, <1>3 DEF Base, FromTask

LEMMA ReturnInFlush ==
    ASSUME ControlOK, flushing, pc \in {"event", "passive", "commit"}, Return
    PROVE  /\ ~Settled' /\ pc' \in {"begin", "commitRoot", "tail"}
           /\ \/ pc = "passive" /\ pc' \in {"begin", "commitRoot"}
              \/ pc = "commit" /\ pc' = "tail"
           /\ pc' = "commitRoot" => Head(back) = "commitRoot"
<1>1. PICK b : Base(b) /\ InFlush(b)
  BY DEF ControlOK
<1>2. b \in Seq(Places) /\ Push("tail", b) \in Seq(Places)
  BY <1>1, BasesAreStacks, PlacesToReturnTo, PushPop DEF Base
<1>3. CASE pc = "passive" /\ back = Push("begin", b)
  <2>1. pc' = "begin"
    BY <1>2, <1>3, PlacesToReturnTo, PushPop DEF Return
  <2>2. ~Settled'
    BY <2>1 DEF Settled
  <2> QED BY <1>3, <2>1, <2>2
<1>4. CASE pc = "passive" /\ back = Push("commitRoot", Push("tail", b))
  <2>1. pc' = "commitRoot" /\ back' = Push("tail", b) /\ Head(back) = "commitRoot"
    BY <1>2, <1>4, PlacesToReturnTo, PushPop DEF Return
  <2>2. back' \notin FromIdle
    BY <1>2, <2>1, NotFromIdle
  <2>3. ~Settled'
    BY <2>1, <2>2 DEF Settled
  <2> QED BY <1>4, <2>1, <2>3
<1>5. CASE pc = "commit" /\ back = Push("tail", b)
  <2>1. pc' = "tail"
    BY <1>2, <1>5, PlacesToReturnTo, PushPop DEF Return
  <2>2. ~Settled'
    BY <2>1 DEF Settled
  <2> QED BY <1>5, <2>1, <2>2
<1> QED
  BY <1>1, <1>3, <1>4, <1>5 DEF InFlush

\* An event or passive effects end, and so may a commit.
LEMMA FlushOrReturnAlive ==
    ASSUME Alive, ControlOK, pc \in {"event", "passive", "commit"}, FlushThenReturn,
           UNCHANGED finished
    PROVE  /\ SyncWork => SyncWork'
           /\ SyncCommits'
           /\ Settled' => Settled \/ pc = "commit"
<1>1. CASE flushing
  <2>1. Return /\ flushing'
    BY <1>1 DEF FlushThenReturn
  <2>2. /\ ~Settled'
        /\ \/ pc = "passive" /\ pc' \in {"begin", "commitRoot"}
           \/ pc = "commit" /\ pc' = "tail"
        /\ pc' = "commitRoot" => Head(back) = "commitRoot"
    BY <1>1, <2>1, ReturnInFlush
  <2>3. SyncCommits'
    BY <1>1, <2>2 DEF SyncCommits, Commits, Alive
  <2> QED BY <1>1, <2>1, <2>2, <2>3 DEF SyncWork
<1>2. CASE ~flushing
  <2>1. Base(back)
    BY <1>2 DEF ControlOK, OutsideFlush, Base, FromIdle, FromTask
  <2>2. \/ Return /\ ~flushing'
        \/ pc' = "flush" /\ flushing' /\ back' = back
    BY <1>2 DEF FlushThenReturn
  <2>3. Settled' => back \in FromIdle
    BY <2>1, <2>2, ReturnFromFlush DEF Settled
  <2> QED BY <1>2, <2>2, <2>3 DEF SyncWork, SyncCommits, Commits, Settled
<1> QED
  BY <1>1, <1>2

LEMMA ReturnAlive ==
    ASSUME Alive, ControlOK, endEvent \/ endPassive \/ endCommit \/ endFlush \/ exitRoot
    PROVE  Alive'
<1>1. ASSUME endEvent \/ endPassive
      PROVE  Alive'
  <2>1. /\ pc \in {"event", "passive"} /\ FlushThenReturn
        /\ UNCHANGED <<root, callback, finished, tasks, queue, frame>>
    BY <1>1 DEF endEvent, endPassive, rootVars
  <2>2. /\ SyncWork => SyncWork'
        /\ SyncCommits'
        /\ Settled' => Settled \/ pc = "commit"
    BY <2>1, FlushOrReturnAlive
  <2> QED BY <2>1, <2>2, KeepAlive
<1>2. ASSUME endCommit
      PROVE  Alive'
  <2>1. /\ pc = "commit" /\ FlushThenReturn /\ ensureRootIsScheduled(root, tasks)
        /\ UNCHANGED <<finished, frame>>
    BY <1>2 DEF endCommit
  <2>2. (SyncWork => SyncWork') /\ SyncCommits'
    BY <2>1, FlushOrReturnAlive
  <2> QED BY <2>1, <2>2, EnsureAlive
<1>3. ASSUME endFlush
      PROVE  Alive'
  <2>1. /\ pc = "flush" /\ ~flushing' /\ Return
        /\ UNCHANGED <<root, callback, tasks, queue, frame>>
    BY <1>3 DEF endFlush, rootVars
  <2>2. Base(back)
    BY <2>1 DEF ControlOK, OutsideFlush, InFlush
  <2>3. Settled' => Settled
    BY <2>1, <2>2, ReturnFromFlush DEF Settled
  <2>4. ~SyncWork /\ SyncCommits'
    BY <2>1 DEF SyncWork, SyncCommits
  <2> QED BY <2>1, <2>3, <2>4, KeepAlive
<1>4. ASSUME exitRoot
      PROVE  Alive'
  <2>1. /\ pc = "tail" /\ pc' \in {"flush", "return"} /\ frame' = frame
        /\ ensureRootIsScheduled(root, tasks)
    BY <1>4 DEF exitRoot
  <2>2. ~SyncWork /\ SyncCommits'
    BY <2>1 DEF SyncWork, SyncCommits, Commits
  <2> QED BY <2>1, <2>2, EnsureAlive
<1> QED
  BY <1>1, <1>2, <1>3, <1>4

\* Calls of procedures, and a commit that finds nothing.
LEMMA CallAlive ==
    ASSUME Alive, ControlOK,
           \/ flushTask \/ passiveTask \/ commitTimeout
           \/ flushPassiveFirst \/ performSyncWorkOnRoot \/ nothingToCommit
    PROVE  Alive'
<1>1. ASSUME flushTask \/ passiveTask \/ commitTimeout
      PROVE  Alive'
  <2>1. /\ pc = "idle" /\ pc' \in {"flush", "passive", "commitRoot"}
        /\ UNCHANGED <<root, callback, tasks, queue, frame>>
        /\ flushTask \/ UNCHANGED flushing
    BY <1>1 DEF flushTask, passiveTask, commitTimeout, Free, Call, rootVars, hostVars
  <2>2. ~flushing
    BY <2>1, CallFromIdle
  <2>3. flushTask => pc' = "flush"
    BY DEF flushTask, Call
  <2>4. SyncCommits' /\ ~SyncWork
    BY <2>1, <2>2, <2>3 DEF SyncCommits, Commits, SyncWork
  <2>5. Settled
    BY <2>1 DEF Settled
  <2> QED BY <2>1, <2>4, <2>5, KeepAlive
<1>2. ASSUME flushPassiveFirst
      PROVE  Alive'
  <2>1. /\ pc = "commitRoot" /\ pc' = "passive" /\ back' = Push("commitRoot", back)
        /\ UNCHANGED <<root, callback, finished, tasks, queue, frame, flushing>>
    BY <1>2 DEF flushPassiveFirst, Call, Push, rootVars, hostVars
  <2>2. back \in Seq(Places)
    <3>1. CASE flushing
      <4>1. PICK b : Base(b) /\ back = Push("tail", b)
        BY <2>1, <3>1 DEF ControlOK, InFlush
      <4> QED BY <4>1, BasesAreStacks, PlacesToReturnTo, PushPop DEF Base
    <3>2. CASE ~flushing
      <4>1. back \in FromIdle \/ back \in FromTask
        BY <2>1, <3>2 DEF ControlOK, OutsideFlush, FromIdle, FromTask
      <4> QED BY <4>1, BasesAreStacks
    <3> QED BY <3>1, <3>2
  <2>3. Settled' => Settled
    <3>1. Settled' => Push("commitRoot", back) \in FromIdle
      BY <2>1 DEF Settled
    <3> QED BY <2>1, <2>2, <3>1, NotFromIdle DEF Settled
  <2>4. (SyncWork => SyncWork') /\ SyncCommits'
    BY <2>1 DEF SyncWork, SyncCommits, Commits, Alive
  <2> QED BY <2>1, <2>3, <2>4, KeepAlive
<1>3. ASSUME performSyncWorkOnRoot
      PROVE  Alive'
  <2>1. /\ pc = "flush" /\ queue > 0 /\ queue' = queue - 1
        /\ UNCHANGED <<root, callback, finished, tasks, frame, flushing>>
        /\ \/ pc' = "begin"
           \/ pc' = "passive" /\ back' = Push("begin", back)
    BY <1>3 DEF performSyncWorkOnRoot, Call, Push, rootVars
  <2>2. flushing /\ back \in Seq(Places)
    BY <2>1, BasesAreStacks DEF ControlOK, OutsideFlush, InFlush, Base
  <2>3. pc' = "passive" => Head(back') = "begin" /\ back' \notin FromIdle
    BY <2>1, <2>2, NotFromIdle, PlacesToReturnTo, PushPop
  <2>4. ~Settled' /\ SyncWork' /\ ~Commits'
    BY <2>1, <2>2, <2>3 DEF Settled, SyncWork, Commits
  <2>5. Finite'
    BY <2>1 DEF Finite, Alive
  <2>6. TaskAlive'
    BY <2>1 DEF TaskAlive, Alive
  <2> QED BY <2>4, <2>5, <2>6 DEF Alive, RootWantsCallback, SyncAlive, SyncCommits
<1>4. ASSUME nothingToCommit
      PROVE  Alive'
  <2>1. /\ pc = "commitRoot" /\ finished = None /\ Return
        /\ UNCHANGED <<root, callback, tasks, queue, frame, flushing>>
    BY <1>4 DEF nothingToCommit, rootVars, hostVars
  <2>2. ~flushing
    BY <2>1 DEF Alive, SyncCommits, Commits
  <2>3. Base(back)
    BY <2>1, <2>2 DEF ControlOK, OutsideFlush, Base, FromIdle, FromTask
  <2>4. Settled' => Settled
    BY <2>1, <2>3, ReturnFromFlush DEF Settled
  <2>5. ~SyncWork /\ SyncCommits'
    BY <2>1, <2>2 DEF SyncWork, SyncCommits
  <2> QED BY <2>1, <2>4, <2>5, KeepAlive
<1> QED
  BY <1>1, <1>2, <1>3, <1>4

\* Units of work, the ends of renders, and the commit.
LEMMA RenderAlive ==
    ASSUME Alive, Data, ControlOK,
           \/ begin \/ Unit \/ complete \/ yield
           \/ finishErrored \/ finishSuspended \/ finishDelayed \/ finishCompleted
           \/ \E u \in Updates : skipUnit(u)
           \/ commitRootImpl
    PROVE  Alive'
<1>1. ASSUME begin \/ yield
      PROVE  Alive'
  <2>1. /\ UNCHANGED <<callback, tasks, queue, frame, flushing>>
        /\ \/ pc = "begin" /\ pc' = "render"
           \/ pc = "render" /\ ~flushing /\ pc' = "tail"
    BY <1>1 DEF begin, yield, rootVars, hostVars
  <2>2. ~Settled' /\ (SyncWork => SyncWork') /\ SyncCommits'
    BY <2>1 DEF Settled, SyncWork, SyncCommits, Commits
  <2> QED BY <2>1, <2>2, KeepAlive
<1>2. ASSUME NEW u, renderUnit(u) \/ suspendUnit(u) \/ throwUnit(u) \/ skipUnit(u)
      PROVE  Alive'
  <2>1. pc = "render" /\ UNCHANGED <<callback, tasks, queue, frame, flushing, pc>>
    BY <1>2 DEF renderUnit, suspendUnit, throwUnit, skipUnit, rootVars, hostVars, control
  <2>2. ~Settled' /\ (SyncWork => SyncWork') /\ SyncCommits'
    BY <2>1 DEF Settled, SyncWork, SyncCommits, Commits
  <2> QED BY <2>1, <2>2, KeepAlive
<1>3. ASSUME complete
      PROVE  Alive'
  <2>1. /\ pc = "render" /\ UNCHANGED <<callback, tasks, queue, frame, flushing>>
        /\ finished'.time = wip.time
    BY <1>3 DEF complete, hostVars
  <2>2. finished' # None
    BY <2>1 DEF None, Data, WorkOK, Rendering
  <2>3. CASE flushing
    <3>1. PICK b : Base(b) /\ back = b
      BY <2>1, <2>3 DEF ControlOK, InFlush
    <3>2. pc' = "commitRoot" /\ back' = Push("tail", back)
      BY <1>3, <2>3 DEF complete, Call, Push
    <3>3. ~Settled'
      BY <3>1, <3>2, BasesAreStacks, NotFromIdle DEF Settled, Base
    <3>4. SyncWork' /\ SyncCommits'
      BY <2>1, <2>2, <2>3, <3>2 DEF SyncWork, SyncCommits
    <3> QED BY <2>1, <3>3, <3>4, KeepAlive
  <2>4. CASE ~flushing
    <3>1. pc' = "finish"
      BY <1>3, <2>4 DEF complete
    <3>2. ~Settled' /\ ~SyncWork /\ SyncCommits'
      BY <2>1, <2>4, <3>1 DEF Settled, SyncWork, SyncCommits
    <3> QED BY <2>1, <3>2, KeepAlive
  <2> QED BY <2>3, <2>4
<1>4. ASSUME finishErrored \/ finishSuspended \/ finishDelayed \/ finishCompleted
      PROVE  Alive'
  <2>1. pc = "finish" /\ UNCHANGED <<callback, tasks, queue, frame, flushing>>
    BY <1>4 DEF finishErrored, finishSuspended, finishDelayed, finishCompleted, hostVars
  <2>2. ~flushing /\ back = <<>>
    BY <2>1 DEF ControlOK, OutsideFlush, InFlush
  <2>3. pc' = "tail" \/ (pc' = "commitRoot" /\ back' = Push("tail", <<>>))
    BY <1>4, <2>2 DEF finishErrored, finishSuspended, finishDelayed, finishCompleted,
                      CommitNow, CommitLater, GoElsewhere, Call, Push
  <2>4. ~Settled'
    BY <2>3, BasesAreStacks, NotFromIdle DEF Settled
  <2>5. ~SyncWork /\ SyncCommits'
    BY <2>1, <2>2 DEF SyncWork, SyncCommits
  <2> QED BY <2>1, <2>4, <2>5, KeepAlive
<1>5. ASSUME commitRootImpl
      PROVE  Alive'
  <2>1. callback' = NoCallback /\ pc' = "commit" /\ UNCHANGED <<tasks, queue>>
    BY <1>5 DEF commitRootImpl, hostVars
  <2>2. RootWantsCallback' /\ TaskAlive' /\ SyncAlive' /\ SyncCommits'
    BY <2>1 DEF RootWantsCallback, TaskAlive, SyncAlive, SyncCommits, Commits,
                NoCallback, Null, Fake
  <2> QED BY <2>1, <2>2 DEF Alive, Finite
<1> QED
  BY <1>1, <1>2, <1>3, <1>4, <1>5 DEF Unit

\* Tasks of the Scheduler.
LEMMA TaskStepAlive ==
    ASSUME Alive, ControlOK,
           \/ RunTask \/ returnToScheduler
           \/ \E k \in tasks : \E c \in Levels \union {k.time} : taskTimedOut(k, c)
    PROVE  Alive'
<1>1. ASSUME NEW k \in tasks, performConcurrentWorkOnRoot(k)
      PROVE  Alive'
  <2> DEFINE next == getNextRootExpirationTimeToWorkOn(root)
  <2>1. /\ pc = "idle" /\ queue = 0 /\ tasks' = tasks \ {k}
        /\ UNCHANGED <<root, callback, finished, queue, flushing>>
    BY <1>1 DEF performConcurrentWorkOnRoot, Free, rootVars
  <2>2. ~flushing /\ back = <<>> /\ frame = NoFrame
    BY <2>1, CallFromIdle
  <2>3. callback.node # Fake
    BY <2>1, <2>2 DEF Alive, SyncAlive, SyncWork
  <2>4. Finite'
    BY <2>1, FS_Subset DEF Alive, Finite
  <2>5. SyncAlive' /\ SyncCommits'
    BY <2>1, <2>2, <2>3 DEF SyncAlive, SyncCommits
  <2>6. callback.node # Null => callback \in tasks
    BY <2>2, <2>3 DEF Alive, TaskAlive, NoFrame
  <2>7. CASE next = NoWork
    <3>1. UNCHANGED <<pc, back>> /\ callback.node = Null
      BY <1>1, <2>1, <2>7 DEF performConcurrentWorkOnRoot, Alive, RootWantsCallback, Settled, Wanted
    <3>2. RootWantsCallback' /\ TaskAlive'
      BY <2>1, <3>1 DEF RootWantsCallback, TaskAlive
    <3> QED BY <2>4, <2>5, <3>2 DEF Alive
  <2>8. CASE next # NoWork
    <3>1. frame'.task = k /\ frame'.node = callback.node
      BY <1>1, <2>8 DEF performConcurrentWorkOnRoot
    <3>2. pc' = "begin" \/ (pc' = "passive" /\ back' = Push("begin", <<>>))
      BY <1>1, <2>2, <2>8 DEF performConcurrentWorkOnRoot, Call, Push
    <3>3. ~Settled'
      BY <3>2, BasesAreStacks, NotFromIdle DEF Settled
    <3>4. TaskAlive'
      BY <2>1, <2>6, <3>1 DEF TaskAlive
    <3> QED BY <2>4, <2>5, <3>3, <3>4 DEF Alive, RootWantsCallback
  <2> QED BY <2>7, <2>8
<1>2. ASSUME returnToScheduler
      PROVE  Alive'
  <2>1. /\ pc = "return" /\ pc' = "idle"
        /\ UNCHANGED <<root, callback, finished, queue, flushing>>
        /\ tasks' = IF callback.node = frame.node THEN tasks \union {frame.task} ELSE tasks
    BY <1>2 DEF returnToScheduler, rootVars
  <2>2. Finite'
    BY <2>1, FS_AddElement DEF Alive, Finite
  <2>3. RootWantsCallback'
    BY <2>1 DEF Alive, RootWantsCallback, Settled
  <2>4. TaskAlive'
    BY <2>1 DEF Alive, TaskAlive
  <2>5. SyncAlive' /\ SyncCommits'
    BY <2>1 DEF Alive, SyncAlive, SyncWork, SyncCommits, Commits
  <2> QED BY <2>2, <2>3, <2>4, <2>5 DEF Alive
<1>3. ASSUME NEW k \in tasks, NEW c \in Levels \union {k.time}, taskTimedOut(k, c)
      PROVE  Alive'
  <2> DEFINE r == markRootExpiredAtTime(root, c)
  <2>1. /\ pc = "idle" /\ Idle < c /\ UNCHANGED <<pc, back, frame, finished, flushing>>
        /\ ensureRootIsScheduled(r, tasks \ {k})
    BY <1>3 DEF taskTimedOut, Free, control
  <2>2. IsFiniteSet(tasks \ {k}) /\ queue \in Nat
    BY FS_Subset DEF Alive, Finite
  <2>3. r.lastExpiredTime # NoWork
    BY <2>1 DEF markRootExpiredAtTime, Idle, NoWork
  <2> HIDE DEF r
  <2>4. /\ root' = r /\ IsFiniteSet(tasks') /\ queue' \in Nat
        /\ callback'.node = Null \/ Wanted(r)
        /\ \/ callback'.node = Null
           \/ callback'.node = Fake /\ queue' > 0
           \/ callback'.node \notin {Null, Fake} /\ callback' \in tasks'
    BY <2>1, <2>2, <2>3, EnsureCallback
  <2>5. RootWantsCallback' /\ TaskAlive' /\ SyncAlive'
    BY <2>4 DEF RootWantsCallback, TaskAlive, SyncAlive, Wanted, Null, Fake
  <2>6. SyncCommits'
    BY <2>1 DEF SyncCommits, Commits
  <2> QED BY <2>4, <2>5, <2>6 DEF Alive, Finite
<1> QED
  BY <1>1, <1>2, <1>3 DEF RunTask

\* Updates, data and its listeners.
LEMMA UpdateAlive ==
    ASSUME Alive, ControlOK,
           \/ \E u \in Updates, l \in Levels : scheduleUpdateOnFiber(u, l)
           \/ \E u \in Updates : load(u) \/ Listener(u)
    PROVE  Alive'
<1>1. ASSUME NEW u, NEW l, scheduleUpdateOnFiber(u, l)
      PROVE  Alive'
  <2>1. PICK r : ensureRootIsScheduled(r, tasks)
    BY <1>1 DEF scheduleUpdateOnFiber, markUpdateTimeFromFiberToRoot
  <2>2. /\ UNCHANGED <<finished, frame, flushing>>
        /\ \/ pc = "idle" /\ pc' = "event"
           \/ UNCHANGED <<pc, back>>
    BY <1>1 DEF scheduleUpdateOnFiber, Call
  <2>3. (SyncWork => SyncWork') /\ SyncCommits'
    BY <2>2 DEF SyncWork, SyncCommits, Commits, Alive
  <2> QED BY <2>1, <2>2, <2>3, EnsureAlive
<1>2. ASSUME NEW u, load(u)
      PROVE  Alive'
  <2>1. UNCHANGED <<root, callback, finished, tasks, queue, flushing, pc, back, frame>>
    BY <1>2 DEF load, rootVars, hostVars, control
  <2>2. (Settled' => Settled) /\ (SyncWork => SyncWork') /\ SyncCommits'
    BY <2>1 DEF Settled, SyncWork, SyncCommits, Commits, Alive
  <2> QED BY <2>1, <2>2, KeepAlive
<1>3. ASSUME NEW u, NEW t, pingSuspendedRoot(u, t)
      PROVE  Alive'
  <2>1. pc = "idle" /\ UNCHANGED <<pc, back, frame, flushing>>
    BY <1>3 DEF pingSuspendedRoot, control
  <2>2. (Settled' => Settled) /\ ~SyncWork /\ SyncCommits'
    BY <2>1 DEF Settled, SyncWork, SyncCommits, Commits
  <2>3. \/ UNCHANGED <<root, callback, tasks, queue>>
        \/ \E r : ensureRootIsScheduled(r, tasks)
    BY <1>3 DEF pingSuspendedRoot, rootVars
  <2> QED BY <2>1, <2>2, <2>3, EnsureAlive, KeepAlive
<1>4. ASSUME NEW u, NEW l, retryTimedOutBoundary(u, l)
      PROVE  Alive'
  <2>1. PICK r : ensureRootIsScheduled(r, tasks)
    BY <1>4 DEF retryTimedOutBoundary, markUpdateTimeFromFiberToRoot
  <2>2. pc = "idle" /\ UNCHANGED <<pc, back, frame, flushing>>
    BY <1>4 DEF retryTimedOutBoundary, control
  <2>3. ~SyncWork /\ SyncCommits'
    BY <2>2 DEF SyncWork, SyncCommits, Commits
  <2> QED BY <2>1, <2>2, <2>3, EnsureAlive
<1> QED
  BY <1>1, <1>2, <1>3, <1>4 DEF Listener

LEMMA AliveStep == Inv /\ Alive /\ [Next]_vars => Alive'
<1> SUFFICES ASSUME Data, ControlOK, Alive, [Next]_vars PROVE Alive'
  BY DEF Inv
<1>1. CASE UNCHANGED vars
  <2>1. UNCHANGED <<root, callback, finished, tasks, queue, flushing, pc, back, frame>>
    BY <1>1 DEF vars, rootVars, hostVars, control
  <2>2. (Settled' => Settled) /\ (SyncWork => SyncWork') /\ SyncCommits'
    BY <2>1 DEF Settled, SyncWork, SyncCommits, Commits, Alive
  <2> QED BY <2>1, <2>2, KeepAlive
<1>2. CASE HostTask
  BY <1>2, TaskStepAlive, CallAlive DEF HostTask
<1>3. CASE Thread
  BY <1>3, ReturnAlive, CallAlive, RenderAlive, TaskStepAlive DEF Thread
<1> QED
  BY <1>1, <1>2, <1>3, RenderAlive, TaskStepAlive, UpdateAlive DEF Next

\* The root's callback is never a handle of something gone, whatever was
\* cancelled, replaced or left as a stray: when the thread is free it is a task
\* the Scheduler still has, or stands for callbacks in the sync queue.
THEOREM CallbackStaysAlive == Spec => []CallbackIsAlive
<1>1. Inv /\ Alive => CallbackIsAlive
  <2> SUFFICES ASSUME ControlOK, Alive, pc = "idle", callback.node # Null
               PROVE  IF callback.node = Fake THEN queue > 0 ELSE callback \in tasks
    BY DEF Inv, CallbackIsAlive
  <2>1. ~flushing /\ frame = NoFrame
    BY CallFromIdle
  <2>2. CASE callback.node = Fake
    BY <2>1, <2>2 DEF Alive, SyncAlive, SyncWork
  <2>3. CASE callback.node # Fake
    BY <2>1, <2>3 DEF Alive, TaskAlive, NoFrame
  <2> QED BY <2>2, <2>3
<1>2. Spec => []Alive
  BY InitAlive, AliveStep, Invariance, PTL DEF Spec
<1> QED
  BY <1>1, <1>2, Invariance, PTL

-----------------------------------------------------------------------------
(* The first pending level.  What a render passes by or is given while it  *)
(* runs (wip.next) is never above it: a suspended render marks that level  *)
(* as pending.                                                             *)

Agree == FirstPendingIsHighest /\ wip.next <= Remaining({})

\* The highest level of some updates bounds them, and is one of them or NoWork.
LEMMA HighestLevel ==
    ASSUME NEW f \in [Updates -> Marks], NEW U \in SUBSET Updates
    PROVE  LET h == HighestOf({f[u] : u \in U})
           IN  /\ h \in Nat /\ \A u \in U : f[u] <= h
               /\ h = NoWork \/ \E u \in U : f[u] = h
<1> DEFINE S == {f[u] : u \in U}
<1>1. S \in SUBSET Marks /\ NoWork \in Nat
  BY DEF NoWork
<1>2. CASE U = {}
  BY <1>1, <1>2 DEF HighestOf
<1>3. CASE U # {}
  <2>1. S # {}
    BY <1>3
  <2> HIDE DEF S
  <2>2. HighestOf(S) \in S /\ \A s \in S : s <= HighestOf(S)
    BY <1>1, <2>1, HighestOfMarks
  <2>3. HighestOf(S) \in Nat
    BY <1>1, <2>2, MarksAreNumbers
  <2> QED BY <2>2, <2>3 DEF S
<1> QED
  BY <1>2, <1>3

\* Two sets of levels that differ in nothing but NoWork.
LEMMA SameHighest ==
    ASSUME NEW f \in [Updates -> Marks], NEW g \in [Updates -> Marks], NEW done,
           \A u \in Updates : g[u] = IF u \in done THEN NoWork ELSE f[u]
    PROVE  HighestOf({g[u] : u \in Updates}) = HighestOf({f[u] : u \in Updates \ done})
<1> DEFINE h == HighestOf({g[u] : u \in Updates})
           k == HighestOf({f[u] : u \in Updates \ done})
<1>1. h \in Nat /\ (\A u \in Updates : g[u] <= h) /\ (h = NoWork \/ \E u \in Updates : g[u] = h)
  BY HighestLevel
<1>2. /\ k \in Nat /\ \A u \in Updates \ done : f[u] <= k
      /\ k = NoWork \/ \E u \in Updates \ done : f[u] = k
  BY HighestLevel
<1> HIDE DEF h, k
<1>3. k <= h
  BY <1>1, <1>2 DEF NoWork
<1>4. h <= k
  BY <1>1, <1>2 DEF NoWork
<1>5. h = k
  BY <1>1, <1>2, <1>3, <1>4
<1> QED
  BY <1>5 DEF h, k

\* An update raises the highest level to its own.
LEMMA RaisedHighest ==
    ASSUME NEW f \in [Updates -> Marks], NEW v \in Updates, NEW t \in Marks
    PROVE  LET g == [f EXCEPT ![v] = Higher(@, t)]
           IN  HighestOf({g[u] : u \in Updates}) = Higher(HighestOf({f[u] : u \in Updates}), t)
<1> DEFINE g == [f EXCEPT ![v] = Higher(@, t)]
           h == HighestOf({g[u] : u \in Updates})
           k == HighestOf({f[u] : u \in Updates})
<1>1. g \in [Updates -> Marks] /\ t \in Nat /\ \A u \in Updates : f[u] \in Nat /\ g[u] \in Nat
  BY HigherIsAMark, MarksAreNumbers
<1>2. \A u \in Updates : g[u] = IF u = v THEN Higher(f[u], t) ELSE f[u]
  OBVIOUS
<1>3. k \in Nat /\ (\A u \in Updates : f[u] <= k) /\ (k = NoWork \/ \E u \in Updates : f[u] = k)
  BY HighestLevel
<1> HIDE DEF g
<1>4. h \in Nat /\ (\A u \in Updates : g[u] <= h) /\ (h = NoWork \/ \E u \in Updates : g[u] = h)
  BY <1>1, HighestLevel
<1> HIDE DEF h, k
<1>5. h >= k /\ h >= t
  BY <1>1, <1>2, <1>3, <1>4 DEF Higher, NoWork
<1>6. h <= k \/ h <= t
  BY <1>1, <1>2, <1>3, <1>4 DEF Higher, NoWork
<1>7. h = Higher(k, t)
  BY <1>1, <1>3, <1>4, <1>5, <1>6 DEF Higher
<1> QED
  BY <1>7 DEF g, h, k

LEMMA RemainingAll == Remaining({}) = HighestOf({level[u] : u \in Updates})
<1>1. Updates \ {} = Updates
  OBVIOUS
<1> QED
  BY <1>1 DEF Remaining

\* What the operations do to the first pending level.
LEMMA PendingMarks ==
    ASSUME NEW r, RootOK(r), NEW t, NEW n
    PROVE  /\ markRootSuspendedAtTime(r, t).firstPendingTime = r.firstPendingTime
           /\ markRootUpdatedAtTime(r, t).firstPendingTime = Higher(r.firstPendingTime, t)
           /\ markRootExpiredAtTime(r, t).firstPendingTime = r.firstPendingTime
           /\ markRootFinishedAtTime(r, t, n).firstPendingTime = n
           /\ [r EXCEPT !.nextKnownPendingLevel = t].firstPendingTime = r.firstPendingTime
<1>1. markRootSuspendedAtTime(r, t).firstPendingTime = r.firstPendingTime
  BY DEF markRootSuspendedAtTime, RootOK, Roots
<1>2. markRootUpdatedAtTime(r, t).firstPendingTime = Higher(r.firstPendingTime, t)
  BY DEF markRootUpdatedAtTime, Unsuspended, RootOK, Roots
<1>3. markRootExpiredAtTime(r, t).firstPendingTime = r.firstPendingTime
  BY DEF markRootExpiredAtTime, RootOK, Roots
<1>4. markRootFinishedAtTime(r, t, n).firstPendingTime = n
  BY DEF markRootFinishedAtTime, Unsuspended, RootOK, Roots
<1> QED
  BY <1>1, <1>2, <1>3, <1>4 DEF RootOK, Roots

\* A step that changes no level.
LEMMA AgreeStays ==
    ASSUME TreeOK, Agree, UNCHANGED level, root'.firstPendingTime = root.firstPendingTime,
           wip'.next = wip.next \/ wip'.next = NoWork \/ \E u \in Updates : wip'.next = level[u]
    PROVE  Agree'
<1>1. Remaining({}) \in Nat /\ \A u \in Updates : level[u] <= Remaining({})
  BY HighestLevel, RemainingAll DEF TreeOK
<1>2. Remaining({})' = Remaining({})
  BY DEF Remaining
<1>3. wip'.next <= Remaining({})
  BY <1>1 DEF Agree, NoWork
<1> QED
  BY <1>2, <1>3 DEF Agree, FirstPendingIsHighest

LEMMA MarkAgree ==
    ASSUME Data, Agree, NEW u \in Updates, NEW t \in Marks, markUpdateTimeFromFiberToRoot(u, t)
    PROVE  Agree'
<1> DEFINE r == IF Rendering /\ wip.status = "delayed"
                THEN markRootSuspendedAtTime(root, wip.time) ELSE root
<1>1. wip \in Renders /\ wip.time \in Marks /\ wip.next \in Nat /\ t \in Nat
  BY MarksAreNumbers DEF Data, WorkOK, Renders
<1>2. RootOK(r) /\ r.firstPendingTime = root.firstPendingTime
  BY <1>1, SuspendedOK, PendingMarks DEF Rendering, Data
<1>3. root' = markRootUpdatedAtTime(r, t)
  BY DEF markUpdateTimeFromFiberToRoot, ensureRootIsScheduled
<1> HIDE DEF r
<1>4. root'.firstPendingTime = Higher(root.firstPendingTime, t)
  BY <1>2, <1>3, PendingMarks
<1>5. Remaining({})' = Higher(Remaining({}), t)
  <2>1. Remaining({})' = HighestOf({level'[v] : v \in Updates})
    <3>1. Updates \ {} = Updates
      OBVIOUS
    <3> QED BY <3>1 DEF Remaining
  <2>2. level' = [level EXCEPT ![u] = Higher(@, t)]
    BY DEF markUpdateTimeFromFiberToRoot
  <2> QED BY <2>1, <2>2, RaisedHighest, RemainingAll DEF Data, TreeOK
<1>6. Remaining({}) \in Nat
  BY HighestLevel, RemainingAll DEF Data, TreeOK
<1>7. wip'.next = Higher(wip.next, t) \/ wip' = wip
  <2>1. CASE Rendering
    <3>1. PICK met \in {{}, {u}} :
              wip' = [wip EXCEPT !.next = Higher(@, t),
                                 !.todo = IF t >= wip.time THEN @ \union met ELSE @]
      BY <2>1 DEF markUpdateTimeFromFiberToRoot
    <3> QED BY <1>1, <3>1 DEF Renders
  <2>2. CASE ~Rendering
    BY <2>2 DEF markUpdateTimeFromFiberToRoot
  <2> QED BY <2>1, <2>2
<1>8. wip'.next <= Higher(Remaining({}), t)
  BY <1>1, <1>6, <1>7 DEF Agree, Higher
<1> QED
  BY <1>4, <1>5, <1>8 DEF Agree, FirstPendingIsHighest

\* A unit of work passes by a level, or marks the level passed by as pending.
LEMMA UnitAgree ==
    ASSUME Data, Agree, NEW u \in Updates,
           renderUnit(u) \/ suspendUnit(u) \/ throwUnit(u) \/ skipUnit(u)
    PROVE  Agree'
<1>1. UNCHANGED level /\ pc = "render" /\ Rendering
  BY DEF renderUnit, suspendUnit, throwUnit, skipUnit, treeVars, Data, WorkOK
<1>2. wip.time \in Marks /\ wip.time # NoWork /\ wip \in Renders /\ wip.next \in Nat
  BY <1>1, MarksAreNumbers DEF Rendering, Data, WorkOK, Renders
<1> DEFINE v == Visited(u)
<1>3. v \in Renders /\ v.next = wip.next /\ v.time = wip.time
  <2>1. (wip.news \/ (u \notin hidden /\ Idle < level[u] /\ level[u] < Sync)) \in BOOLEAN
    OBVIOUS
  <2> QED BY <1>2, <2>1 DEF Visited, Renders
<1> HIDE DEF v
<1>4. CASE renderUnit(u)
  <2>1. wip' = [v EXCEPT !.included = @ \union {u}] /\ root' = root
    BY <1>4 DEF renderUnit, rootVars, v
  <2>2. wip'.next = wip.next
    BY <1>3, <2>1 DEF Renders
  <2> QED BY <1>1, <2>1, <2>2, AgreeStays DEF Data
<1>5. CASE throwUnit(u)
  <2>1. wip' = [v EXCEPT !.status = "errored"] /\ root' = root
    BY <1>5 DEF throwUnit, rootVars, v
  <2>2. wip'.next = wip.next
    BY <1>3, <2>1 DEF Renders
  <2> QED BY <1>1, <2>1, <2>2, AgreeStays DEF Data
<1>6. CASE skipUnit(u)
  <2>1. wip' = [wip EXCEPT !.next = level[u]] /\ root' = root
    BY <1>6 DEF skipUnit, rootVars
  <2>2. wip'.next = level[u]
    BY <1>2, <2>1 DEF Renders
  <2> QED BY <1>1, <2>1, <2>2, AgreeStays DEF Data
<1>7. CASE suspendUnit(u)
  <2> DEFINE w == [v EXCEPT !.fallback = @ \union {u}]
             r == markRootSuspendedAtTime(root, w.time)
  <2>1. w \in Renders /\ w.next = wip.next /\ w.time = wip.time
    BY <1>3 DEF Renders
  <2>2. \/ wip' = w
        \/ wip' = [w EXCEPT !.status = IF @ = "incomplete" THEN "suspended" ELSE @]
        \/ wip' = [w EXCEPT !.status = IF @ \in {"incomplete", "suspended"} THEN "delayed" ELSE @]
    BY <1>7 DEF suspendUnit, v
  <2>3. root' = root \/ root' = markRootUpdatedAtTime(r, w.next)
    BY <1>7 DEF suspendUnit, v
  <2> HIDE DEF w
  <2>4. wip'.next = wip.next
    BY <2>1, <2>2 DEF Renders
  <2>5. RootOK(r) /\ r.firstPendingTime = root.firstPendingTime
    BY <1>2, <2>1, SuspendedOK, PendingMarks DEF Data
  <2> HIDE DEF r
  <2>6. markRootUpdatedAtTime(r, w.next).firstPendingTime = Higher(root.firstPendingTime, wip.next)
    BY <2>1, <2>5, PendingMarks
  <2>7. Remaining({}) \in Nat
    BY HighestLevel, RemainingAll DEF Data, TreeOK
  <2>8. Higher(root.firstPendingTime, wip.next) = root.firstPendingTime
    BY <1>2, <2>7 DEF Agree, FirstPendingIsHighest, Higher
  <2>9. root'.firstPendingTime = root.firstPendingTime
    BY <2>3, <2>6, <2>8
  <2> QED BY <1>1, <2>4, <2>9, AgreeStays DEF Data
<1> QED
  BY <1>4, <1>5, <1>6, <1>7

\* The end of a render: it suspends the level, expires it, or commits later.
LEMMA FinishAgree ==
    ASSUME Data, Agree, finishErrored \/ finishSuspended \/ finishDelayed \/ finishCompleted
    PROVE  Agree'
<1>1. pc = "finish" /\ UNCHANGED level
  BY DEF finishErrored, finishSuspended, finishDelayed, finishCompleted, treeVars
<1>2. wip.time \in Marks /\ wip.time # NoWork /\ RootOK(root)
  BY <1>1 DEF Data, WorkOK, Renders, Rendering
<1> DEFINE s == markRootSuspendedAtTime(root, wip.time)
<1>3. RootOK(s) /\ s.firstPendingTime = root.firstPendingTime
  BY <1>2, SuspendedOK, PendingMarks
<1>4. RootOK(SuspendedRoot) /\ SuspendedRoot.firstPendingTime = root.firstPendingTime
  <2>1. FinishedLeaves \in Marks
    BY RemainingMark DEF FinishedLeaves, Data
  <2> DEFINE p == [s EXCEPT !.nextKnownPendingLevel = FinishedLeaves]
  <2>2. SuspendedRoot = s \/ SuspendedRoot = p
    BY DEF SuspendedRoot
  <2> HIDE DEF s
  <2>3. RootOK(p)
    BY <1>3, <2>1, KnownOK
  <2>4. p.firstPendingTime = s.firstPendingTime
    BY <1>3, PendingMarks
  <2> HIDE DEF p
  <2> QED BY <1>3, <2>2, <2>3, <2>4
<1> HIDE DEF s
<1>5. ASSUME NEW r, RootOK(r), r.firstPendingTime = root.firstPendingTime,
             CommitNow(r) \/ CommitLater(r) \/ GoElsewhere(r)
      PROVE  Agree'
  <2>1. root' = r \/ \E t : root' = [r EXCEPT !.lastPingedTime = t]
    BY <1>5 DEF CommitNow, CommitLater, GoElsewhere
  <2>2. root'.firstPendingTime = root.firstPendingTime
    BY <1>5, <2>1 DEF RootOK, Roots
  <2>3. wip' = NoRender \/ wip' = FreshRender(wip.time)
    BY <1>5 DEF CommitNow, CommitLater, GoElsewhere, prepareFreshStack
  <2>4. wip'.next = NoWork
    BY <2>3 DEF NoRender, FreshRender
  <2> QED BY <1>1, <2>2, <2>4, AgreeStays DEF Data
<1>6. CASE finishErrored
  <2>1. \E t : root' = markRootExpiredAtTime(root, t)
    BY <1>6 DEF finishErrored
  <2>2. wip'.next = NoWork
    BY <1>6 DEF finishErrored, NoRender
  <2> QED BY <1>1, <1>2, <2>1, <2>2, PendingMarks, AgreeStays DEF Data
<1>7. CASE finishSuspended \/ finishDelayed
  <2>1. CommitNow(SuspendedRoot) \/ GoElsewhere(SuspendedRoot) \/ CommitLater(SuspendedRoot)
    BY <1>7 DEF finishSuspended, finishDelayed
  <2> QED BY <1>4, <1>5, <2>1
<1>8. CASE finishCompleted
  <2>1. CommitNow(root) \/ CommitLater(s)
    BY <1>8 DEF finishCompleted, s
  <2> QED BY <1>2, <1>3, <1>5, <2>1
<1> QED
  BY <1>6, <1>7, <1>8

\* A commit sets the first pending level to what it leaves undone.
LEMMA CommitAgree ==
    ASSUME Data, commitRootImpl
    PROVE  Agree'
<1> DEFINE done == finished.tree \union finished.fallback
           r == [root EXCEPT !.nextKnownPendingLevel = NoWork]
<1>1. /\ wip' = NoRender
      /\ level' = [u \in Updates |-> IF u \in done THEN NoWork ELSE level[u]]
      /\ root' = markRootFinishedAtTime(r, finished.time, FinishedLeaves)
  BY DEF commitRootImpl
<1>2. RootOK(r)
  BY KnownOK, MarksAreNumbers DEF Data
<1> HIDE DEF r
<1>3. root'.firstPendingTime = FinishedLeaves
  BY <1>1, <1>2, PendingMarks
<1>4. level \in [Updates -> Marks] /\ level' \in [Updates -> Marks]
  BY <1>1, MarksAreNumbers DEF Data, TreeOK
<1>5. \A u \in Updates : level'[u] = IF u \in done THEN NoWork ELSE level[u]
  BY <1>1
<1>6. Remaining({})' = HighestOf({level'[u] : u \in Updates})
  <2>1. Updates \ {} = Updates
    OBVIOUS
  <2> QED BY <2>1 DEF Remaining
<1>7. FinishedLeaves = HighestOf({level[u] : u \in Updates \ done})
  BY DEF FinishedLeaves, Remaining
<1> HIDE DEF done
<1>8. Remaining({})' = FinishedLeaves
  BY <1>4, <1>5, <1>6, <1>7, SameHighest
<1>9. FinishedLeaves \in Nat
  BY RemainingMark, MarksAreNumbers DEF FinishedLeaves, Data
<1>10. wip'.next <= FinishedLeaves
  BY <1>1, <1>9 DEF NoRender, NoWork
<1> QED
  BY <1>3, <1>8, <1>10 DEF Agree, FirstPendingIsHighest

LEMMA AgreeStep == Inv /\ Agree /\ [Next]_vars => Agree'
<1> SUFFICES ASSUME Data, Agree, [Next]_vars PROVE Agree'
  BY DEF Inv
<1>1. TreeOK /\ RootOK(root) /\ wip \in Renders
  BY DEF Data, WorkOK
<1>2. ASSUME UNCHANGED level, root' = root,
             wip' = wip \/ wip'.next = wip.next \/ wip'.next = NoWork
      PROVE  Agree'
  BY <1>1, <1>2, AgreeStays
<1>3. CASE UNCHANGED vars
  BY <1>2, <1>3 DEF vars, rootVars, treeVars
<1>4. ASSUME NEW u \in Updates, NEW l \in Levels,
             scheduleUpdateOnFiber(u, l) \/ retryTimedOutBoundary(u, l)
      PROVE  Agree'
  <2>1. computeExpirationForFiber(l) \in Marks
    BY NewLevel DEF Data
  <2> QED BY <1>4, <2>1, MarkAgree DEF scheduleUpdateOnFiber, retryTimedOutBoundary
<1>5. ASSUME NEW k \in tasks, NEW c, taskTimedOut(k, c)
      PROVE  Agree'
  <2>1. UNCHANGED level /\ wip' = wip /\ root' = markRootExpiredAtTime(root, c)
    BY <1>5 DEF taskTimedOut, treeVars, ensureRootIsScheduled
  <2> QED BY <1>1, <2>1, PendingMarks, AgreeStays
<1>6. CASE HostTask \/ endEvent \/ endPassive \/ endFlush \/ performSyncWorkOnRoot
           \/ flushPassiveFirst \/ nothingToCommit \/ returnToScheduler \/ yield
           \/ \E u \in Updates : load(u)
  BY <1>2, <1>6 DEF HostTask, RunTask, performConcurrentWorkOnRoot, flushTask, passiveTask,
     commitTimeout, endEvent, endPassive, endFlush, performSyncWorkOnRoot, flushPassiveFirst,
     nothingToCommit, returnToScheduler, yield, load, rootVars, treeVars
<1>7. CASE endCommit \/ exitRoot
  BY <1>2, <1>7 DEF endCommit, exitRoot, ensureRootIsScheduled, treeVars
<1>8. CASE begin
  BY <1>2, <1>8 DEF begin, prepareFreshStack, FreshRender, rootVars, treeVars
<1>9. CASE complete
  <2>1. UNCHANGED level /\ root' = root
    BY <1>9 DEF complete, treeVars
  <2>2. \/ wip' = NoRender
        \/ wip' = [wip EXCEPT !.status = IF @ = "incomplete" THEN "completed" ELSE @]
    BY <1>9 DEF complete
  <2>3. wip'.next = wip.next \/ wip'.next = NoWork
    BY <1>1, <2>2 DEF NoRender, Renders
  <2> QED BY <1>2, <2>1, <2>3
<1>10. ASSUME NEW u \in Updates, NEW t, pingSuspendedRoot(u, t)
       PROVE  Agree'
  <2>1. UNCHANGED level
    BY <1>10 DEF pingSuspendedRoot, treeVars
  <2>2. root' = root \/ root' = [root EXCEPT !.lastPingedTime = t]
    BY <1>10 DEF pingSuspendedRoot, ensureRootIsScheduled, rootVars
  <2>3. wip' = FreshRender(t) \/ wip' = [wip EXCEPT !.pinged = TRUE] \/ wip' = wip
    BY <1>10 DEF pingSuspendedRoot, prepareFreshStack
  <2>4. wip'.next = wip.next \/ wip'.next = NoWork
    BY <1>1, <2>3 DEF FreshRender, Renders
  <2>5. root'.firstPendingTime = root.firstPendingTime
    BY <1>1, <2>2 DEF RootOK, Roots
  <2> QED BY <1>1, <2>1, <2>4, <2>5, AgreeStays
<1>11. CASE \E u \in Updates : skipUnit(u) \/ load(u) \/ Listener(u)
  BY <1>4, <1>6, <1>10, <1>11, UnitAgree DEF Listener
<1>12. CASE Thread
  BY <1>6, <1>7, <1>8, <1>12, FinishAgree, CommitAgree DEF Thread
<1> QED
  BY <1>3, <1>4, <1>5, <1>6, <1>9, <1>11, <1>12, UnitAgree DEF Next, Unit

\* root.firstPendingTime is always the most urgent level that an update waits
\* at, whatever renders are suspended, restarted, overtaken and committed.
THEOREM FirstPendingIsAlwaysHighest == Spec => []FirstPendingIsHighest
<1>1. Init => Agree
  <2> SUFFICES ASSUME Init PROVE Agree
    OBVIOUS
  <2>1. level \in [Updates -> Marks] /\ \A u \in Updates : level[u] = NoWork
    BY MarksAreNumbers DEF Init
  <2>2. Remaining({}) = NoWork
    BY <2>1, HighestLevel, RemainingAll
  <2> QED BY <2>2 DEF Init, Agree, FirstPendingIsHighest, NewRoot, NoRender, NoWork
<1>2. Spec => []Agree
  BY <1>1, AgreeStep, Invariance, PTL DEF Spec
<1>3. Agree => FirstPendingIsHighest
  BY DEF Agree
<1> QED
  BY <1>2, <1>3, PTL
=============================================================================
