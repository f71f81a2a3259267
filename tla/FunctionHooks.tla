---------------------------- MODULE FunctionHooks ----------------------------
(***************************************************************************)
(* A function component with hooks (ReactFiberHooks.js): a reducer and     *)
(* effects, a parent that renders it with some props or not at all, and    *)
(* the two fibers the component has, current and alternate.  The reducer   *)
(* may be dispatched to at any time, also by the component while it        *)
(* renders.  A render calls the component at once, and may then be         *)
(* committed or thrown away: an interruption comes between two fibers.     *)
(*                                                                         *)
(* An action is a function on states.  The update lists of the code are    *)
(* sequences here: a render copies what it keeps, so nothing is shared but *)
(* the queue itself.  There is one passive and one layout effect, both     *)
(* with the state as their dependency; an instance of an effect is known   *)
(* by the state it was created with.  The component that is thrown away    *)
(* with the tree it was to be mounted in leaves nothing behind.            *)
(***************************************************************************)
EXTENDS Integers, SequencesExt, Strict

CONSTANTS
    States, InitialState,
    Actions,                    \* what may be dispatched: functions on States
    Props,                      \* the props the parent may pass
    RenderPhaseUpdate(_, _),    \* what the component dispatches when it renders
                                \* with these props and this state: <<>>, or <<action>>;
                                \* <<>> for the state that action results in
    Times, Sync,                \* expiration times: the larger, the more urgent
    MaxUpdates, MaxParentUpdates, MaxDiscards     \* bounds

NoWork  == 0
NoState == -1       \* undefined: no eager state, no destroy function
Gone    == "gone"   \* not a value of props: the parent does not render it

ASSUME ComponentAssumption ==
    /\ InitialState \in States /\ NoState \notin States
    /\ Actions \subseteq [States -> States]
    /\ Gone \notin Props
    /\ \A props \in Props, s \in States :
         \/ RenderPhaseUpdate(props, s) = <<>>
         \/ \E action \in [States -> States] :
              /\ RenderPhaseUpdate(props, s) = <<action>>
              /\ RenderPhaseUpdate(props, action[s]) = <<>>
ASSUME TimesAssumption == Times \subseteq Nat \ {0} /\ Sync \in Times /\ \A t \in Times : t <= Sync
ASSUME BoundsAssumption == MaxUpdates \in Nat /\ MaxParentUpdates \in Nat /\ MaxDiscards \in Nat

Kinds == {"layout", "passive"}

\* An update is a record of time, action and eager, the eagerly computed state; an
\* effect one of hasEffect, deps and destroy, the instance it destroys.  An effect
\* with deps NoState is none.
NoEffect == [hasEffect |-> FALSE, deps |-> NoState, destroy |-> NoState]

NoFiber == [is |-> FALSE]

VARIABLES
    queue,         \* the queue of the reducer, shared by the two fibers
    current, alternate,
    parent,        \* the props it last committed, and its childExpirationTime
    waiting,       \* the parent's update that is not committed: a set, empty or not
    pc,            \* "idle", or "rendered": there is a finished tree
    render,        \* what the render under way did to parent and component
    passive,       \* does a flush of passive effects wait?
    (* history, read by the properties and the bounds only *)
    alive,         \* the instances of effects that are not destroyed, counted
    screen,        \* the state the children were last made from
    expected,      \* what all actions so far make of the initial state, as long as
                   \* the component cannot have dispatched any itself
    spoilt,        \* what the code is known to have broken (README, Findings):
                   \* "skipped": a dispatch of the component overwrote the time of
                   \*   the updates that its render had skipped
                   \* "bailout": a bail-out that was thrown away had cleared it
                   \* "eager": a state that was thrown away is taken for the one
                   \*   that was last rendered
                   \* "effect": the hook has kept the effect of an earlier pass
    made, parentMade, discards

history == <<alive, screen, expected, spoilt>>
bounds  == <<made, parentMade, discards>>
vars    == <<queue, current, alternate, parent, waiting, pc, render, passive, history, bounds>>

NoQueue == [pending |-> <<>>, lastRenderedState |-> NoState]

NoRender == [props |-> Gone, parentRenders |-> FALSE, does |-> "nothing", drops |-> FALSE]

\* The first render of the parent waits.
Init ==
    /\ queue = NoQueue
    /\ current = NoFiber /\ alternate = NoFiber
    /\ parent = [props |-> Gone, childTime |-> NoWork]
    /\ \E props \in Props : waiting = {[time |-> Sync, props |-> props]}
    /\ pc = "idle" /\ render = NoRender
    /\ passive = FALSE
    /\ alive = [k \in Kinds |-> [s \in States |-> 0]]
    /\ screen = NoState /\ expected = InitialState /\ spoilt = {}
    /\ made = 0 /\ parentMade = 0 /\ discards = 0

Later(s, t) == IF s > t THEN s ELSE t

-----------------------------------------------------------------------------
(* Updates *)

\* Mutant: looks at one fiber only.
Eagerly_oneFiber == current.time = NoWork

\* Nothing waits in the queue as far as the fibers know.
Eagerly == current.time = NoWork /\ (alternate.is => alternate.time = NoWork)

\* Mutant: forgets the parent.
MarkUpdateTime_fiberOnly(time) ==
    /\ current' = [current EXCEPT !.time = Later(@, time)]
    /\ alternate' = IF alternate.is THEN [alternate EXCEPT !.time = Later(@, time)] ELSE alternate
    /\ UNCHANGED parent

\* markUpdateTimeFromFiberToRoot: the fiber, its alternate, and the parent.
MarkUpdateTime(time) ==
    /\ current' = [current EXCEPT !.time = Later(@, time)]
    /\ alternate' = IF alternate.is THEN [alternate EXCEPT !.time = Later(@, time)] ELSE alternate
    /\ parent' = [parent EXCEPT !.childTime = Later(@, time)]

\* dispatchAction, from outside a render.  The next state is computed at once if
\* nothing waits; if it is the state that was last rendered, the update stays in
\* the queue and no render is scheduled.
dispatchAction(time, action) ==
    /\ current.is /\ made < MaxUpdates
    /\ LET eager  == IF Eagerly THEN action[queue.lastRenderedState] ELSE NoState
           update == [time |-> time, action |-> action, eager |-> eager]
       IN  /\ queue' = [queue EXCEPT !.pending = Append(@, update)]
           /\ IF eager = queue.lastRenderedState THEN UNCHANGED <<current, alternate, parent>>
              ELSE MarkUpdateTime(time)
    /\ expected' = IF expected = NoState THEN NoState ELSE action[expected]
    /\ made' = made + 1
    /\ UNCHANGED <<waiting, pc, render, passive, alive, screen, spoilt, parentMade, discards>>

\* The parent is updated; one update of it at a time.
updateParent(time, props) ==
    /\ pc = "idle" /\ waiting = {} /\ parentMade < MaxParentUpdates
    /\ waiting' = {[time |-> time, props |-> props]}
    /\ parentMade' = parentMade + 1
    /\ UNCHANGED <<queue, current, alternate, parent, pc, render, passive, history, made, discards>>

-----------------------------------------------------------------------------
(* renderWithHooks.  A pass is one call of the component: what it has made  *)
(* of the work in progress and of the queue so far.                         *)

\* One update of the queue in updateReducer's loop: skipped if its priority is
\* insufficient, applied otherwise, and kept behind one that was skipped.
processUpdate(pass, update, renderTime) ==
    IF update.time < renderTime
    THEN [pass EXCEPT !.baseState = IF pass.baseQueue = <<>> THEN pass.state ELSE @,
                      !.baseQueue = Append(@, update),
                      !.time = Later(@, update.time)]
    ELSE [pass EXCEPT !.state = IF update.eager # NoState THEN update.eager ELSE update.action[@],
                      !.baseQueue = IF @ = <<>> THEN @
                                    ELSE Append(@, [update EXCEPT !.time = Sync])]

\* Mutant: compares with the last render, committed or not.
ReceivesUpdate_rendered(state) == state # queue.lastRenderedState

\* The component must render its children anew: markWorkInProgressReceivedUpdate.
ReceivesUpdate(state) == state # current.state

\* updateReducer's loop over all that waits, from the base state on.
processUpdates(pass, renderTime) ==
    Fold(LAMBDA p, u : processUpdate(p, u, renderTime),
         [pass EXCEPT !.state = current.baseState, !.baseQueue = <<>>],
         current.baseQueue \o queue.pending)

updateReducer(pass, renderTime) ==
    IF current.baseQueue \o queue.pending = <<>> THEN pass
    ELSE With(processUpdates(pass, renderTime),
              LAMBDA done :
                [done EXCEPT !.baseState = IF done.baseQueue = <<>> THEN done.state ELSE @,
                             !.received = @ \/ ReceivesUpdate(done.state),
                             !.lastRenderedState = done.state])

\* What the updates of a sequence make of a state.
Replay(state, updates) == Fold(LAMBDA s, u : u.action[s], state, updates)

\* rerenderReducer: the render phase updates, on top of the pass before.
rerenderReducer(pass) ==
    IF pass.pending = <<>> THEN pass
    ELSE With(Replay(pass.state, pass.pending),
              LAMBDA state :
                [pass EXCEPT !.state = state,
                             !.pending = <<>>,
                             !.received = @ \/ state # pass.state,
                             !.baseState = IF pass.baseQueue = <<>> THEN state ELSE @,
                             !.lastRenderedState = state])

\* updateEffectImpl; and mountEffectImpl, with nothing to compare.  A hook keeps
\* the effect it has if the state is that of the effect of current.
UpdateEffects(pass) ==
    LET previous(k) == IF current.is THEN current.hook[k] ELSE NoEffect
        same == {k \in Kinds : previous(k).deps = pass.state}
        list == [k \in Kinds |-> [hasEffect |-> k \notin same, deps |-> pass.state,
                                  destroy |-> previous(k).destroy]]
    IN  [pass EXCEPT !.list = list,
                     !.hook = [k \in Kinds |-> IF k \in same THEN pass.hook[k] ELSE list[k]],
                     !.changed = @ \/ same # Kinds]

\* The rest of a pass: the effects, and dispatchAction by the component itself,
\* which sets the time of the work in progress to that of the render.
Component(pass, props, renderTime) ==
    With(UpdateEffects(pass),
         LAMBDA done :
           LET dispatched == RenderPhaseUpdate(props, done.state)
           IN  IF dispatched = <<>> THEN done
               ELSE [done EXCEPT !.pending = [i \in DOMAIN dispatched |->
                                                [time |-> renderTime, action |-> dispatched[i],
                                                 eager |-> NoState]],
                                 !.time = renderTime,
                                 !.drops = @ \/ done.time # NoWork])

\* What mountReducer and mountEffect start from.
Blank ==
    [state |-> InitialState, baseState |-> InitialState, baseQueue |-> <<>>,
     hook |-> [k \in Kinds |-> NoEffect], list |-> [k \in Kinds |-> NoEffect]]

\* A new fiber, or a copy of current, before its first pass, and what only a pass has.
AsPass(fiber, received, lastRenderedState) ==
    [time |-> NoWork, state |-> fiber.state, baseState |-> fiber.baseState,
     baseQueue |-> fiber.baseQueue, hook |-> fiber.hook, list |-> fiber.list, changed |-> FALSE,
     pending |-> <<>>, received |-> received, lastRenderedState |-> lastRenderedState,
     drops |-> FALSE]

AsFiber(pass) ==
    [is |-> TRUE, time |-> pass.time, state |-> pass.state, baseState |-> pass.baseState,
     baseQueue |-> pass.baseQueue, hook |-> pass.hook, list |-> pass.list,
     changed |-> pass.changed]

\* The first pass of a render.
FirstPass(props, received, renderTime) ==
    LET pass == IF current.is
                THEN updateReducer(AsPass(current, received, queue.lastRenderedState), renderTime)
                ELSE AsPass(Blank, TRUE, InitialState)
    IN  Component(pass, props, renderTime)

\* The pass after one in which the component dispatched.
NextPass(pass, props, renderTime) ==
    Component(rerenderReducer([pass EXCEPT !.time = NoWork]), props, renderTime)

renderWithHooks(props, received, renderTime) ==
    With(FirstPass(props, received, renderTime),
         LAMBDA pass : IF pass.time = renderTime THEN NextPass(pass, props, renderTime) ELSE pass)

\* Every render that reaches the reducer moves the new updates to the base queue
\* of current; the state it results in is the last one rendered, committed or not.
TakePending(pass) ==
    queue' = [pending |-> <<>>, lastRenderedState |-> pass.lastRenderedState]

CurrentTakesPending == [current EXCEPT !.baseQueue = @ \o queue.pending]

-----------------------------------------------------------------------------
(* The render phase *)

FirstPendingTime ==
    Later(parent.childTime, IF waiting = {} THEN NoWork ELSE (CHOOSE u \in waiting : TRUE).time)

ParentRenders(time) == \E update \in waiting : update.time >= time

PropsAt(time) ==
    IF ParentRenders(time) THEN (CHOOSE u \in waiting : TRUE).props ELSE parent.props

\* Mutant: passive effects may still be pending.
CanRender_early(time) ==
    /\ pc = "idle"
    /\ time <= FirstPendingTime

\* The root is rendered at some time it has work for; pending passive effects are
\* flushed first.
CanRender(time) ==
    /\ pc = "idle" /\ ~passive
    /\ time <= FirstPendingTime

Renders(time, does, drops) ==
    /\ pc' = "rendered"
    /\ render' = [props |-> PropsAt(time), parentRenders |-> ParentRenders(time),
                  does |-> does, drops |-> drops]
    /\ UNCHANGED <<parent, waiting, passive, history, bounds>>

\* The component is mounted.
mountFunctionComponent(time) ==
    /\ CanRender(time)
    /\ ~current.is /\ PropsAt(time) # Gone
    /\ \E pass \in {renderWithHooks(PropsAt(time), TRUE, time)} :
         /\ alternate' = AsFiber(pass)
         /\ TakePending(pass)
         /\ Renders(time, "renders", FALSE)
    /\ UNCHANGED current

\* deleteChild: the component is deleted, or there was none.
deleteComponent(time) ==
    /\ CanRender(time)
    /\ PropsAt(time) = Gone
    /\ Renders(time, "deletes", FALSE)
    /\ UNCHANGED <<queue, current, alternate>>

\* beginWork finds neither new props nor work of this priority: bailout.
bailoutOnAlreadyFinishedWork(time) ==
    /\ CanRender(time)
    /\ current.is /\ ~ParentRenders(time) /\ current.time < time
    /\ alternate' = [current EXCEPT !.changed = FALSE]
    /\ Renders(time, "bailsOut", FALSE)
    /\ UNCHANGED <<queue, current>>

\* updateFunctionComponent calls the component; bailoutHooks if its state and its
\* props are what they were.
updateFunctionComponent(time) ==
    /\ CanRender(time)
    /\ current.is /\ PropsAt(time) # Gone
    /\ ParentRenders(time) \/ current.time >= time
    /\ \E pass \in {renderWithHooks(PropsAt(time), ParentRenders(time), time)} :
         /\ TakePending(pass)
         /\ IF pass.received
            THEN /\ alternate' = AsFiber(pass)
                 /\ current' = CurrentTakesPending
            ELSE /\ alternate' = [AsFiber(pass) EXCEPT !.list = current.list, !.changed = FALSE]
                 /\ current' = [CurrentTakesPending EXCEPT !.time = IF @ <= time THEN NoWork ELSE @]
         /\ Renders(time, IF pass.received THEN "renders" ELSE "bailsOut", pass.drops)

-----------------------------------------------------------------------------
(* Renders that are thrown away *)

\* All that is left of a fiber that is not current, as far as anyone reads it.
Leftover(fiber) == IF fiber.is THEN [is |-> TRUE, time |-> fiber.time] ELSE NoFiber

\* An eager state was, or may be, computed from the wrong one.
MistakesState(lastRenderedState, pending) ==
    /\ lastRenderedState # current.state
    /\ current.time = NoWork \/ \E update \in ToSet(pending) : update.eager # NoState

\* What the render that is thrown away has broken.
Breaks ==
    {flaw \in {"bailout", "eager"} :
       /\ current.is
       /\ \/ flaw = "bailout" /\ render.does = "bailsOut" /\ alternate.time > current.time
          \/ flaw = "eager" /\ MistakesState(queue.lastRenderedState, queue.pending)}

\* An update of higher priority comes, or another part of the tree throws.
discard ==
    /\ pc = "rendered" /\ discards < MaxDiscards
    /\ pc' = "idle" /\ render' = NoRender
    /\ alternate' = IF current.is THEN Leftover(alternate) ELSE NoFiber
    /\ queue' = IF current.is THEN queue ELSE NoQueue
    /\ spoilt' = spoilt \cup Breaks
    /\ discards' = discards + 1
    /\ UNCHANGED <<current, parent, waiting, passive, alive, screen, expected, made, parentMade>>

\* The updates of the render phase are removed from the queue.
resetHooksAfterThrow(pass) == TakePending(pass)

\* The component throws in its first pass, having dispatched or not.
throwWhileRendering(time) ==
    /\ CanRender(time)
    /\ discards < MaxDiscards
    /\ current.is /\ PropsAt(time) # Gone
    /\ ParentRenders(time) \/ current.time >= time
    /\ \E pass \in {FirstPass(PropsAt(time), ParentRenders(time), time)} :
         /\ resetHooksAfterThrow(pass)
         /\ current' = CurrentTakesPending
         /\ alternate' = Leftover(AsFiber(pass))
         /\ spoilt' = spoilt \cup (IF MistakesState(pass.lastRenderedState, <<>>) THEN {"eager"} ELSE {})
    /\ discards' = discards + 1
    /\ UNCHANGED <<parent, waiting, pc, render, passive, alive, screen, expected, made, parentMade>>

-----------------------------------------------------------------------------
(* The commit phase *)

\* e.destroy and e.create are called.
Ran(instances, e) ==
    [s \in States |-> instances[s] - (IF e.destroy = s THEN 1 ELSE 0)
                                   + (IF e.deps = s THEN 1 ELSE 0)]

\* The effect in the list is that of the hook; its destroy function is a new one.
CommitHookEffects(fiber, k) ==
    IF fiber.changed /\ fiber.list[k].hasEffect
    THEN [fiber EXCEPT !.list[k].destroy = fiber.list[k].deps,
                       !.hook[k].destroy = fiber.list[k].deps]
    ELSE fiber

AliveAfter(fiber, k) ==
    IF fiber.changed /\ fiber.list[k].hasEffect
    THEN [alive EXCEPT ![k] = Ran(@, fiber.list[k])]
    ELSE alive

MayDispatch(props) == \E s \in States : RenderPhaseUpdate(props, s) # <<>>

\* Layout effects run now, passive ones later.
commitRoot ==
    /\ pc = "rendered" /\ render.does # "deletes"
    /\ pc' = "idle" /\ render' = NoRender
    /\ current' = CommitHookEffects(alternate, "layout")
    /\ alternate' = Leftover(current)
    /\ parent' = [props |-> render.props, childTime |-> alternate.time]
    /\ waiting' = IF render.parentRenders THEN {} ELSE waiting
    /\ passive' = alternate.changed
    /\ alive' = AliveAfter(alternate, "layout")
    /\ screen' = IF render.does = "renders" THEN alternate.state ELSE screen
    /\ expected' = IF MayDispatch(render.props) THEN NoState ELSE expected
    /\ spoilt' = spoilt \cup (IF render.drops THEN {"skipped"} ELSE {})
                        \cup (IF \E k \in Kinds : alternate.hook[k].deps # alternate.list[k].deps
                              THEN {"effect"} ELSE {})
    /\ UNCHANGED <<queue, bounds>>

\* commitUnmount: all effects are destroyed; detachFiber.
commitDeletion ==
    /\ pc = "rendered" /\ render.does = "deletes"
    /\ pc' = "idle" /\ render' = NoRender
    /\ queue' = NoQueue /\ current' = NoFiber /\ alternate' = NoFiber
    /\ parent' = [props |-> Gone, childTime |-> NoWork]
    /\ waiting' = IF render.parentRenders THEN {} ELSE waiting
    /\ alive' = IF ~current.is THEN alive
                ELSE [k \in Kinds |-> Ran(alive[k], [current.list[k] EXCEPT !.deps = NoState])]
    /\ screen' = NoState /\ expected' = InitialState /\ spoilt' = {}
    /\ UNCHANGED <<passive, bounds>>

\* commitPassiveHookEffects, in a task of its own or before the next render.
flushPassiveEffects ==
    /\ pc = "idle" /\ passive
    /\ passive' = FALSE
    /\ current' = CommitHookEffects(current, "passive")
    /\ alive' = AliveAfter(current, "passive")
    /\ UNCHANGED <<queue, alternate, parent, waiting, pc, render, screen, expected, spoilt, bounds>>

-----------------------------------------------------------------------------
Render ==
    \E time \in Times :
      \/ mountFunctionComponent(time)
      \/ deleteComponent(time)
      \/ bailoutOnAlreadyFinishedWork(time)
      \/ updateFunctionComponent(time)

Commit == commitRoot \/ commitDeletion

Next ==
    \/ \E time \in Times, action \in Actions : dispatchAction(time, action)
    \/ \E time \in Times, props \in Props \cup {Gone} : updateParent(time, props)
    \/ Render
    \/ \E time \in Times : throwWhileRendering(time)
    \/ discard
    \/ Commit
    \/ flushPassiveEffects

Spec == Init /\ [][Next]_vars

\* The root is scheduled while it has work, the rendered tree is committed if it
\* is not thrown away, and a flush of passive effects is scheduled by the commit.
FairSpec == Spec /\ WF_vars(Render) /\ WF_vars(Commit) /\ WF_vars(flushPassiveEffects)

-----------------------------------------------------------------------------
(* Properties *)

\* The state that all updates make of the base state.
Replayed == Replay(current.baseState, current.baseQueue \o queue.pending)

\* A component that no time marks shows all that was dispatched; one that a time
\* marks can be reached from the parent.
NothingIsLost ==
    pc = "idle" /\ current.is =>
      /\ current.time <= parent.childTime
      /\ current.time = NoWork => Replayed = current.state /\ expected \in {current.state, NoState}

\* No update is forgotten over skipping, rebasing, eager states and bail-outs,
\* renders that are thrown away and dispatches by the component itself, but for
\* the flaws.
NothingIsForgotten == spoilt \subseteq {"effect"} => NothingIsLost

\* The updates that the last render has skipped still have their time marked on
\* the component ("Update the remaining priority in the queue."); the copies of
\* those that were not skipped have the time Sync.
SkippedUpdatesAreMarked ==
    pc = "idle" /\ current.is =>
      \A update \in ToSet(current.baseQueue) : update.time = Sync \/ update.time <= current.time

\* Of each effect one instance is alive, the one of the committed state, and none
\* when the component is gone; a passive effect may lag until it is flushed.
EffectsFollowState ==
    pc = "idle" /\ "effect" \notin spoilt =>
      \A k \in Kinds : k = "layout" \/ ~passive =>
        alive[k] = [s \in States |-> IF current.is /\ s = current.state THEN 1 ELSE 0]

\* A render that ends in a bail-out leaves children that were made from the same
\* state; and no state the component would have replaced at once is shown.
ScreenShowsState ==
    pc = "idle" /\ current.is =>
      /\ screen = current.state
      /\ RenderPhaseUpdate(parent.props, screen) = <<>>

\* Time and again, the screen shows all updates that were made.
EveryUpdateIsShown ==
    []<>(spoilt \subseteq {"effect"} /\ current.is => screen = Replayed)
===============================================================================
