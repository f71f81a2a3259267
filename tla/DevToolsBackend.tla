---------------------------- MODULE DevToolsBackend ----------------------------
(***************************************************************************)
(* What the DevTools backend tells its frontend about a commit             *)
(* (react-devtools-shared/src/backend/renderer.js).  An element of the     *)
(* frontend has the id of its fiber; tracked is the fibers that have an    *)
(* entry in fiberToIDMap.  A message is the ids to remove, in order, and   *)
(* then the other operations.  filters is the element types to leave out.  *)
(***************************************************************************)
EXTENDS HostCommit

\* The root fiber, which every commit renders anew, has the first id.
Root == 1
NoParent == 0

ElementType(type) ==
    CASE type \in HostComponents -> "host"
      [] type = "Foo" -> "function"
      [] OTHER -> type

shouldFilterFiber(filters, fiber) ==
    fiber.type \in {"#text", "Fragment"} \/ ElementType(fiber.type) \in filters

\* The fibers a walk down the tree on screen finds below a fiber.
ShownKids(fiber) == IF fiber.timedOut THEN fiber.kids[2].kids ELSE fiber.kids

recordMount(fiber, parent) == <<[op |-> "add", id |-> fiber.id, parent |-> parent]>>

RECURSIVE mountFiberRecursively(_, _, _)
MountAll(filters, fibers, parent) ==
    Concat([i \in 1..Len(fibers) |-> mountFiberRecursively(filters, fibers[i], parent)])
mountFiberRecursively(filters, fiber, parent) ==
    IF shouldFilterFiber(filters, fiber) THEN MountAll(filters, ShownKids(fiber), parent)
    ELSE recordMount(fiber, parent) \o MountAll(filters, ShownKids(fiber), fiber.id)

\* Children before their parents.
RECURSIVE unmountFiberChildrenRecursively(_)
unmountFiberChildrenRecursively(fiber) ==
    Concat([i \in 1..Len(ShownKids(fiber)) |->
        Append(unmountFiberChildrenRecursively(ShownKids(fiber)[i]), ShownKids(fiber)[i])])

\* recordUnmount of each: a fiber without an id was never mounted, or has been
\* unmounted by a boundary that timed out.
UnmountedIds(filters, tracked, fibers) ==
    LET told == SelectSeq(fibers, LAMBDA f : f.id \in tracked /\ ~shouldFilterFiber(filters, f))
    IN  [i \in 1..Len(told) |-> told[i].id]

RECURSIVE findReorderedChildrenRecursively(_, _)
findReorderedChildrenRecursively(filters, fiber) ==
    IF ~shouldFilterFiber(filters, fiber) THEN <<fiber.id>>
    ELSE Concat([i \in 1..Len(fiber.kids) |->
                    findReorderedChildrenRecursively(filters, fiber.kids[i])])

\* Mutant: no special case for a boundary that shows its fallback.
recordResetChildren_Primary(filters, fiber) ==
    LET nextChildren == Concat([i \in 1..Len(fiber.kids) |->
                            findReorderedChildrenRecursively(filters, fiber.kids[i])])
    IN  IF Len(nextChildren) < 2 THEN <<>>
        ELSE <<[op |-> "reorder", id |-> fiber.id, kids |-> nextChildren]>>

recordResetChildren(filters, fiber) ==
    LET childSet == IF fiber.timedOut THEN <<fiber.kids[2]>> ELSE fiber.kids
        nextChildren == Concat([i \in 1..Len(childSet) |->
                            findReorderedChildrenRecursively(filters, childSet[i])])
    IN  IF Len(nextChildren) < 2 THEN <<>>
        ELSE <<[op |-> "reorder", id |-> fiber.id, kids |-> nextChildren]>>

-----------------------------------------------------------------------------
(* One fiber that was there before.  The result is its operations, the     *)
(* fibers it unmounts though React keeps them, and whether the nearest     *)
(* unfiltered ancestor has to reset its children.  In the three cases of a *)
(* boundary that shows or showed its fallback the parent passed on is the  *)
(* boundary, even when it is filtered out.                                 *)

RECURSIVE updateFiberRecursively(_, _, _, _, _)

\* The loop over the children.  at is the index of prevChildAtSameIndex.
UpdateChildren(filters, alternates, next, prev, parent) ==
    LET update(k) ==
            LET old == {f \in alternates : f.id = k.id}
            IN  IF old = {}
                THEN [ops |-> mountFiberRecursively(filters, k, parent), gone |-> <<>>, reset |-> TRUE]
                ELSE updateFiberRecursively(filters, alternates, k, CHOOSE f \in old : TRUE, parent)
        step(a, k) ==
            LET same == a.at <= Len(prev.kids) /\ prev.kids[a.at].id = k.id
                after(u, reset) == [ops |-> a.ops \o u.ops, gone |-> a.gone \o u.gone, reset |-> reset,
                                    at |-> IF reset THEN a.at ELSE a.at + 1]
            IN  With(update(k), LAMBDA u : after(u, a.reset \/ u.reset \/ ~same))
    IN  With(Fold(step, [ops |-> <<>>, gone |-> <<>>, reset |-> FALSE, at |-> 1], next.kids),
             LAMBDA end : [ops |-> end.ops, gone |-> end.gone,
                           reset |-> end.reset \/ end.at <= Len(prev.kids)])

\* alternates is the fibers of the tree before.
updateFiberRecursively(filters, alternates, next, prev, parent) ==
    LET included == ~shouldFilterFiber(filters, next)
        body ==
            CASE prev.timedOut /\ next.timedOut ->
                   updateFiberRecursively(filters, alternates, next.kids[2], prev.kids[2], next.id)
              [] prev.timedOut /\ ~next.timedOut ->
                   [ops |-> MountAll(filters, next.kids, next.id), gone |-> <<>>, reset |-> TRUE]
              [] ~prev.timedOut /\ next.timedOut ->
                   [ops |-> mountFiberRecursively(filters, next.kids[2], next.id),
                    gone |-> unmountFiberChildrenRecursively(prev), reset |-> TRUE]
              [] ~prev.timedOut /\ ~next.timedOut /\ next.shared ->
                   [ops |-> <<>>, gone |-> <<>>, reset |-> FALSE]
              [] OTHER ->
                   UpdateChildren(filters, alternates, next, prev, IF included THEN next.id ELSE parent)
    IN  With(body, LAMBDA b :
            IF included /\ b.reset
            THEN [b EXCEPT !.ops = @ \o recordResetChildren(filters, next), !.reset = FALSE]
            ELSE b)

-----------------------------------------------------------------------------
(* A commit.                                                               *)

\* The element of the root is not null: an application here renders either
\* null or something that has a fiber.
Mounted(tree) == tree.kids # <<>>

Message(removes, ops) == [removes |-> removes, ops |-> ops]
SaysNothing(message) == message.removes = <<>> /\ message.ops = <<>>

OpIds(ops) ==
    UNION {CASE ops[i].op = "add" -> {ops[i].id, ops[i].parent} \ {NoParent}
             [] ops[i].op = "reorder" -> {ops[i].id} \cup ToSet(ops[i].kids) : i \in 1..Len(ops)}

FiberIds(fibers) == {fibers[i].id : i \in 1..Len(fibers)}

\* unmounted is what React passed to onCommitFiberUnmount; next still has the
\* marks of the render, prev is the alternate of the root.
handleCommitFiberRoot(filters, tracked, prev, next, unmounted) ==
    LET known == tracked \ FiberIds(unmounted)
        told == CASE ~Mounted(prev) /\ Mounted(next) ->
                       [ops |-> mountFiberRecursively(filters, next, NoParent), gone |-> <<>>]
                  [] Mounted(prev) /\ Mounted(next) ->
                       updateFiberRecursively(filters, Fibers(prev), next, prev, NoParent)
                  [] OTHER -> [ops |-> <<>>, gone |-> <<>>]
        left == Mounted(prev) /\ ~Mounted(next)
    IN  With(told, LAMBDA said :
            [message |-> Message(Reverse(UnmountedIds(filters, tracked, unmounted))
                                 \o UnmountedIds(filters, known, said.gone)
                                 \o (IF left THEN <<Root>> ELSE <<>>),
                                 said.ops),
             tracked |-> (((known \cup {Root}) \ FiberIds(said.gone)) \cup OpIds(said.ops))
                         \ (IF left THEN {Root} ELSE {})])

\* The filters of the user change: the root is unmounted and mounted again.
updateComponentFilters(filters, newFilters, tracked, tree) ==
    With(unmountFiberChildrenRecursively(tree), LAMBDA gone :
    With(mountFiberRecursively(newFilters, tree, NoParent), LAMBDA ops :
        [message |-> Message(UnmountedIds(filters, tracked, gone) \o <<Root>>, ops),
         tracked |-> (tracked \ FiberIds(gone)) \cup OpIds(ops)]))

\* The backend comes to a page that is already rendered.
flushInitialOperations(filters, tree) ==
    With(mountFiberRecursively(filters, tree, NoParent), LAMBDA ops :
        [message |-> Message(<<>>, ops), tracked |-> OpIds(ops)])
===============================================================================
