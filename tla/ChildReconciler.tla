--------------------------- MODULE ChildReconciler ---------------------------
(***************************************************************************)
(* How the elements a component returned are matched with the fibers of    *)
(* its last render (ReactChildFiber.js).                                   *)
(*                                                                         *)
(* A fiber and its alternate are one record with one id: "has an           *)
(* alternate" is "has an id already".  The id 0 is that of a fiber made by *)
(* this render.  The kids of a fiber that has not begun are those of its   *)
(* current alternate, as createWorkInProgress leaves them.  text is that    *)
(* of a host node with a text of its own instead of kids.  A nested array  *)
(* is an unkeyed Fragment element, and what a component returns are its    *)
(* element's children.  Sibling keys are unique, as React requires.        *)
(***************************************************************************)
EXTENDS Integers, Sequences, SequencesExt, Strict

NoKey == "no key"

\* What a JSX position can hold.  children is one element or an array of them.
Children(single, list) == [single |-> single, list |-> list]
Nothing == Children(FALSE, <<>>)
Element(type, key, children) ==
    [type |-> type, key |-> key, children |-> children, suspends |-> FALSE, fallback |-> Nothing]
Hole == Element("null", NoKey, Nothing)
Suspense(key, children, fallback, suspends) ==
    [type |-> "Suspense", key |-> key, children |-> children, suspends |-> suspends,
     fallback |-> fallback]

HostComponents == {"div", "p"}
IsHost(type) == type \in HostComponents \cup {"#text"}
IsHostParent(type) == type \in HostComponents \cup {"root"}

createFiber(el) ==
    [id |-> 0, type |-> el.type, key |-> el.key, index |-> 0, timedOut |-> FALSE, kids |-> <<>>,
     text |-> FALSE, placed |-> FALSE, update |-> FALSE, reset |-> FALSE, dels |-> <<>>,
     shared |-> FALSE]

useFiber(fiber) ==
    [fiber EXCEPT !.index = 0, !.placed = FALSE, !.update = FALSE, !.reset = FALSE, !.dels = <<>>,
                  !.shared = FALSE]

IsNew(fiber) == fiber.id = 0

-----------------------------------------------------------------------------
(* One child.  A fiber that may be missing is a sequence of at most one.   *)

updateElement(slot, el) ==
    IF slot # <<>> /\ slot[1].type = el.type THEN useFiber(slot[1]) ELSE createFiber(el)

updateSlot(slot, el) ==
    IF el = Hole \/ el.key # (IF slot = <<>> THEN NoKey ELSE slot[1].key)
    THEN <<>>
    ELSE <<updateElement(slot, el)>>

\* Mutant: a fiber at the index of the last one that stays is moved as well.
placeChild_Strictly(fiber, lastPlacedIndex, newIdx, track) ==
    LET here == [fiber EXCEPT !.index = newIdx]
        stays == ~IsNew(fiber) /\ fiber.index > lastPlacedIndex
    IN  [fiber |-> [here EXCEPT !.placed = track /\ ~stays],
         last  |-> IF track /\ stays THEN fiber.index ELSE lastPlacedIndex]

\* The index at which the fiber was last time, or that of the last one that stays.
placeChild(fiber, lastPlacedIndex, newIdx, track) ==
    LET here == [fiber EXCEPT !.index = newIdx]
        stays == ~IsNew(fiber) /\ fiber.index >= lastPlacedIndex
    IN  [fiber |-> [here EXCEPT !.placed = track /\ ~stays],
         last  |-> IF track /\ stays THEN fiber.index ELSE lastPlacedIndex]

\* useFiber clears the index of the clone: placeChild reads it in the alternate.
Added(acc, slot, el, newIdx, track) ==
    LET fiber == updateElement(slot, el)
        alternate == IF IsNew(fiber) THEN fiber ELSE [fiber EXCEPT !.index = slot[1].index]
        p == placeChild(alternate, acc.last, newIdx, track)
    IN  [acc EXCEPT !.work = Append(@, [fiber |-> p.fiber, el |-> el]), !.last = p.last]

-----------------------------------------------------------------------------
(* An array of children: in step with the old ones as far as their keys    *)
(* agree, and then through a map.  Both loops take the elements one by one *)
(* and keep, in acc, the element n that the first loop is at, the existing *)
(* children that are not used yet, and what has been made of the others.   *)

\* Mutant: the fiber of another type in the slot is not deleted.
Replaced_Forgotten(slot, el, track) == <<>>

\* The fiber in the slot, when the element makes a new one in its place.
Replaced(slot, el, track) == IF track /\ slot # <<>> /\ slot[1].type # el.type THEN slot ELSE <<>>

\* The loop ends, for all the elements to come, where the keys differ.
InStep(acc, n, els, track) ==
    LET slot == IF Head(acc.existing).index > n - 1 THEN <<>> ELSE <<Head(acc.existing)>>
    IN  IF acc.n # n \/ acc.existing = <<>> \/ updateSlot(slot, els[n]) = <<>> THEN acc
        ELSE [Added(acc, slot, els[n], n - 1, track) EXCEPT
                 !.n = n + 1,
                 !.existing = IF slot = <<>> THEN @ ELSE Tail(@),
                 !.dels = @ \o Replaced(slot, els[n], track)]

\* Mutant: the map forgets the keys.
MapKey_Index(fiber) == <<"index", fiber.index>>
MapKey(fiber) == IF fiber.key = NoKey THEN <<"index", fiber.index>> ELSE <<"key", fiber.key>>
ElementKey(el, newIdx) == IF el.key = NoKey THEN <<"index", newIdx>> ELSE <<"key", el.key>>

\* Where the existing child with the element's key is.
updateFromMap(existing, el, newIdx) ==
    {k \in 1..Len(existing) : MapKey(existing[k]) = ElementKey(el, newIdx)}

ByKey(acc, n, els, track) ==
    LET found == updateFromMap(acc.existing, els[n], n - 1)
        at == CHOOSE k \in found : TRUE
        slot == IF found = {} THEN <<>> ELSE <<acc.existing[at]>>
        reused == found # {} /\ slot[1].type = els[n].type
    IN  IF n < acc.n \/ els[n] = Hole THEN acc
        ELSE [Added(acc, slot, els[n], n - 1, track) EXCEPT
                 !.existing = IF reused THEN RemoveAt(@, at) ELSE @]

NothingDone(old) == [n |-> 1, existing |-> old, work |-> <<>>, dels |-> <<>>, last |-> 0]
Positions(els) == [n \in 1..Len(els) |-> n]

reconcileChildrenArray(old, els, track) ==
    LET inStep == Fold(LAMBDA acc, n : InStep(acc, n, els, track), NothingDone(old), Positions(els))
        all == Fold(LAMBDA acc, n : ByKey(acc, n, els, track), inStep, Positions(els))
    IN  [work |-> all.work, dels |-> all.dels \o (IF track THEN all.existing ELSE <<>>)]

\* The first child with the key is the only candidate; every other child goes.
reconcileSingleElement(old, el, track) ==
    LET candidates == {i \in 1..Len(old) : IF el.type = "#text" THEN i = 1 ELSE old[i].key = el.key}
        reused == {i \in candidates : old[i].type = el.type /\ \A j \in candidates : i <= j}
        fiber == IF reused = {} THEN [createFiber(el) EXCEPT !.placed = track]
                 ELSE useFiber(old[CHOOSE i \in reused : TRUE])
    IN  [work |-> <<[fiber |-> fiber, el |-> el]>>,
         dels |-> IF ~track THEN <<>>
                  ELSE IF reused = {} THEN old ELSE RemoveAt(old, CHOOSE i \in reused : TRUE)]

reconcileChildFibers(old, children, track) ==
    LET isUnkeyedTopLevelFragment ==
            children.single /\ children.list[1].type = "Fragment" /\ children.list[1].key = NoKey
        c == IF isUnkeyedTopLevelFragment THEN children.list[1].children ELSE children
    IN  IF c.single THEN reconcileSingleElement(old, c.list[1], track)
        ELSE reconcileChildrenArray(old, c.list, track)
=============================================================================
