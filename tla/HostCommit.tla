------------------------------ MODULE HostCommit ------------------------------
(***************************************************************************)
(* The mutation half of a commit (ReactFiberCommitWork.js): the effects of *)
(* a finished tree, in the order of its effect list, applied to the host   *)
(* nodes.  A host node has the id of its fiber, and dom[p] is the list of  *)
(* the children of p, OwnText among them when p holds a text itself.       *)
(***************************************************************************)
EXTENDS BeginWork

NoNode == 0
OwnText == -1

\* The tree by id, with the return pointers.
FlatTree(tree) ==
    LET all == Fibers(tree)
        at(i) == CHOOSE f \in all : f.id = i
        parents(i) == {p \in all : \E k \in 1..Len(p.kids) : p.kids[k].id = i}
    IN  [i \in Ids(tree) |->
            [type |-> at(i).type, timedOut |-> at(i).timedOut,
             kids |-> [k \in 1..Len(at(i).kids) |-> at(i).kids[k].id],
             return |-> IF parents(i) = {} THEN NoNode ELSE (CHOOSE p \in parents(i) : TRUE).id]]

\* The host nodes a fiber puts into its host parent.
RECURSIVE TopHosts(_)
TopHosts(fiber) ==
    IF IsHost(fiber.type) THEN <<fiber.id>>
    ELSE Concat([i \in 1..Len(fiber.kids) |-> TopHosts(fiber.kids[i])])

HostChildren(fiber) ==
    IF fiber.text THEN <<OwnText>>
    ELSE Concat([i \in 1..Len(fiber.kids) |-> TopHosts(fiber.kids[i])])

\* A fiber before the fibers below it.
RECURSIVE PreOrder(_)
PreOrder(fiber) ==
    <<fiber>> \o Concat([i \in 1..Len(fiber.kids) |-> PreOrder(fiber.kids[i])])

-----------------------------------------------------------------------------
(* The effect list: deletions are found on the way down, everything else   *)
(* is appended on the way up.                                              *)

RECURSIVE EffectList(_)
EffectList(fiber) ==
    IF fiber.shared THEN <<>>
    ELSE [i \in 1..Len(fiber.dels) |-> [tag |-> "Deletion", fiber |-> fiber.dels[i], from |-> fiber.id]]
         \o Concat([i \in 1..Len(fiber.kids) |->
                LET k == fiber.kids[i]
                IN  EffectList(k)
                    \o (IF k.reset THEN <<[tag |-> "ContentReset", fiber |-> k]>> ELSE <<>>)
                    \o (IF k.placed THEN <<[tag |-> "Placement", fiber |-> k]>> ELSE <<>>)
                    \o (IF k.update THEN <<[tag |-> "Update", fiber |-> k]>> ELSE <<>>)])

-----------------------------------------------------------------------------
(* Where a node goes.                                                      *)

RECURSIVE getHostParentFiber(_, _)
getHostParentFiber(flat, i) ==
    LET p == flat[i].return IN IF IsHostParent(flat[p].type) THEN p ELSE getHostParentFiber(flat, p)

NextSibling(flat, i) ==
    LET siblings == flat[flat[i].return].kids
        at == CHOOSE k \in 1..Len(siblings) : siblings[k] = i
    IN  IF at = Len(siblings) THEN NoNode ELSE siblings[at + 1]

\* The first host node after fiber i that is in place: none of its ancestors
\* below the host parent is still to be placed.  toPlace is the fibers that
\* still have the Placement tag.
RECURSIVE getHostSibling(_, _, _), StableHostIn(_, _, _)

\* Mutant: a node that is still to be placed will do.
StableHostIn_Any(flat, toPlace, i) ==
    IF IsHost(flat[i].type) THEN i
    ELSE IF flat[i].kids = <<>> THEN getHostSibling(flat, toPlace, i)
    ELSE StableHostIn(flat, toPlace, flat[i].kids[1])

getHostSibling(flat, toPlace, i) ==
    IF NextSibling(flat, i) # NoNode THEN StableHostIn(flat, toPlace, NextSibling(flat, i))
    ELSE IF IsHostParent(flat[flat[i].return].type) THEN NoNode
    ELSE getHostSibling(flat, toPlace, flat[i].return)
StableHostIn(flat, toPlace, i) ==
    IF i \in toPlace THEN getHostSibling(flat, toPlace, i)
    ELSE IF IsHost(flat[i].type) THEN i
    ELSE IF flat[i].kids = <<>> THEN getHostSibling(flat, toPlace, i)
    ELSE StableHostIn(flat, toPlace, flat[i].kids[1])

-----------------------------------------------------------------------------
(* The host.  Inserting moves a node that is in the tree already; the host *)
(* throws when the reference node or the removed one is not a child.       *)

insertBefore(dom, parent, node, before) ==
    LET rest == [p \in DOMAIN dom |-> Remove(dom[p], node)]
        at == IF before = NoNode THEN Len(rest[parent]) + 1
              ELSE CHOOSE k \in 1..Len(rest[parent]) : rest[parent][k] = before
    IN  [rest EXCEPT ![parent] = InsertAt(@, at, node)]

\* Host nodes below fiber that hideOrUnhideAllChildren reaches: in a boundary
\* that shows its fallback, those of the fallback only.
RECURSIVE Toggled(_)
Toggled(fiber) ==
    IF IsHost(fiber.type) THEN {fiber.id}
    ELSE IF fiber.type = "Suspense" /\ fiber.timedOut THEN Toggled(fiber.kids[2])
    ELSE UNION {Toggled(fiber.kids[i]) : i \in 1..Len(fiber.kids)}

-----------------------------------------------------------------------------
(* The effects.  h is the host as they find it.                            *)

\* What is removed is unmounted in document order, parents first.
commitDeletion(flat, h, effect) ==
    LET parent == IF IsHostParent(flat[effect.from].type) THEN effect.from
                  ELSE getHostParentFiber(flat, effect.from)
        nodes == TopHosts(effect.fiber)
        there == ToSet(nodes) \subseteq ToSet(h.dom[parent])
    IN  [h EXCEPT !.dom[parent] = SelectSeq(@, LAMBDA n : n \notin ToSet(nodes)),
                  !.threw = @ \/ ~there,
                  !.unmounted = @ \o PreOrder(effect.fiber)]

\* The text goes, and with it every other child.
commitResetTextContent(h, i) ==
    IF i \in h.toReset THEN [h EXCEPT !.dom[i] = <<>>, !.toReset = @ \ {i}] ELSE h

commitPlacement(flat, h, effect) ==
    LET i == effect.fiber.id
        parent == getHostParentFiber(flat, i)
        before == getHostSibling(flat, h.toPlace, i)
        nodes == TopHosts(effect.fiber)
        found == before = NoNode \/ before \in ToSet(h.dom[parent]) \ ToSet(nodes)
    IN  IF found
        THEN [commitResetTextContent(h, parent) EXCEPT
                  !.dom = Fold(LAMBDA d, n : insertBefore(d, parent, n, before), @, nodes),
                  !.moved = @ \cup ToSet(nodes), !.toPlace = @ \ {i}]
        ELSE [h EXCEPT !.threw = TRUE, !.toPlace = @ \ {i}]

commitSuspenseComponent(h, f) ==
    LET hosts == IF f.timedOut THEN Toggled(f.kids[1])
                 ELSE UNION {Toggled(f.kids[k]) : k \in 1..Len(f.kids)}
    IN  [h EXCEPT !.hidden = IF f.timedOut THEN @ \cup hosts ELSE @ \ hosts]

\* The updates that this model tells apart.
commitWork(h, effect) ==
    IF effect.fiber.type = "Suspense" THEN commitSuspenseComponent(h, effect.fiber)
    ELSE [h EXCEPT !.dom[effect.fiber.id] = <<OwnText>>]

commitMutationEffects(tree, dom, hidden) ==
    LET effects == EffectList(tree)
        tagged == SelectSeq(effects, LAMBDA e : e.tag = "Placement")
        hosts == {f \in Fibers(tree) : IsHost(f.type) \/ f.type = "root"}
        fresh == {f \in hosts : f.id \notin DOMAIN dom}
        \* appendAllChildren: a new node is complete when its fiber is.
        start == [p \in DOMAIN dom \cup {f.id : f \in fresh} |->
                    IF p \in DOMAIN dom THEN dom[p]
                    ELSE HostChildren(CHOOSE f \in fresh : f.id = p)]
        found == [dom |-> start, hidden |-> hidden, threw |-> FALSE, moved |-> {},
                  unmounted |-> <<>>, toPlace |-> {tagged[i].fiber.id : i \in 1..Len(tagged)},
                  toReset |-> {f.id : f \in {g \in hosts : g.reset}}]
        live == {f.id : f \in hosts}
    IN  With(FlatTree(tree), LAMBDA flat :
        With(Fold(LAMBDA h, e : CASE e.tag = "Deletion" -> commitDeletion(flat, h, e)
                                  [] e.tag = "Placement" -> commitPlacement(flat, h, e)
                                  [] e.tag = "ContentReset" -> commitResetTextContent(h, e.fiber.id)
                                  [] e.tag = "Update" -> commitWork(h, e), found, effects),
             LAMBDA done : [done EXCEPT !.dom = [p \in live |-> done.dom[p]], !.hidden = @ \cap live]))
===============================================================================
