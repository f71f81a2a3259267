----------------------------- MODULE DevToolsStore -----------------------------
(***************************************************************************)
(* The frontend's copy of the tree (react-devtools-shared/src/devtools/    *)
(* store.js): its elements by id, each with the number of rows it takes in *)
(* the tree view.  rows is _weightAcrossRoots, and threw is set when an    *)
(* operation does not fit and onBridgeOperations throws.  The loops that   *)
(* climb from an element to its root are told by what is on their way.     *)
(***************************************************************************)
EXTENDS Integers, Sequences, SequencesExt, Strict

EmptyStore == [elements |-> <<>>, rows |-> 0, threw |-> FALSE]

Has(store, id) == id \in DOMAIN store.elements

\* The weight of an element in its parent.
RowsOf(element) == IF element.collapsed THEN 1 ELSE element.weight

Collapsed(elements) == {i \in DOMAIN elements : elements[i].collapsed}
Roots(elements) == {i \in DOMAIN elements : elements[i].parent = 0}

\* An element, its parent, and so on up to the root.
Lineage(elements, id) ==
    LET up[i \in DOMAIN elements] ==
            <<i>> \o (IF elements[i].parent \in DOMAIN elements
                      THEN up[elements[i].parent] ELSE <<>>)
    IN  IF id \in DOMAIN elements THEN up[id] ELSE <<>>

\* Those on the way, and those up to and including the first that is collapsed.
AllUp(elements, id) == ToSet(Lineage(elements, id))
OpenUp(elements, id) ==
    LET up == Lineage(elements, id)
    IN  {up[k] : k \in {n \in DOMAIN up : \A m \in 1..n - 1 : ~elements[up[m]].collapsed}}

\* delta rows more for each of ids.
Heavier(elements, ids, delta) ==
    [i \in DOMAIN elements |->
        IF i \in ids THEN [elements[i] EXCEPT !.weight = @ + delta] ELSE elements[i]]

\* Rows in a collapsed element are no rows of the tree.
adjustParentTreeWeight(store, id, delta) ==
    LET affected == OpenUp(store.elements, id)
    IN  [store EXCEPT !.elements = Heavier(@, affected, delta),
                      !.rows = IF affected \cap Collapsed(store.elements) = {} THEN @ + delta ELSE @]

\* A root has no row of its own.
AddElement(store, op, collapsedByDefault) ==
    LET isRoot == op.parent = 0
        element == [parent |-> op.parent, kids |-> <<>>, collapsed |-> ~isRoot /\ collapsedByDefault,
                    weight |-> IF isRoot THEN 0 ELSE 1]
        with == [i \in DOMAIN store.elements \cup {op.id} |->
                    IF i = op.id THEN element
                    ELSE IF i = op.parent THEN [store.elements[i] EXCEPT !.kids = Append(@, op.id)]
                    ELSE store.elements[i]]
    IN  IF Has(store, op.id) \/ (~isRoot /\ ~Has(store, op.parent)) THEN [store EXCEPT !.threw = TRUE]
        ELSE IF isRoot THEN [store EXCEPT !.elements = with]
        ELSE adjustParentTreeWeight([store EXCEPT !.elements = with], op.parent, 1)

\* children.splice(children.indexOf(id), 1)
Spliced(kids, id) == RemoveAt(kids, CHOOSE k \in 1..Len(kids) : kids[k] = id)

RemoveElement(store, id) ==
    LET e == store.elements[id]
        without == [i \in DOMAIN store.elements \ {id} |->
                        IF i = e.parent THEN [store.elements[i] EXCEPT !.kids = Spliced(@, id)]
                        ELSE store.elements[i]]
    IN  IF ~Has(store, id) \/ e.kids # <<>> \/ (e.parent # 0 /\ ~Has(store, e.parent))
        THEN [store EXCEPT !.threw = TRUE]
        ELSE adjustParentTreeWeight([store EXCEPT !.elements = without], e.parent, -e.weight)

ReorderChildren(store, op) ==
    IF ~Has(store, op.id) \/ Len(store.elements[op.id].kids) # Len(op.kids)
    THEN [store EXCEPT !.threw = TRUE]
    ELSE [store EXCEPT !.elements[op.id].kids = op.kids]

\* The store after each operation.  Nothing after one that throws is applied.
Removed(store, ids) ==
    Fold(LAMBDA s, id : IF s.threw THEN s ELSE RemoveElement(s, id), store, ids)
Operated(store, ops, collapsedByDefault) ==
    LET apply(s, op) == IF op.op = "add" THEN AddElement(s, op, collapsedByDefault)
                        ELSE ReorderChildren(s, op)
    IN  Stages(LAMBDA s, op : IF s.threw THEN s ELSE apply(s, op), store, ops)

onBridgeOperations(store, message, collapsedByDefault) ==
    With(Removed(store, message.removes), LAMBDA removed :
         Operated(removed, message.ops, collapsedByDefault)[Len(message.ops)])

\* "Children cannot be added or removed during a reorder operation": the store
\* throws if their number changes, and trusts the backend as to which they are.
Permutes(store, op) ==
    op.op = "reorder" /\ ~store.threw /\ Has(store, op.id) =>
        ToSet(op.kids) = ToSet(store.elements[op.id].kids)

Fits(store, message, collapsedByDefault) ==
    With(Removed(store, message.removes), LAMBDA removed :
    With(Operated(removed, message.ops, collapsedByDefault), LAMBDA after :
         \A i \in 1..Len(message.ops) : Permutes(after[i - 1], message.ops[i])))

-----------------------------------------------------------------------------
(* The user folds and unfolds.                                             *)

isInsideCollapsedSubTree(store, id) ==
    AllUp(store.elements, store.elements[id].parent) \cap Collapsed(store.elements) # {}

\* All the ancestors, whether or not one of them is collapsed.
AddToAncestors(elements, id, delta) == Heavier(elements, AllUp(elements, id), delta)

\* Mutant: expanding goes past a collapsed ancestor.
AddToOpenAncestors_All(elements, id, delta) == AddToAncestors(elements, id, delta)

\* The ancestors up to and including the first that is collapsed.
AddToOpenAncestors(elements, id, delta) == Heavier(elements, OpenUp(elements, id), delta)

\* One element is expanded, if it is not already.
Opened(elements, id) ==
    IF ~elements[id].collapsed THEN elements
    ELSE AddToOpenAncestors([elements EXCEPT ![id].collapsed = FALSE],
                            elements[id].parent, elements[id].weight - 1)

\* Expanding an element expands everything above it.
Expanded(elements, id) == Fold(Opened, elements, Lineage(elements, id))

\* The weights of the elements of seq, on top of start.
Weighed(weights, start, seq) == Fold(LAMBDA n, i : n + weights[i], start, seq)

\* The store with other elements; the rows are added up again if they differ.
Refolded(store, next) ==
    LET weights == [i \in DOMAIN next |-> next[i].weight]
    IN  IF next = store.elements THEN store
        ELSE [store EXCEPT !.elements = next,
                           !.rows = Weighed(weights, 0, SetToSeq(Roots(next)))]

toggleIsCollapsed(store, id, isCollapsed) ==
    LET e == store.elements[id]
        toggled ==
            IF ~isCollapsed THEN Expanded(store.elements, id)
            ELSE IF e.collapsed THEN store.elements
            ELSE AddToAncestors([store.elements EXCEPT ![id].collapsed = TRUE], e.parent, 1 - e.weight)
    IN  With(toggled, LAMBDA next : Refolded(store, next))
===============================================================================
