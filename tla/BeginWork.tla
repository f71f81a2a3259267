------------------------------- MODULE BeginWork -------------------------------
(***************************************************************************)
(* The begin phase of a render, which reconciles the children of every     *)
(* fiber from the root down (ReactFiberBeginWork.js), Suspense boundaries  *)
(* included, as in a concurrent root.                                      *)
(***************************************************************************)
EXTENDS ChildReconciler

RECURSIVE beginWork(_, _)

Reconciled(fiber, old, children, track) ==
    With(reconcileChildFibers(old, children, track), LAMBDA r :
        [fiber EXCEPT !.kids = [i \in 1..Len(r.work) |-> beginWork(r.work[i].fiber, r.work[i].el)],
                      !.dels = r.dels])

FragmentOf(children) == Element("Fragment", NoKey, children)

\* The fallback is shown when the children suspended.  The children on screen
\* are then kept as they are, under a fragment of their own.
updateSuspenseComponent(fiber, el) ==
    LET fallback(f) == beginWork(f, FragmentOf(el.fallback))
        newFragment == createFiber(FragmentOf(Nothing))
        primary == IF fiber.timedOut THEN fiber.kids[1] ELSE [newFragment EXCEPT !.kids = fiber.kids]
        next == [fiber EXCEPT !.timedOut = el.suspends, !.update = fiber.timedOut \/ el.suspends]
    IN  CASE ~el.suspends /\ ~fiber.timedOut ->
               Reconciled(next, fiber.kids, el.children, ~IsNew(fiber))
          [] ~el.suspends /\ fiber.timedOut ->
               LET shown == Reconciled(next, fiber.kids[1].kids, el.children, TRUE)
               IN  [shown EXCEPT !.dels = <<fiber.kids[2]>> \o @]
          [] el.suspends /\ fiber.timedOut ->
               [next EXCEPT !.kids = <<[primary EXCEPT !.shared = TRUE],
                                       fallback(useFiber(fiber.kids[2]))>>]
          [] el.suspends /\ ~fiber.timedOut ->
               [next EXCEPT !.kids = <<[primary EXCEPT !.shared = TRUE],
                                       [fallback(newFragment) EXCEPT !.placed = ~IsNew(fiber)]>>]

\* A lone text is no child: the host node holds it itself.
shouldSetTextContent(el) == el.children.single /\ el.children.list[1].type = "#text"

updateHostComponent(fiber, el) ==
    LET isDirectTextChild == shouldSetTextContent(el)
        next == [fiber EXCEPT !.text = isDirectTextChild,
                              !.reset = fiber.text /\ ~isDirectTextChild,
                              !.update = ~IsNew(fiber) /\ isDirectTextChild /\ ~fiber.text]
    IN  Reconciled(next, fiber.kids, IF isDirectTextChild THEN Nothing ELSE el.children, ~IsNew(fiber))

\* A "Memo" component has no props to change: it bails out of every update.
beginWork(fiber, el) ==
    CASE el.type = "Memo" /\ ~IsNew(fiber) -> [fiber EXCEPT !.shared = TRUE]
      [] el.type = "Suspense" -> updateSuspenseComponent(fiber, el)
      [] el.type \in HostComponents -> updateHostComponent(fiber, el)
      [] OTHER -> Reconciled(fiber, fiber.kids, el.children, ~IsNew(fiber))

-----------------------------------------------------------------------------
(* Ids for the fibers a render made: the first that no one uses.           *)

RECURSIVE Fibers(_)
Fibers(fiber) == {fiber} \cup UNION {Fibers(fiber.kids[i]) : i \in 1..Len(fiber.kids)}

Ids(fiber) == {f.id : f \in Fibers(fiber)}

RECURSIVE NewCount(_)
NewCount(fiber) ==
    Fold(LAMBDA n, k : n + NewCount(k), IF IsNew(fiber) THEN 1 ELSE 0, fiber.kids)

RECURSIVE Named(_, _)
Named(fiber, ids) ==
    LET own == IF IsNew(fiber) THEN 1 ELSE 0
        before(i) == Fold(LAMBDA n, k : n + NewCount(k), own, SubSeq(fiber.kids, 1, i - 1))
        kid(i) == With(SubSeq(ids, before(i) + 1, Len(ids)), LAMBDA free : Named(fiber.kids[i], free))
    IN  [fiber EXCEPT !.id = IF IsNew(fiber) THEN ids[1] ELSE @,
                      !.kids = [i \in 1..Len(@) |-> kid(i)]]

\* The tree when its effects are done.
RECURSIVE Committed(_)
Committed(fiber) ==
    [useFiber(fiber) EXCEPT !.index = fiber.index,
                            !.kids = [i \in 1..Len(fiber.kids) |-> Committed(fiber.kids[i])]]
================================================================================
