------------------------------ MODULE MCFiberTree ------------------------------
(***************************************************************************)
(* FiberTree with five applications: one that reorders a list, one that    *)
(* changes between a list and single children, one whose boundaries        *)
(* suspend, one whose filters change while messages are on their way, and  *)
(* one that is folded while it changes.                                    *)
(***************************************************************************)
EXTENDS FiberTree

Array(list) == Children(FALSE, list)
Only(el) == Children(TRUE, <<el>>)
div(key, list) == Element("div", key, Array(list))
p(key) == Element("p", key, Nothing)
Foo(key, list) == Element("Foo", key, Array(list))
Memo(key, list) == Element("Memo", key, Array(list))
Fragment(key, list) == Element("Fragment", key, Array(list))
text == Element("#text", NoKey, Nothing)

DistinctKeys(list) ==
    \A i, j \in 1..Len(list) : list[i].key = list[j].key /\ list[i].key # NoKey => i = j
Lists(items, n) == {list \in UNION {[1..m -> items] : m \in 0..n} : DistinctKeys(list)}

\* A list of a host node, a component with two of its own, text and holes.
ListItems == {div("a", <<>>), p("a"), Foo("b", <<p(NoKey), text>>), text, Hole}
ReorderedLists ==
    {Nothing} \cup {Array(l) : l \in {k \in Lists(ListItems, 3) : ToSet(k) \ {Hole} # {}}}

\* One child or several, in a host node or a fragment, and moved as a whole.
Inner == {Nothing, Only(div("a", <<>>)), Only(p("a")), Only(text),
          Array(<<div("a", <<>>), Memo("b", <<text>>)>>), Array(<<Memo("b", <<text>>), p("a")>>),
          Only(Fragment(NoKey, <<p("a"), Memo("b", <<text>>)>>))}
Outer(inner) ==
    LET fragment == Element("Fragment", "f", inner)
        foo == Element("Foo", "g", Only(fragment))
    IN  {Only(Element("div", "h", inner)), Only(Element("div", "h", Only(foo))),
         Array(<<p("k"), fragment>>), Array(<<foo, p("k"), text>>)}
SinglesAndArrays == {Nothing} \cup UNION {Outer(i) : i \in Inner}

\* Boundaries, one in another, before and after a node, with children that change.
Boundaries ==
    LET inner(s) == Suspense("i", Array(<<div("b", <<>>)>>), Only(Foo("y", <<text>>)), s)
        outer(list, s) == Suspense("o", Array(list), Array(<<Foo("x", <<p(NoKey)>>)>>), s)
        lists == {<<>>, <<Foo("a", <<div(NoKey, <<>>)>>), inner(FALSE)>>,
                  <<inner(TRUE), Foo("a", <<div(NoKey, <<>>)>>)>>}
    IN  {Array(<<outer(l, s), div("k", <<>>)>>) : l \in lists, s \in BOOLEAN}
        \cup {Array(<<div("k", <<>>), outer(l, TRUE)>>) : l \in lists}
SuspendingTrees == Boundaries \cup {Nothing}

\* The same, and one with a component for each filter, that suspends and moves.
FilteredTrees ==
    LET boundary(s) == Suspense("o", Array(<<Foo("a", <<div(NoKey, <<>>)>>), Memo("m", <<p(NoKey)>>)>>),
                                Only(Foo("x", <<p(NoKey)>>)), s)
        beside == Foo("k", <<div(NoKey, <<>>)>>)
    IN  SuspendingTrees \cup {Array(<<boundary(s), beside>>) : s \in BOOLEAN}
        \cup {Array(<<beside, boundary(s)>>) : s \in BOOLEAN}

\* Two levels to fold, with a leaf that comes and goes.
FoldedTrees ==
    {Only(Foo("a", <<Foo("b", <<Foo("c", <<>>)>>)>>)),
     Only(Foo("a", <<Foo("b", <<Foo("c", <<>>), Foo("d", <<>>)>>)>>)),
     Only(Foo("a", <<Foo("e", <<>>), Foo("b", <<Foo("d", <<>>)>>)>>))}

Applications == {"reordered", "nested", "suspending", "filtering", "folded"}
MCTrees(a) ==
    CASE a = "reordered" -> ReorderedLists
      [] a = "nested" -> SinglesAndArrays
      [] a = "suspending" -> SuspendingTrees
      [] a = "filtering" -> FilteredTrees
      [] a = "folded" -> FoldedTrees
TwiceRendered == {"reordered", "nested", "filtering"}
FoldedApplications == {"folded"}

\* Host elements are left out by default.
FilterSuspense(a) == {{"Suspense"}}
MCFilters(a) ==
    CASE a \in {"reordered", "folded"} -> {{}}
      [] a = "nested" -> {{"host"}}
      [] a = "suspending" -> {{"host"}, {"function"}}
      [] a = "filtering" -> {{}, {"host"}, {"function"}}

\* The suspending application has too many renders for more than one message.
MessagesInFlight(a) ==
    CASE a = "suspending" -> 1
      [] a = "filtering" -> 3
      [] OTHER -> 2
================================================================================
