------------------------------ MODULE SortedTree ------------------------------
(***************************************************************************)
(* ProtoSortedTree: items that are ordered by a key in a list, of which    *)
(* one of each key, the one inserted first, is in a ProtoTree as well.     *)
(* Keys are numbers; the items that are in the ProtoTree are the proper    *)
(* ones.  (ProtoSortedTree is the module of its iterators and of keys that *)
(* have a sign.)                                                           *)
(***************************************************************************)
EXTENDS Integers, Sequences, SequencesExt

Without(s, t) == SelectSeq(s, LAMBDA u : u # t)

EmptyTree == [items |-> <<>>, proper |-> {}]

\* IsEmpty(), which asks the ProtoTree.
TreeIsEmpty(tree) == tree.proper = {}

Matches(tree, t, keys) == {u \in tree.proper : keys[u] = keys[t]}
Lesser(tree, t, keys) == {u \in tree.proper : keys[u] < keys[t]}

\* The place of an item in the list, 0 of none.
Place(tree, us) == Max({0} \cup {i \in 1..Len(tree.items) : tree.items[i] \in us})

\* Insert(): before the item of the same key that is in the ProtoTree; if there is
\* none, into it, and in the list behind the one that precedes it there.
TreeInsert(tree, t, keys) ==
  LET lesser == Lesser(tree, t, keys)
      last == {u \in lesser : \A v \in lesser : keys[v] <= keys[u]}
  IN  IF Matches(tree, t, keys) # {}
      THEN [tree EXCEPT !.items = InsertAt(@, Place(tree, Matches(tree, t, keys)), t)]
      ELSE [items |-> InsertAt(tree.items, Place(tree, last) + 1, t), proper |-> tree.proper \cup {t}]

\* Remove().  What shall take its place in the ProtoTree is the item before it in the
\* list; ProtoListTemplate::GetPrevItem() returns the next one.
Successor(tree, t) ==
  LET i == Place(tree, {t}) IN IF i = Len(tree.items) THEN {} ELSE {tree.items[i + 1]}

TreeRemove(tree, t, keys) ==
  LET left == tree.proper \ {t}
      next == {u \in Successor(tree, t) : \A v \in left : keys[v] # keys[u]}
  IN  [items |-> Without(tree.items, t), proper |-> IF t \in tree.proper THEN left \cup next ELSE left]

\* With t goes the only item of its key that a search finds, while others stay.
Orphans(tree, t, keys) ==
  t \in tree.proper /\ \E u \in ToSet(tree.items) \ {t} : keys[u] = keys[t]
===============================================================================
