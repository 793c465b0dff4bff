------------------------------- MODULE ProtoTree -------------------------------
(***************************************************************************)
(* ProtoTree, a Patricia tree, with an iterator that is kept up to date    *)
(* while items are inserted and removed.  An item is its key, a sequence   *)
(* of bits; keys of different lengths share a tree.  Every item is a node  *)
(* with two pointers, down to a node below it or back up to the item that  *)
(* a search ends in: a pointer leads down if its target has this node as   *)
(* its parent.  The iterator of the state goes over the whole tree; those  *)
(* over a prefix, and simple ones, are used on a tree that does not change.*)
(***************************************************************************)
EXTENDS Integers, Sequences, FiniteSets

LOCAL Seqs == INSTANCE SequencesExt

CONSTANTS Keys,      \* the keys of the items
          None,      \* NULL
          NoCall,    \* what the iterator has returned before its first call
          AtFront, AtRear, \* the positions before and behind all items
          Astray,    \* the position of an iterator whose own item was removed
          BackFrom   \* the fewest items among which one goes backwards

ASSUME TreeAssumption ==
  /\ \A k \in Keys : k # <<>> /\ Seqs!ToSet(k) \subseteq {0, 1}
  /\ Cardinality({None, NoCall, AtFront, AtRear, Astray}) = 5
  /\ {None, NoCall, AtFront, AtRear, Astray} \cap Keys = {}
  /\ BackFrom \in Nat

VARIABLES tree,  \* root, and of every item bit, parent and the pointers
          it,    \* the iterator: reversed, prev, next and curr_hop; None if there is none
          at,    \* the last item it has returned, or the end it has begun at
          got    \* what its last call has returned, or the end that was reached, or
                 \* NoCall if the tree has been changed since

vars == <<tree, it, at, got>>

-------------------------------------------------------------------------------
\* Keys.

\* ProtoTree::Bit(): a key ends in a 1, after which there are 0s.
Bit(k, i) == IF i < Len(k) THEN k[i + 1] = 1 ELSE i = Len(k)

LongerOf(j, k) == IF Len(j) > Len(k) THEN Len(j) ELSE Len(k)
Differing(j, k) == {i \in 0..LongerOf(j, k) : Bit(j, i) # Bit(k, i)}

FirstDifference(j, k) == CHOOSE i \in Differing(j, k) : \A h \in Differing(j, k) : i <= h

\* CompareKeys() < 0
Less(j, k) == j # k /\ Bit(k, FirstDifference(j, k))

-------------------------------------------------------------------------------
\* The tree.  Sides are FALSE (left) and TRUE (right).

Members(t) == {k \in Keys : t.to[k][TRUE] # None}
Alone(t) == t.to[t.root][FALSE] = t.to[t.root][TRUE]

Nowhere == [b \in BOOLEAN |-> None]
EmptyTree == [root |-> None, bit |-> [k \in Keys |-> 0], up |-> [k \in Keys |-> None],
              to |-> [k \in Keys |-> Nowhere]]

Down(t, x, b) == t.up[t.to[x][b]] = x
Toward(t, k, x) == t.to[x][Bit(k, t.bit[x])]
SideOf(t, x, child) == t.to[x][FALSE] # child

\* The item a search for k ends in, from x on: Find(), FindClosestMatch().
Closest(t, k, x) ==
  LET end[y \in Members(t)] ==
        LET z == Toward(t, k, y) IN IF t.up[z] = y THEN end[z] ELSE z
  IN  end[x]

\* FindPredecessor(): the node that points back to k, searched for from x on.
Back(t, k, x) ==
  LET node[y \in Members(t)] ==
        LET z == Toward(t, k, y) IN IF z = k THEN y ELSE node[z]
  IN  node[x]

\* The last node below x on one side, and the item it points back to there.
Bottom(t, x, b) ==
  LET node[y \in Members(t)] == IF Down(t, y, b) THEN node[t.to[y][b]] ELSE y
  IN  node[x]
Tip(t, x, b) == t.to[Bottom(t, x, b)][b]

\* The first ancestor of x that x is not below on the given side.
Climb(t, x, b) ==
  LET node[y \in Members(t)] ==
        LET p == t.up[y] IN IF p # None /\ t.to[p][b] = y THEN node[p] ELSE p
  IN  node[x]

Find(t, k) ==
  IF t.root = None THEN None
  ELSE LET x == Closest(t, k, t.root) IN IF x = k THEN x ELSE None

\* FindPrefix(): the longest prefix of k among the items on the way.
\* Mutant: not the one the search ends in.
PrefixesOnWay(t, k) ==
  LET way[x \in Members(t)] ==
        LET y == Toward(t, k, x)
        IN  {x} \cup IF t.up[y] = x /\ t.bit[y] < Len(k) THEN way[y] ELSE {}
  IN  {x \in way[t.root] : Seqs!IsPrefix(x, k)}
PrefixesMet(t, k) ==
  LET way[x \in Members(t)] ==
        LET y == Toward(t, k, x)
        IN  {x} \cup IF t.up[y] = x /\ t.bit[y] < Len(k) THEN way[y] ELSE {y}
  IN  {x \in way[t.root] : Seqs!IsPrefix(x, k)}
LongestOf(K) ==
  IF K = {} THEN None ELSE CHOOSE k \in K : \A j \in K : Len(j) <= Len(k)
FindPrefix(t, k) == IF t.root = None THEN None ELSE LongestOf(PrefixesMet(t, k))

\* GetFirstItem() and GetLastItem().
Extreme(t, b) ==
  IF t.root = None THEN None
  ELSE Tip(t, IF t.to[t.root][b] = t.root THEN t.to[t.root][~b] ELSE t.root, b)

\* The neighbour of r is on the far side of the root n that r points back to.
\* Mutant: it is taken to be the root.
NeverPastRoot(t, n, r, b) == FALSE
PastRoot(t, n, r, b) == t.up[n] = None /\ t.to[n][b] # n /\ Bit(r, 0) = ~b

\* The neighbour of k, if the way up from its predecessor q ends at top: on the
\* other side of the root, or else below.
NearestBelow(t, p, b) == IF t.to[p][b] # p THEN Tip(t, t.to[p][b], ~b) ELSE p

Below(t, r, n, b) ==
  IF Down(t, r, b) THEN Tip(t, n, ~b)
  ELSE IF PastRoot(t, n, r, b) THEN Tip(t, t.to[n][b], ~b) ELSE n

NeighbourUnder(t, k, q, top, b) ==
  IF t.to[q][~b] = k \/ (top # None /\ t.up[top] # None) THEN Below(t, top, t.to[top][b], b)
  ELSE IF top = None \/ t.to[top][b] = top THEN None
  ELSE NearestBelow(t, Back(t, top, t.to[top][b]), b)

NeighbourFrom(t, k, q, b) ==
  NeighbourUnder(t, k, q, IF t.to[q][~b] # k THEN Climb(t, q, b) ELSE q, b)

\* FindLexicalPredecessor() and FindLexicalSuccessor(), which are each other's
\* mirror images; GetPrevItem() has a copy of the former.
Neighbour(t, k, b) ==
  NeighbourFrom(t, k, Back(t, k, IF t.up[k] = None /\ t.to[k][~b] = k THEN t.to[k][b] ELSE k), b)

-------------------------------------------------------------------------------
\* Insert().

\* Where the search for k leaves the nodes with a bit index less than d.
Parting(t, k, d) ==
  LET pair[y \in Members(t)] ==
        LET z == Toward(t, k, y)
        IN  IF t.bit[z] < d /\ t.up[z] = y THEN pair[z] ELSE [above |-> y, below |-> z]
  IN  pair[t.root]

Rooted(k) ==
  [EmptyTree EXCEPT !.root = k, !.to[k] = [b \in BOOLEAN |-> k]]

\* k becomes a node below p and above x, on a bit d in which it differs from x.
PutBetween(t, k, d, p, x) ==
  [t EXCEPT !.bit[k] = d,
            !.to[k] = [b \in BOOLEAN |-> IF b = Bit(k, d) THEN k ELSE x],
            !.up[k] = p,
            !.to[p][Bit(k, t.bit[p])] = k,
            !.up[x] = IF @ = p THEN k ELSE @]

PutAt(t, k, d, place) == PutBetween(t, k, d, place.above, place.below)
PutByBit(t, k, d) == PutAt(t, k, d, Parting(t, k, d))

Inserted(t, k) ==
  IF t.root = None THEN Rooted(k)
  ELSE PutByBit(t, k, FirstDifference(k, Closest(t, k, t.root)))

-------------------------------------------------------------------------------
\* Remove().

\* A node is taken out of its place, which its child takes.
Splice(t, x, child) ==
  LET p == t.up[x]
  IN  [t EXCEPT !.to[p][SideOf(t, p, x)] = child,
                !.up[child] = IF t.bit[child] > t.bit[p] THEN p ELSE @]

OtherPointer(t, x, target) ==
  IF t.to[x][FALSE] = target THEN t.to[x][TRUE] ELSE t.to[x][FALSE]

\* Mutant: the node that takes over keeps its bit index.
KeepBit(t, q, k) == t
TakeBit(t, q, k) == [t EXCEPT !.bit[q] = t.bit[k]]

\* The children of k become those of q, which takes its place below the node above.
Adopted(t, k, q) ==
  [t EXCEPT !.up = [x \in Keys |->
     IF x \in {t.to[k][b] : b \in BOOLEAN} /\ @[x] = k THEN q ELSE @[x]]]

Seated(t, k, q, above) ==
  [t EXCEPT !.to[above][SideOf(t, above, k)] = q,
            !.root = IF t.up[k] = None THEN q ELSE @]

Inherited(t, k, q) ==
  [t EXCEPT !.up[q] = t.up[k],
            !.to[q] = [b \in BOOLEAN |-> IF t.to[k][b] = k THEN q ELSE t.to[k][b]]]

\* The node that points to k: above it, or back to it as the root, on its other side.
PointerTo(t, k) ==
  IF t.up[k] # None THEN t.up[k] ELSE Back(t, k, t.to[k][~Bit(k, t.bit[k])])

\* The node q that points back to k leaves its place and takes that of k.
Replaced(t, k, q) ==
  Inherited(Seated(Adopted(Splice(TakeBit(t, q, k), q, OtherPointer(t, q, k)), k, q),
                   k, q, PointerTo(t, k)),
            k, q)

\* The root goes, and at most one item is left.
Orphaned(t, k, orphan) ==
  IF orphan = k THEN [t EXCEPT !.root = None]
  ELSE [t EXCEPT !.root = orphan, !.up[orphan] = None, !.bit[orphan] = 0,
                 !.to[orphan][SideOf(t, orphan, k)] = orphan]
Unrooted(t, k) == Orphaned(t, k, OtherPointer(t, k, k))

\* The bit of an item outside is never read.
Forget(t, k) == [t EXCEPT !.bit[k] = 0, !.up[k] = None, !.to[k] = Nowhere]

TakenOut(t, k, q) ==
  IF k \in {t.to[k][b] : b \in BOOLEAN} /\ t.up[k] # None
  THEN Splice(t, k, OtherPointer(t, k, k))
  ELSE IF t.up[q] # None THEN Replaced(t, k, q) ELSE Unrooted(t, k)
Removed(t, k) == Forget(TakenOut(t, k, Back(t, k, k)), k)

-------------------------------------------------------------------------------
\* The iterator.  item is what a call returns.

NoIterator == [reversed |-> FALSE, prev |-> None, next |-> None, hop |-> None, item |-> None]
Returning(i, k) == [i EXCEPT !.item = k]

\* Down one side as far as the leftmost item of a subtree, and curr_hop then.
HopFrom(t, y) == IF Down(t, y, TRUE) THEN Bottom(t, t.to[y][TRUE], FALSE) ELSE y

VisitAt(i, t, y) == [i EXCEPT !.next = t.to[y][FALSE], !.hop = HopFrom(t, y)]
Visit(i, t, x) == VisitAt(i, t, Bottom(t, x, FALSE))

Unset(i) == [i EXCEPT !.prev = None, !.next = None, !.hop = None]

\* Reset(): on an empty tree it leaves the direction as it was.
Reset(i, t, back) ==
  IF t.root = None THEN Unset(i)
  ELSE IF back THEN [Unset(i) EXCEPT !.reversed = TRUE, !.prev = Extreme(t, TRUE)]
  ELSE IF Alone(t) THEN [Unset(i) EXCEPT !.reversed = FALSE, !.next = t.root]
  ELSE Visit([Unset(i) EXCEPT !.reversed = FALSE], t,
             IF t.to[t.root][FALSE] = t.root THEN t.to[t.root][TRUE] ELSE t.root)

\* GetPrevItem() of an iterator that goes backwards already.
Backward(i, t) ==
  IF i.prev = None THEN Returning(i, None)
  ELSE [i EXCEPT !.prev = Neighbour(t, i.prev, FALSE), !.next = i.prev, !.item = i.prev]

\* GetNextItem() of an iterator that goes forwards already.
\* Mutant: the item at the root is not left out on the way to the right.
PassRootNever(t, x, n) == FALSE
PassRoot(t, x, n) == t.up[n] = None /\ Bit(n, 0) # Bit(x, 0)

\* To the item that the left pointer of x leads back to, ...
OnLeft(i, t, x, left, right) ==
  IF ~PassRoot(t, x, left) THEN [i EXCEPT !.next = left, !.hop = HopFrom(t, x)]
  ELSE IF right = x THEN [i EXCEPT !.next = x, !.hop = None]
  ELSE Visit(i, t, right)

\* ... or the right one, and up.
HopUp(t, p) ==
  IF p = None \/ (t.up[p] = None /\ t.to[p][TRUE] = p) THEN None ELSE HopFrom(t, p)

OnRight(i, t, x, right) ==
  IF PassRoot(t, x, right) /\ t.to[right][TRUE] # right THEN Visit(i, t, t.to[right][TRUE])
  ELSE [i EXCEPT !.next = right, !.hop = HopUp(t, Climb(t, x, TRUE))]

Onward(i, t, x) ==
  IF x = None THEN [i EXCEPT !.next = None]
  ELSE IF (t.to[x][FALSE] # i.next /\ ~Down(t, x, FALSE)) \/ Down(t, x, TRUE)
  THEN OnLeft(i, t, x, t.to[x][FALSE], t.to[x][TRUE])
  ELSE OnRight(i, t, x, t.to[x][TRUE])

Forward(i, t) ==
  IF i.next = None THEN Returning(i, None)
  ELSE [Onward(i, t, i.hop) EXCEPT !.prev = i.next, !.item = i.next]

\* SetCursor(): the iterator is put behind k, in its direction.
\* Going forwards it goes back by two items first, to find curr_hop.
HopOf(t, k) ==
  Back(t, k, IF k # t.root \/ t.to[k][TRUE] # k THEN k ELSE t.to[k][~Bit(k, t.bit[k])])

ForthAgain(i, t, k) ==
  Forward(IF i.item = None THEN Reset(i, t, FALSE)
          ELSE Forward([i EXCEPT !.reversed = FALSE, !.hop = HopOf(t, k)], t), t)

CursorForward(i, t, k) ==
  ForthAgain(Backward(Backward([i EXCEPT !.reversed = TRUE, !.prev = k], t), t), t, k)

SetCursor(i, t, k) ==
  IF t.root = None THEN Unset(i)
  ELSE IF Alone(t)
  THEN IF i.reversed THEN [Unset(i) EXCEPT !.next = t.root] ELSE [Unset(i) EXCEPT !.prev = t.root]
  ELSE IF i.reversed THEN Backward([Unset(i) EXCEPT !.prev = k], t)
  ELSE CursorForward(Unset(i), t, k)

\* GetPrevItem() and GetNextItem() turn the iterator around if need be.
TurnedBack(i, t) ==
  IF i.prev # None /\ ~i.reversed THEN Backward([i EXCEPT !.reversed = TRUE], t) ELSE i
TurnedForth(i, t) ==
  IF i.next # None /\ i.reversed THEN SetCursor([i EXCEPT !.reversed = FALSE], t, i.next) ELSE i

GetPrevItem(i, t) == Backward(TurnedBack(i, t), t)
GetNextItem(i, t) == Forward(TurnedForth(i, t), t)

\* Update(), after an insertion and after the removal of k.
Here(i) == IF i.reversed THEN i.next ELSE i.prev
Ahead(i) == IF i.reversed THEN i.prev ELSE i.next

UpdateInserted(i, t) ==
  IF Here(i) # None THEN SetCursor(i, t, Here(i)) ELSE Reset(i, t, i.reversed)

\* Mutant: only the item the iterator is at counts.
UpdateIfHere(i, t, k) == IF k = Here(i) THEN SetCursor(i, t, Ahead(i)) ELSE i
AheadKept(i, j) == IF i.reversed THEN [j EXCEPT !.prev = i.prev] ELSE [j EXCEPT !.next = i.next]

UpdateRemoved(i, t, k) ==
  IF Here(i) = None \/ (k = Here(i) /\ Ahead(i) = None)
  THEN [i EXCEPT !.prev = None, !.next = None]
  ELSE IF k = Here(i) THEN AheadKept(i, SetCursor(i, t, Ahead(i)))
  ELSE SetCursor(i, t, Here(i))

-------------------------------------------------------------------------------
\* Iterators over the items of which p is a prefix.

\* FindPrefixSubtree(): the lowest such item on the way.
FindPrefixSubtree(t, p) ==
  LET lowest[x \in Members(t)] ==
        LET y == Toward(t, p, x)
            below == IF t.up[y] = x THEN lowest[y] ELSE None
        IN  IF below = None /\ Seqs!IsPrefix(p, x) THEN x ELSE below
  IN  lowest[t.root]

\* The iterator after n calls of Call.
Repeated(Call(_), i, n) ==
  LET after[m \in 0..n] == IF m = 0 THEN i ELSE Call(after[m - 1])
  IN  after

\* Reset() with a prefix goes from there to the first item outside, the wrong way.
\* Mutant: at an end of the tree the iterator is not set anew.
StaysAtEnd(i, t, back) == i
AtEnd(i, t, back) == IF i.item = None THEN Reset(i, t, back) ELSE i

OutOf(p, i) == i.item = None \/ ~Seqs!IsPrefix(p, i.item)
FirstOut(after, p) ==
  after[CHOOSE m \in DOMAIN after \ {0} :
          OutOf(p, after[m]) /\ \A n \in 1..(m - 1) : ~OutOf(p, after[n])]

ResetFrom(t, p, back, top) ==
  IF top = None THEN NoIterator
  ELSE AtEnd(FirstOut(Repeated(LAMBDA i : IF back THEN GetNextItem(i, t) ELSE GetPrevItem(i, t),
                               SetCursor([NoIterator EXCEPT !.reversed = ~back], t, top),
                               Cardinality(Members(t)) + 1), p),
             t, back)
ResetTo(t, p, back) == ResetFrom(t, p, back, FindPrefixSubtree(t, p))

\* GetPrevItem() and GetNextItem() then return no item outside.
PrevWithin(i, t, p) ==
  IF i.prev # None /\ ~Seqs!IsPrefix(p, i.prev) THEN [i EXCEPT !.prev = None, !.item = None]
  ELSE Backward(i, t)
PrefixedPrev(i, t, p) == PrevWithin(TurnedBack(i, t), t, p)

NextWithin(turned, n, p) ==
  IF n.item # None /\ ~Seqs!IsPrefix(p, n.item) THEN [n EXCEPT !.prev = turned.prev, !.item = None]
  ELSE n
PrefixedNextOf(turned, t, p) == NextWithin(turned, Forward(turned, t), p)
PrefixedNext(i, t, p) == PrefixedNextOf(TurnedForth(i, t), t, p)

\* SimpleIterator, which goes through the nodes.
SimpleNext(t, x) ==
  IF Down(t, x, TRUE) THEN Bottom(t, t.to[x][TRUE], FALSE) ELSE Climb(t, x, TRUE)

-------------------------------------------------------------------------------
Init == tree = EmptyTree /\ it = None /\ at = AtFront /\ got = NoCall

\* Update() follows the pointers of the item removed, which are NULL by then.
Dangles(k) == it # None /\ k \in {it.prev} \cap {it.next}

Kept(i) == [i EXCEPT !.item = None]

Insert(k) ==
  /\ k \notin Members(tree)
  /\ tree' = Inserted(tree, k)
  /\ it' = IF it = None THEN None ELSE Kept(UpdateInserted(it, tree'))
  /\ got' = NoCall /\ UNCHANGED at

\* An iterator that has returned k last, or nothing yet, loses its place with k.
Remove(k) ==
  /\ k \in Members(tree) /\ ~Dangles(k)
  /\ tree' = Removed(tree, k)
  /\ it' = IF it = None THEN None ELSE Kept(UpdateRemoved(it, tree', k))
  /\ at' = IF it # None /\ at \in {k, AtFront, AtRear} THEN Astray ELSE at
  /\ got' = NoCall

Empty ==
  /\ tree.root # None
  /\ tree' = EmptyTree
  /\ it' = IF it = None THEN None ELSE [it EXCEPT !.prev = None, !.next = None]
  /\ at' = IF it # None /\ it.reversed THEN AtRear ELSE AtFront
  /\ got' = NoCall

\* A new iterator, or its Reset().  (In an empty tree a new iterator has no
\* direction: reversed is not initialised.)
Begin(back) ==
  /\ tree.root # None
  /\ it' = Reset(NoIterator, tree, back)
  /\ at' = IF back THEN AtRear ELSE AtFront
  /\ got' = NoCall
  /\ UNCHANGED tree

Step(back) ==
  /\ it # None
  /\ back => Cardinality(Members(tree)) >= BackFrom
  /\ LET i == IF back THEN GetPrevItem(it, tree) ELSE GetNextItem(it, tree)
     IN  /\ it' = Kept(i)
         /\ got' = IF i.item # None THEN i.item ELSE IF back THEN AtFront ELSE AtRear
         /\ at' = IF i.item = None \/ at = Astray THEN at ELSE i.item
  /\ UNCHANGED tree

Next ==
  \/ \E k \in Keys : Insert(k) \/ Remove(k)
  \/ Empty
  \/ \E back \in BOOLEAN : Begin(back) \/ Step(back)

Spec == Init /\ [][Next]_vars

-------------------------------------------------------------------------------
\* Properties.

\* Nothing points to an item outside the tree.
TypeOK ==
  LET Items == Members(tree) \cup {None}
  IN  /\ tree.root \in Items
      /\ \A k \in Members(tree) :
           /\ tree.bit[k] \in Nat /\ tree.up[k] \in Items
           /\ \A b \in BOOLEAN : tree.to[k][b] \in Members(tree)
      /\ \A k \in Keys \ Members(tree) : tree.up[k] = None /\ tree.to[k] = Nowhere
      /\ it # None => it.reversed \in BOOLEAN /\ {it.prev, it.next} \subseteq Items
      /\ at \in Keys \cup {AtFront, AtRear, Astray} /\ got \in Keys \cup {NoCall, AtFront, AtRear}

\* A search finds exactly what has been inserted and not removed, and FindPrefix() the
\* longest item that is a prefix of the key, if no item is longer than the key (as with
\* the addresses looked up in a route table).
Finds ==
  /\ TypeOK
  /\ \A k \in Keys :
       /\ Find(tree, k) = IF k \in Members(tree) THEN k ELSE None
       /\ (\A j \in Members(tree) : Len(j) <= Len(k)) =>
            FindPrefix(tree, k) = LongestOf({j \in Members(tree) : Seqs!IsPrefix(j, k)})

\* An iterator over a prefix returns the items that have it, first to last or last to
\* first, and then nothing.  (On one item, none can go backwards to an end.)
InOrderOf(listed, back) ==
  \A m, n \in DOMAIN listed :
    m < n => IF back THEN Less(listed[n], listed[m]) ELSE Less(listed[m], listed[n])

Lists(after, having, back) ==
  LET listed == [n \in 1..Cardinality(having) |-> after[n].item]
  IN  /\ Seqs!ToSet(listed) = having
      /\ InOrderOf(listed, back)
      /\ after[Cardinality(having) + 1].item = None

ListsPrefix(p, having, back) ==
  Lists(Repeated(LAMBDA i : IF back THEN PrefixedPrev(i, tree, p) ELSE PrefixedNext(i, tree, p),
                 ResetTo(tree, p, back), Cardinality(having) + 1), having, back)

\* A simple iterator comes to every item once, in any order.
ListsAll ==
  LET after == Repeated(LAMBDA x : SimpleNext(tree, x), Bottom(tree, tree.root, FALSE),
                        Cardinality(Members(tree)) - 1)
  IN  /\ {after[n] : n \in DOMAIN after} = Members(tree)
      /\ SimpleNext(tree, after[Cardinality(Members(tree)) - 1]) = None

\* The items on one side of a key, and the one of them that lies furthest out.
After(k, b) == {j \in Members(tree) : IF b THEN Less(k, j) ELSE Less(j, k)}
Outermost(K, b) ==
  IF K = {} THEN None
  ELSE CHOOSE k \in K : \A j \in K \ {k} : IF b THEN Less(j, k) ELSE Less(k, j)

\* The first, the last and the adjacent items of the tree are those of the order
\* of the keys.  (Alone in its tree an item is returned as its own neighbour.)
\* Iterators list what they should, in whatever order the tree was built (all of that
\* occurs before the first iterator is made, where this is checked).
OrderKept ==
  tree.root # None /\ it = None =>
    \A b \in BOOLEAN :
      /\ Extreme(tree, b) = Outermost(Members(tree), b)
      /\ ~Alone(tree) => \A k \in Members(tree) :
           Neighbour(tree, k, b) = Outermost(After(k, b), ~b)
      /\ ListsAll
      /\ ~Alone(tree) => \A p \in Keys :
           ListsPrefix(p, {k \in Members(tree) : Seqs!IsPrefix(p, k)}, b)

\* The iterator returns the items in order, forth and back from where it is, through
\* every insertion and removal, of the item it is at excepted.
Table == INSTANCE OrderedTable WITH members <- Members(tree)
InOrder == Table!Spec

\* While it goes forwards an iterator under which any items are removed, the one
\* returned last and several between two of its calls included, moves as Cursors
\* says: it leaves out one item at most, or starts anew after an insertion.
Iter == INSTANCE TableCursor WITH
          members <- Members(tree),
          cursor <- IF it = None \/ it.reversed THEN None ELSE [prev |-> it.prev, next |-> it.next]
MovesAsCursor == Iter!Spec
===============================================================================
