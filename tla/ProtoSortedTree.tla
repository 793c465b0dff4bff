--------------------------- MODULE ProtoSortedTree ----------------------------
(***************************************************************************)
(* ProtoSortedTree with an iterator.  A key is a number as its bits say    *)
(* it; taken with a sign, its first bit is the sign of a number in two's   *)
(* complement or of a magnitude, and the list is in the order of the       *)
(* numbers while the ProtoTree stays in that of the bits.                  *)
(***************************************************************************)
EXTENDS SortedTree

CONSTANTS Items, None,
          KeyRange,   \* keys are 0..KeyRange - 1
          Orphaning   \* whether items are removed that Orphans() is true of

Modes == {"unsigned", "complement", "magnitude"}

SortedTreeAssumption ==
  /\ KeyRange \in Nat \ {0} /\ KeyRange % 2 = 0
  /\ Orphaning \in BOOLEAN
  /\ None \notin Items

VARIABLES mode,           \* UseSignBit() and UseComplement2() of the items
          tree, key,
          positive_min,
          it,             \* the iterator: item and reversed
          got             \* what it has returned last, None if nothing

vars == <<mode, tree, key, positive_min, it, got>>

Keys == 0..KeyRange - 1
Inside == ToSet(tree.items)

\* The item at a place of the list, and those next to one; None beyond its ends.
At(s, i) == IF i \in DOMAIN s THEN s[i] ELSE None
NextOf(s, t) == At(s, Place([items |-> s], {t}) + 1)
PrevOf(s, t) == At(s, Place([items |-> s], {t}) - 1)

HasSign(k) == mode # "unsigned" /\ 2 * k >= KeyRange

\* The items of the ProtoTree that are next to t or, with its key, would be.
Preceding(t, keys) ==
  LET lesser == Lesser(tree, t, keys) IN {u \in lesser : \A v \in lesser : keys[v] <= keys[u]}
Following(t, keys) ==
  LET greater == {u \in tree.proper : keys[u] > keys[t]}
  IN  {u \in greater : \A v \in greater : keys[u] <= keys[v]}

-------------------------------------------------------------------------------
\* Insert(): the place in the list of an item t whose key is not there yet.

\* It precedes all the keys there are.  (A first item has no neighbours.)
PlaceOfFirst(t, k) ==
  IF tree.items = <<>> \/ mode = "unsigned" THEN 1
  ELSE IF HasSign(k) THEN IF mode = "complement" THEN 1 ELSE Len(tree.items) + 1
  ELSE IF ~HasSign(key[Head(tree.items)]) THEN 1
  ELSE IF positive_min = None THEN Len(tree.items) + 1 ELSE Place(tree, {positive_min})

\* It comes after the items of preceding.
PlaceOfLater(t, k, preceding, following) ==
  IF ~HasSign(k) THEN Place(tree, preceding) + 1
  ELSE IF \A u \in preceding : HasSign(key[u])
  THEN Place(tree, IF mode = "complement" THEN preceding ELSE following) + 1
  ELSE IF mode = "complement" THEN 1 ELSE Place(tree, {positive_min})

NewPlace(t, k) ==
  LET keys == [key EXCEPT ![t] = k]
      same == Matches(tree, t, keys)
      preceding == Preceding(t, keys)
  IN  IF same # {} THEN Place(tree, same)
      ELSE IF preceding = {} THEN PlaceOfFirst(t, k)
      ELSE PlaceOfLater(t, k, preceding, Following(t, keys))

\* positive_min when t is inserted.
\* Mutant: an item of the same key that goes before it is not seen.
MinUnlessSame(t, k) ==
  LET keys == [key EXCEPT ![t] = k]
  IN  IF mode = "unsigned" \/ HasSign(k) \/ Preceding(t, keys) \cup Matches(tree, t, keys) # {}
      THEN positive_min ELSE t
MinInserted(t, k) ==
  LET keys == [key EXCEPT ![t] = k]
      same == Matches(tree, t, keys)
      first == IF same # {} THEN positive_min \in same
               ELSE ~HasSign(k) /\ Preceding(t, keys) = {}
  IN  IF mode # "unsigned" /\ first THEN t ELSE positive_min

\* ProtoList::Iterator::Update(): t is in the list s now, or is about to be removed.
\* Mutant: an iterator that goes backwards does not see an item inserted before it.
ToldForwards(s, t) ==
  IF ~it.reversed /\ it.item = NextOf(s, t) THEN [it EXCEPT !.item = t] ELSE it
ToldInserted(s, t) ==
  IF it.item = (IF it.reversed THEN PrevOf(s, t) ELSE NextOf(s, t)) THEN [it EXCEPT !.item = t] ELSE it
ToldRemoved(s, t) ==
  IF it.item # t THEN it
  ELSE [it EXCEPT !.item = IF it.reversed THEN PrevOf(s, t) ELSE NextOf(s, t)]

Insert(t, k) ==
  LET same == Matches(tree, t, [key EXCEPT ![t] = k])
  IN  /\ t \notin Inside
      /\ key' = [key EXCEPT ![t] = k]
      /\ tree' = [items |-> InsertAt(tree.items, NewPlace(t, k), t),
                  proper |-> tree.proper \cup IF same = {} THEN {t} ELSE {}]
      /\ positive_min' = MinInserted(t, k)
      /\ it' = ToldInserted(tree'.items, t)
      /\ UNCHANGED <<mode, got>>

\* (The key of an item outside does not matter.)
RemoveItem(t) ==
  /\ t \in Inside
  /\ Orphaning \/ ~Orphans(tree, t, key)
  /\ tree' = TreeRemove(tree, t, key)
  /\ key' = [key EXCEPT ![t] = 0]
  /\ positive_min' = IF t = positive_min THEN NextOf(tree.items, t) ELSE positive_min
  /\ it' = ToldRemoved(tree.items, t)
  /\ UNCHANGED <<mode, got>>

Empty ==
  /\ ~TreeIsEmpty(tree)
  /\ tree' = EmptyTree /\ key' = [t \in Items |-> 0]
  /\ positive_min' = None
  /\ it' = [it EXCEPT !.item = None]
  /\ UNCHANGED <<mode, got>>

-------------------------------------------------------------------------------
\* The iterator.

AtEnd(back) == [item |-> IF back THEN At(tree.items, Len(tree.items)) ELSE At(tree.items, 1),
                reversed |-> back]

\* Reset() with a keyMin: from the item with that key that is in the ProtoTree, or the
\* next one there (the one before, if it goes backwards), on to the first of its key.
StartFrom(back, k) ==
  LET same == {u \in tree.proper : key[u] = k}
      before == {u \in tree.proper : key[u] < k /\ \A v \in tree.proper : key[v] < k => key[v] <= key[u]}
      behind == {u \in tree.proper : key[u] > k /\ \A v \in tree.proper : key[v] > k => key[u] <= key[v]}
      match == IF same # {} THEN same ELSE IF back THEN before ELSE behind
      found == IF match = {} THEN None ELSE CHOOSE u \in match : TRUE
  IN  [reversed |-> back,
       item |-> IF back \/ found = None THEN found
                ELSE At(tree.items, Place(tree, Preceding(found, key)) + 1)]

Start(back, k) == IF TreeIsEmpty(tree) THEN AtEnd(back) ELSE StartFrom(back, k)

Begin(s) == it' = s /\ got' = None /\ UNCHANGED <<mode, tree, key, positive_min>>

\* The other way: the item before the iterator becomes the next one.
Turned ==
  [item |-> IF it.item = None THEN AtEnd(~it.reversed).item
            ELSE IF it.reversed THEN NextOf(tree.items, it.item) ELSE PrevOf(tree.items, it.item),
   reversed |-> ~it.reversed]

Get(back) ==
  LET i == IF it.reversed = back THEN it ELSE Turned
  IN  /\ got' = i.item
      /\ it' = IF i.item = None THEN i
               ELSE [i EXCEPT !.item = IF back THEN PrevOf(tree.items, @) ELSE NextOf(tree.items, @)]
      /\ UNCHANGED <<mode, tree, key, positive_min>>

GetNextItem == Get(FALSE)
GetPrevItem == Get(TRUE)
TurnAround == it' = Turned /\ UNCHANGED <<mode, tree, key, positive_min, got>>

Init ==
  /\ mode \in Modes
  /\ tree = EmptyTree /\ key = [t \in Items |-> 0] /\ positive_min = None
  /\ it = [item |-> None, reversed |-> FALSE] /\ got = None

Next ==
  \/ \E t \in Items : RemoveItem(t) \/ \E k \in Keys : Insert(t, k)
  \/ Empty
  \/ \E back \in BOOLEAN : Begin(AtEnd(back)) \/ \E k \in Keys : Begin(Start(back, k))
  \/ GetNextItem
  \/ GetPrevItem
  \/ TurnAround

Spec == Init /\ [][Next]_vars

-------------------------------------------------------------------------------
\* Properties.

TypeOK ==
  /\ mode \in Modes
  /\ tree.items \in Seq(Items) /\ tree.proper \subseteq Inside
  /\ key \in [Items -> Keys]
  /\ {positive_min, it.item} \subseteq Inside \cup {None}
  /\ it.reversed \in BOOLEAN /\ got \in Items \cup {None}

\* The number a key stands for.  (Zero with a sign comes before zero without.)
Value(k) ==
  IF ~HasSign(k) THEN k ELSE IF mode = "complement" THEN k - KeyRange ELSE KeyRange \div 2 - 1 - k

\* The list is in the order of the numbers, however signs are written; of every key the
\* last item, and no other, is the one that a search finds; positive_min is the first
\* item without a sign.  (While nothing has been removed that Orphans() is true of.)
\* Without signs an iterator that is given a key starts at the first item that has it
\* or a greater one, or at the last one that has it or a lesser one.
SortedKept ==
  LET s == tree.items
      positive == {i \in DOMAIN s : ~HasSign(key[s[i]])}
  IN  /\ TypeOK
      /\ \A i, j \in DOMAIN s : i < j => s[i] # s[j] /\ Value(key[s[i]]) <= Value(key[s[j]])
      /\ \A i \in DOMAIN s : s[i] \in tree.proper <=> (i = Len(s) \/ key[s[i + 1]] # key[s[i]])
      /\ mode # "unsigned" => positive_min = At(s, Min(positive \cup {Len(s) + 1}))
      /\ mode = "unsigned" =>
           \A k \in Keys :
             /\ Start(FALSE, k).item = At(s, Min({i \in DOMAIN s : key[s[i]] >= k} \cup {Len(s) + 1}))
             /\ Start(TRUE, k).item = At(s, Max({i \in DOMAIN s : key[s[i]] <= k} \cup {0}))

\* Whatever is inserted and removed meanwhile, the iterator leaves out nothing and
\* returns nothing twice: it stays between the items it stands between.
Standing ==
  IF it.reversed THEN Place(tree, {it.item})
  ELSE IF it.item = None THEN Len(tree.items) ELSE Place(tree, {it.item}) - 1
Cursor == INSTANCE ListCursor WITH
            items <- tree.items, before <- Standing, back <- it.reversed,
            got <- IF got = None THEN <<>> ELSE <<got>>
CursorKept == Cursor!Spec
===============================================================================
