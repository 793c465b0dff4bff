-------------------------------- MODULE Cursors --------------------------------
(***************************************************************************)
(* A forward ProtoTree::Iterator as its user sees it: the item it has      *)
(* returned last, the item it will return next, and what becomes of both   *)
(* when an item is inserted or removed.  The pointer curr_hop is not seen; *)
(* where it is left behind one item may be passed over.  ProtoTree with    *)
(* its nodes and pointers is checked to move like this (TableCursor).      *)
(***************************************************************************)
CONSTANTS None,        \* NULL
          Less(_, _)   \* the order of the keys

Least(K) == IF K = {} THEN None ELSE CHOOSE k \in K : \A j \in K \ {k} : Less(k, j)
Successor(M, k) == Least({j \in M : Less(k, j)})

\* An iterator at its start, one behind k, and one that returns nothing more
\* until an insertion takes it back to the start.
Start(M) == [prev |-> None, next |-> Least(M)]
Behind(M, k) == [prev |-> k, next |-> Successor(M, k)]
Lost == [prev |-> None, next |-> None]

\* The item returned last has been removed: both pointers are at the one after it.
Loose(c) == c.prev = c.next /\ c.next # None

\* GetNextItem(): the item returned is c.next.  A loose iterator may leave out the next.
Moved(c, M) ==
  LET next == Successor(M, c.next)
  IN  IF c.next = None THEN {c}
      ELSE {[prev |-> c.next, next |-> n] :
              n \in {next} \cup IF Loose(c) /\ next # None THEN {Successor(M, next)} ELSE {}}

\* Update() after an insertion, M holding the new item,
Inserted(c, M) == IF c.prev # None THEN Behind(M, c.prev) ELSE Start(M)

\* and after the removal of k from M.  If it is loose at k, the code goes on from
\* the node of the removed item, whose pointers are gone (RemovalSafe).
RemovalSafe(c, k) == ~(Loose(c) /\ c.prev = k)

Removed(c, M, k) ==
  IF c.prev = None \/ (c.prev = k /\ c.next = None) THEN Lost
  ELSE IF c.prev # k THEN Behind(M \ {k}, c.prev)
  ELSE [prev |-> c.next, next |-> c.next]
===============================================================================
