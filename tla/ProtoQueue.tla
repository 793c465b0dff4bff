------------------------------ MODULE ProtoQueue ------------------------------
(***************************************************************************)
(* ProtoQueues, whose items may be in several queues at a time.  An item   *)
(* is put into a queue by a container, which both know: the queue in its   *)
(* list or tree, the item in a tree of its containers by queue.  Queues    *)
(* take containers from a pool, their own or one they share, and return    *)
(* them to it.  In what order a queue has its items is that of ProtoList   *)
(* and ProtoSortedTree: here a queue is the set of its containers, and so  *)
(* is a pool.  Of two items with the same key in a ProtoSortedQueue no     *)
(* more is said than of others.                                            *)
(***************************************************************************)
CONSTANTS Items, Queues, Containers, Pools, None,
          Simple,    \* the ProtoSimpleQueues
          Indexed,   \* the ProtoIndexedQueues; all others are ProtoSortedQueues
          PoolOf,    \* container_pool of each queue: None, a pool, or (the queue itself) its own
          Key,       \* of each item
          Clashing   \* are items put into an indexed queue that has one of the same key?

QueueAssumption ==
  /\ Simple \subseteq Queues /\ Indexed \subseteq Queues /\ Simple \cap Indexed = {}
  /\ PoolOf \in [Queues -> Pools \cup {None}]
  /\ \A q, r \in Queues : PoolOf[r] = q => r = q
  /\ None \notin Items /\ None \notin Queues /\ None \notin Pools
  /\ Clashing \in BOOLEAN

VARIABLES alive,        \* the items that exist
          made,         \* the containers that exist
          item, queue,  \* of each container
          list,         \* container_list of each item
          holds,        \* item_list or item_tree of each queue
          pool          \* what is in each pool

vars == <<alive, made, item, queue, list, holds, pool>>

-------------------------------------------------------------------------------
\* GetContainer(); an item is in a queue once (include/protoQueue.h:18).
ContainersOf(q, i) == {c \in list[i] : queue[c] = q}
Contains(q, i) == ContainersOf(q, i) # {}
ItemsIn(q) == {item[c] : c \in holds[q]}

\* GetContainerFromPool() or CreateContainer()
Pooled(q) == IF PoolOf[q] = None THEN {} ELSE pool[PoolOf[q]]
Supply(q) == IF Pooled(q) = {} THEN Containers \ made ELSE Pooled(q)
Draw(q, c) ==
  /\ c \in Supply(q)
  /\ made' = made \cup {c}
  /\ pool' = [p \in Pools |-> pool[p] \ {c}]

Associate(q, i, c) ==
  /\ item' = [item EXCEPT ![c] = i]
  /\ queue' = [queue EXCEPT ![c] = q]
  /\ list' = [list EXCEPT ![i] = @ \cup {c}]

\* The ProtoTree of an indexed queue refuses an item whose key it has.
Clashes(q, i) == q \in Indexed /\ \E d \in holds[q] : Key[item[d]] = Key[i]

\* Append(), Prepend(), and Insert() of indexed and sorted queues, which say nothing
\* of a refusal.
Add(q, i) ==
  /\ i \in alive /\ ~Contains(q, i) /\ (Clashing \/ ~Clashes(q, i))
  /\ \E c \in Containers :
       /\ Draw(q, c) /\ Associate(q, i, c)
       /\ holds' = IF Clashes(q, i) THEN holds ELSE [holds EXCEPT ![q] = @ \cup {c}]
  /\ UNCHANGED alive

\* Mutant: the item keeps a container that is in a pool.
LeaveQueue(C) ==
  /\ item' = [c \in Containers |-> IF c \in C THEN None ELSE item[c]]
  /\ queue' = [c \in Containers |-> IF c \in C THEN None ELSE queue[c]]
  /\ holds' = [q \in Queues |-> holds[q] \ C]
  /\ UNCHANGED list

\* Disassociate() of containers that leave their queues, which are then put into the
\* pools of these or deleted.
Leave(C) ==
  /\ item' = [c \in Containers |-> IF c \in C THEN None ELSE item[c]]
  /\ queue' = [c \in Containers |-> IF c \in C THEN None ELSE queue[c]]
  /\ list' = [i \in Items |-> list[i] \ C]
  /\ holds' = [q \in Queues |-> holds[q] \ C]

Return(C) ==
  /\ pool' = [p \in Pools |-> pool[p] \cup {c \in C : PoolOf[queue[c]] = p}]
  /\ made' = made \ {c \in C : PoolOf[queue[c]] = None}

Release(C) == Leave(C) /\ Return(C)

\* Insert() and InsertAfter() of a simple queue, beside an item j; if it is not in the
\* queue, the container is not used after all.  (An item beside itself is not tried.)
InsertBeside(q, i, j) ==
  /\ q \in Simple /\ i \in alive /\ ~Contains(q, i) /\ j \in alive \ {i}
  /\ IF Contains(q, j) THEN Add(q, i)
     ELSE /\ PoolOf[q] # None /\ \E c \in Supply(q) :
               /\ made' = made \cup {c}
               /\ pool' = [pool EXCEPT ![PoolOf[q]] = @ \cup {c}]
          /\ UNCHANGED <<alive, item, queue, list, holds>>

\* Remove(), RemoveHead() and RemoveTail()
Remove(q, i) ==
  /\ i \in alive /\ Contains(q, i)
  /\ Release(ContainersOf(q, i))
  /\ UNCHANGED alive

Empty(q) == Release(holds[q]) /\ UNCHANGED alive

\* ~Item() and ProtoQueue::Item::Cleanup()
\* Mutant: it stays in its other queues.
DeleteOnly(I, C) == Release(C) /\ alive' = alive \ I
Delete(I, C) == Release(C \cup UNION {list[i] : i \in I}) /\ alive' = alive \ I

Destroy(q) == Delete(ItemsIn(q), holds[q])
DeleteItem(i) == i \in alive /\ Delete({i}, {})
NewItem(i) ==
  /\ i \notin alive /\ alive' = alive \cup {i}
  /\ UNCHANGED <<made, item, queue, list, holds, pool>>

\* ~ProtoQueue() empties the queue and destroys its own pool; another queue may then be
\* made in its place.
DeleteQueue(q) ==
  /\ PoolOf[q] = q
  /\ Leave(holds[q])
  /\ pool' = [pool EXCEPT ![q] = {}]
  /\ made' = made \ (holds[q] \cup pool[q])
  /\ UNCHANGED alive

\* ContainerPool::Destroy() of a pool that queues share.
DestroyPool(p) ==
  /\ p \notin Queues
  /\ pool' = [pool EXCEPT ![p] = {}]
  /\ made' = made \ pool[p]
  /\ UNCHANGED <<alive, item, queue, list, holds>>

-------------------------------------------------------------------------------
Init ==
  /\ alive = Items /\ made = {}
  /\ item = [c \in Containers |-> None] /\ queue = [c \in Containers |-> None]
  /\ list = [i \in Items |-> {}]
  /\ holds = [q \in Queues |-> {}]
  /\ pool = [p \in Pools |-> {}]

Next ==
  \/ \E q \in Queues, i \in Items :
       Add(q, i) \/ Remove(q, i) \/ \E j \in Items : InsertBeside(q, i, j)
  \/ \E q \in Queues : Empty(q) \/ Destroy(q) \/ DeleteQueue(q)
  \/ \E i \in Items : NewItem(i) \/ DeleteItem(i)
  \/ \E p \in Pools : DestroyPool(p)

Spec == Init /\ [][Next]_vars

-------------------------------------------------------------------------------
\* Properties.

TypeOK ==
  /\ alive \subseteq Items /\ made \subseteq Containers
  /\ item \in [Containers -> Items \cup {None}]
  /\ queue \in [Containers -> Queues \cup {None}]
  /\ list \in [Items -> SUBSET Containers]
  /\ holds \in [Queues -> SUBSET Containers]
  /\ pool \in [Pools -> SUBSET Containers]

\* Queues and items agree on which item is in which queue, by one container each; what
\* exists is in a queue or in one pool, and neither deleted in use nor lost: whatever
\* is put into, removed from and deleted together with several queues and a shared pool.
QueuesAgree ==
  /\ \A q \in Queues : \A c \in holds[q] :
       queue[c] = q /\ item[c] \in alive /\ c \in list[item[c]]
  /\ \A i \in Items : \A c \in list[i] :
       /\ item[c] = i /\ queue[c] \in Queues /\ c \in holds[queue[c]]
       /\ \A d \in list[i] : queue[c] = queue[d] => c = d
  /\ \A p \in Pools : \A c \in pool[p] :
       item[c] = None /\ \A r \in Pools : c \in pool[r] => r = p
  /\ made = (UNION {holds[q] : q \in Queues}) \cup (UNION {pool[p] : p \in Pools})
===============================================================================
