------------------------------- MODULE NetGraph -------------------------------
(***************************************************************************)
(* NetGraph: interfaces, the links between them, and DijkstraTraversal,    *)
(* which finds the shortest paths from one interface step by step and then *)
(* keeps them up to date while links come, go and change.  An interface is *)
(* a number, its place in the list of its node.                            *)
(***************************************************************************)
EXTENDS SortedTree

CONSTANTS Ifaces, None,
          NodeOf,           \* Interface::GetNode()
          Pairs,            \* the <<src, dst>> that may be linked
          Costs,            \* the costs tried
          CostRange,        \* the type of a cost holds 0..CostRange - 1
          Start,            \* the interface given to the constructor
          Starts,           \* those tried with Reset()
          Traverse,         \* the arguments tried of TraverseNodes()
          Duplex            \* the values tried of the argument

GraphAssumption ==
  /\ Ifaces \subseteq Nat /\ None \notin Ifaces
  /\ Pairs \subseteq {p \in Ifaces \X Ifaces : p[1] # p[2]}
  /\ Costs \subseteq Nat /\ CostRange \in Nat
  /\ Start \in Ifaces /\ Starts \subseteq Ifaces
  /\ Duplex \subseteq BOOLEAN /\ Traverse \subseteq BOOLEAN

VARIABLES adjacency,  \* adjacency_tree of each interface: the dst of its links
          cost,       \* Link::GetCost() of each link
          start,      \* start_iface
          traverse_nodes,
          queue,      \* the two queues, with dijkstra_completed and reset_required
          told        \* the link that Update() is still to be told of

vars == <<adjacency, cost, start, traverse_nodes, queue, told>>

LinksOf(x) == adjacency[x].items
Linked(a, b) == b \in ToSet(LinksOf(a))

-------------------------------------------------------------------------------
\* The queues, queue_pending and queue_visited, which are sorted trees; and of the
\* interfaces in either (none is in both) the cost, prev_hop and next_hop_link.

NoItem == [cost |-> None, prev |-> None, hop |-> None]
EmptyQueues == [pending |-> EmptyTree, visited |-> EmptyTree, item |-> [x \in Ifaces |-> NoItem]]

Pending(q) == ToSet(q.pending.items)
Visited(q) == ToSet(q.visited.items)

\* The interfaces of x's node, and those that DijkstraTraversal takes with x.
OnNode(x) == SetToSortSeq({y \in Ifaces : NodeOf[y] = NodeOf[x]}, LAMBDA a, b : a < b)
Cofaces(x) == IF traverse_nodes THEN OnNode(x) ELSE <<x>>

\* InsertItem() of an item whose cost is set, and RemoveItem().
ItemCosts(q) == [x \in Ifaces |-> q.item[x].cost]
Put(q, which, x) == [q EXCEPT ![which] = TreeInsert(@, x, ItemCosts(q))]
Take(q, which, x) == [q EXCEPT ![which] = TreeRemove(@, x, ItemCosts(q))]

\* PriorityQueue::Insert(), and TransferInterface() between the queues.
Inserted(q, x, c) == Put([q EXCEPT !.item[x].cost = c], "pending", x)
MakePending(q, x) == Put(Take(q, "visited", x), "pending", x)
MakeVisited(q, x) == Put(Take(q, "pending", x), "visited", x)

\* AdjustDownward() and AdjustUpward(), once they have compared the costs.
Adjusted(q, x, c) ==
  LET which == IF x \in Visited(q) THEN "visited" ELSE "pending"
  IN  Put([Take(q, which, x) EXCEPT !.item[x].cost = c], which, x)

\* Empty(), which goes on until the ProtoTree is empty.
RECURSIVE Emptied(_, _)
Emptied(q, which) ==
  LET x == Head(q[which].items)
  IN  IF TreeIsEmpty(q[which]) THEN q ELSE Emptied([Take(q, which, x) EXCEPT !.item[x] = NoItem], which)

-------------------------------------------------------------------------------
\* GetNextInterface(): from is start_iface, inUpdate is in_update.

\* The cost of the path to the far end of a link.
PathCost(q, x, y) == (cost[x][y] + q.item[x].cost) % CostRange

\* SetRouteInfo(): how one comes to y from x, which has a link to z, on y's node.
\* Mutant: only the first way found to y is saved.
RoutedOnce(q, from, x, z, y) ==
  IF q.item[y].prev # None THEN q ELSE [q EXCEPT !.item[y].prev = x, !.item[y].hop = <<x, z>>]
Routed(q, from, x, z, y) ==
  LET hop == IF NodeOf[from] = NodeOf[x] THEN <<x, z>> ELSE q.item[x].hop
  IN  [q EXCEPT !.item[y].prev = x, !.item[y].hop = hop]

\* The link was used before, by y.
\* Mutant: nobody used it.
LinkUnused(q, x, y) == FALSE
LinkWasUsed(q, x, y) ==
  LET prev == q.item[y].prev
  IN  prev # None /\ IF traverse_nodes THEN NodeOf[prev] = NodeOf[x] ELSE prev = x

\* A link from x to z leads to y.  It stops when a path has become longer.
Reached(q, from, inUpdate, x, z, y) ==
  LET c == PathCost(q, x, z)
      queued == y \in Visited(q) \cup Pending(q)
      again == y \in Visited(q)
  IN  IF ~queued
      THEN Routed(Inserted(q, y, c), from, x, z, y)
      ELSE IF c < q.item[y].cost /\ ~(again /\ ~inUpdate)
      THEN LET lower == Adjusted(q, y, c)
           IN  Routed(IF again THEN MakePending(lower, y) ELSE lower, from, x, z, y)
      ELSE IF inUpdate /\ LinkWasUsed(q, x, y) /\ c > q.item[y].cost
      THEN [Adjusted(q, y, c) EXCEPT !.reset = TRUE, !.stopped = TRUE]
      ELSE q

FollowLink(q, from, inUpdate, x, z) ==
  FoldLeft(LAMBDA r, y : IF r.stopped THEN r ELSE Reached(r, from, inUpdate, x, z, y),
           q, Cofaces(z))

Visit(q, from, inUpdate, x) ==
  FoldLeft(LAMBDA r, z : FollowLink(r, from, inUpdate, x, z), MakeVisited(q, x), LinksOf(x))

GetNext(q, from, inUpdate) ==
  IF q.pending.items = <<>> THEN [q EXCEPT !.done = TRUE]
  ELSE [Visit(q, from, inUpdate, Head(q.pending.items)) EXCEPT !.stopped = FALSE]

\* GetNextInterface() until it returns NULL, or reset_required is found to be set.
RECURSIVE Traversed(_, _, _)
Traversed(q, from, inUpdate) ==
  LET next == GetNext(q, from, inUpdate)
  IN  IF q.pending.items = <<>> \/ (inUpdate /\ next.reset) THEN next
      ELSE Traversed(next, from, inUpdate)

\* Reset()
ResetQueues(q, from) ==
  LET empty == Emptied(Emptied(q, "visited"), "pending")
  IN  FoldLeft(LAMBDA r, x : Inserted(r, x, 0), [empty EXCEPT !.done = FALSE], Cofaces(from))

FullReset(q, from) == Traversed(ResetQueues(q, from), from, FALSE)

-------------------------------------------------------------------------------
\* PrevHopIsValid(): the link that x was reached over is there and no longer.
\* Mutant: a longer link will do.
ReachedSomehow(q, x) == x \in ToSet(Cofaces(start)) \/ {x, q.item[x].prev} \subseteq Visited(q)
PrevHopIsValid(q, x) ==
  \/ x \in ToSet(Cofaces(start))
  \/ /\ {x, q.item[x].prev} \subseteq Visited(q)
     /\ \E a \in ToSet(Cofaces(q.item[x].prev)), b \in ToSet(Cofaces(x)) :
          /\ Linked(a, b)
          /\ (cost[a][b] + q.item[q.item[x].prev].cost) % CostRange <= q.item[x].cost

\* Update() from an interface, and of the ends of a link.
\* Mutant: reset_required is not looked at.
NoReset(q) == q
ResetIfRequired(q) == IF q.reset THEN FullReset(q, start) ELSE q

UpdateFrom(q, x) ==
  IF ~q.done \/ ~PrevHopIsValid(q, x) THEN FullReset(q, start)
  ELSE LET again == IF x \in Visited(q) THEN FoldLeft(MakePending, q, Cofaces(x))
                    ELSE [q EXCEPT !.reset = TRUE]
       IN  ResetIfRequired(Traversed(again, x, TRUE))

\* Mutant: always from the far end.
UpdateFar(q, near, far) == far
UpdateEnd(q, near, far) == IF Linked(near, far) THEN near ELSE far

Updated(q, a, b) ==
  IF {a, b} \subseteq Visited(q)
  THEN UpdateFrom(q, IF q.item[a].cost > q.item[b].cost THEN UpdateEnd(q, b, a)
                     ELSE UpdateEnd(q, a, b))
  ELSE IF a \in Visited(q) THEN UpdateFrom(q, a)
  ELSE IF b \in Visited(q) THEN UpdateFrom(q, b)
  ELSE q

-------------------------------------------------------------------------------
\* TreeWalkReset() and TreeWalkNext() until it returns NULL, without traverse_nodes:
\* the interfaces returned, each with its level.  The queue is queue_pending, a
\* sorted tree, and the items Append() puts into it have no cost.

RECURSIVE TreeWalked(_, _, _, _)
TreeWalked(q, waiting, trans, level) ==
  IF waiting.items = <<>> THEN <<>>
  ELSE LET x == Head(waiting.items)
           next == SelectSeq(LinksOf(x), LAMBDA y : q.item[y].prev = x)
           first == IF next = <<>> THEN None ELSE Head(next)
           equal == [y \in Ifaces |-> 0]
           left == TreeRemove(waiting, x, equal)
           deeper == IF trans = x THEN level + 1 ELSE level
       IN  <<[iface |-> x, level |-> deeper]>> \o
           TreeWalked(q, FoldLeft(LAMBDA w, y : TreeInsert(w, y, equal), left, next),
                      IF trans \in {None, x} THEN first ELSE trans, deeper)

TreeWalk(q) ==
  TreeWalked(IF q.done THEN q ELSE FullReset(q, start), [items |-> <<start>>, proper |-> {start}], None, 0)

-------------------------------------------------------------------------------
\* SimpleTraversal: plain, with the interfaces of a node adjacent (traverse_nodes),
\* or taken for one (collapse_nodes as well); breadth or depth first.

Ways == {"plain", "traverse", "collapse"}

\* What is put into queue_pending with an interface.
Together(way, y) == IF way = "collapse" THEN <<y>> \o Without(OnNode(y), y) ELSE <<y>>

\* The new ones of the neighbours of x, all of them in the order they are found in.
Mates(way, x) == IF way = "traverse" THEN OnNode(x) ELSE <<>>
Found(way, x, known) ==
  FoldLeft(LAMBDA new, y : IF y \in known \cup ToSet(new) THEN new ELSE new \o Together(way, y),
           <<>>, Mates(way, x) \o LinksOf(x))

\* GetNextInterface() until it returns NULL.
\* Mutant: the marker of the level is moved with every interface.
TransAlways(trans, x, first) == first
TransNext(trans, x, first) == IF trans \in {None, x} THEN first ELSE trans

RECURSIVE Walked(_, _, _, _, _, _)
Walked(way, depthFirst, visited, waiting, trans, level) ==
  IF waiting = <<>> THEN <<>>
  ELSE LET x == Head(waiting)
           new == Found(way, x, visited \cup ToSet(waiting))
           first == IF depthFirst \/ new = <<>> THEN None ELSE Head(new)
           deeper == IF trans = x THEN level + 1 ELSE level
       IN  <<[iface |-> x, level |-> deeper]>> \o
           Walked(way, depthFirst, visited \cup {x},
                  IF depthFirst THEN Reverse(new) \o Tail(waiting) ELSE Tail(waiting) \o new,
                  TransNext(trans, x, first), deeper)

Traversal(way, depthFirst, s) == Walked(way, depthFirst, {}, Together(way, s), None, 0)

-------------------------------------------------------------------------------
Graph == [adjacency |-> adjacency, cost |-> cost]

Disconnected(g, a, b) ==
  [cost |-> [g.cost EXCEPT ![a][b] = None],
   adjacency |-> [g.adjacency EXCEPT ![a] =
                    IF b \in ToSet(@.items) THEN TreeRemove(@, b, g.cost[a]) ELSE @]]

\* Connect() of one direction, and Reconnect(), which takes the link out first.
Connected(g, a, b, c) ==
  LET costs == [g.cost EXCEPT ![a][b] = c]
      out == Disconnected(g, a, b).adjacency
  IN  IF g.cost[a][b] = c THEN g
      ELSE [cost |-> costs, adjacency |-> [out EXCEPT ![a] = TreeInsert(@, b, costs[a])]]

Become(g) == adjacency' = g.adjacency /\ cost' = g.cost

\* After a change the user calls Update() before anything else.
Change(a, b, g) ==
  /\ told = None
  /\ Become(g)
  /\ told' = <<a, b>>
  /\ UNCHANGED <<start, traverse_nodes, queue>>

Connect(a, b, c, duplex) ==
  LET there == Connected(Graph, a, b, c)
  IN  /\ duplex => <<b, a>> \in Pairs
      /\ Change(a, b, IF duplex THEN Connected(there, b, a, c) ELSE there)

\* Both directions are given up if there was but one.
Reconnect(a, b, c, duplex) ==
  LET there == Connected(Graph, a, b, c)
      back == IF Linked(b, a) THEN Connected(there, b, a, c) ELSE Disconnected(there, a, b)
  IN  /\ Linked(a, b)
      /\ Change(a, b, IF duplex THEN back ELSE there)

Disconnect(a, b, duplex) ==
  LET there == Disconnected(Graph, a, b)
  IN  /\ Linked(a, b)
      /\ Change(a, b, IF duplex THEN Disconnected(there, b, a) ELSE there)

Update(a, b) ==
  /\ told \in {<<a, b>>, <<b, a>>}
  /\ queue' = Updated(queue, a, b)
  /\ told' = None
  /\ UNCHANGED <<adjacency, cost, start, traverse_nodes>>

\* Reset(startIface), and a traversal step by step.
Reset(s) ==
  /\ told = None
  /\ start' = s
  /\ queue' = ResetQueues(queue, s)
  /\ UNCHANGED <<adjacency, cost, traverse_nodes, told>>

GetNextInterface ==
  /\ told = None
  /\ queue' = GetNext(queue, start, FALSE)
  /\ UNCHANGED <<adjacency, cost, start, traverse_nodes, told>>

Init ==
  /\ adjacency = [x \in Ifaces |-> EmptyTree]
  /\ cost = [x \in Ifaces |-> [y \in Ifaces |-> None]]
  /\ start = Start /\ told = None
  /\ traverse_nodes \in Traverse
  /\ queue = ResetQueues(EmptyQueues @@ [done |-> FALSE, reset |-> FALSE, stopped |-> FALSE], Start)

Next ==
  \/ \E p \in Pairs, d \in Duplex :
       \/ \E c \in Costs : Connect(p[1], p[2], c, d) \/ Reconnect(p[1], p[2], c, d)
       \/ Disconnect(p[1], p[2], d)
  \/ \E a, b \in Ifaces : Update(a, b)
  \/ \E s \in Starts : Reset(s)
  \/ GetNextInterface

Spec == Init /\ [][Next]_vars

-------------------------------------------------------------------------------
\* Properties.

\* The paths from some interfaces by some steps that meet no interface twice.
Paths == {p \in UNION {[1..n -> Ifaces] : n \in 1..Cardinality(Ifaces)} : IsInjective(p)}
PathsBy(first, steps) ==
  {p \in Paths : p[1] \in first /\ \A i \in 1..Len(p) - 1 : <<p[i], p[i + 1]>> \in steps}
To(paths, x) == {p \in paths : Last(p) = x}

\* A step of a shortest path: from y there is a link to x, or to its node.
LinkedTo(x) == {y \in Ifaces : \E z \in ToSet(Cofaces(x)) : Linked(y, z)}
LinkCost(y, x) == Min({cost[y][z] : z \in {z \in ToSet(Cofaces(x)) : Linked(y, z)}})
RECURSIVE Length(_)
Length(p) == IF Len(p) = 1 THEN 0 ELSE LinkCost(p[1], p[2]) + Length(Tail(p))

\* Whatever links have come, gone and changed: once Update() has been told, every
\* interface that can be reached, and no other one, has the cost of a shortest path, of
\* which its previous hop is the last step but one: that has been visited, and there
\* is a link from it that makes up the difference in cost.  Nothing is in both queues.
PathsShortest ==
  told = None =>
    LET origins == ToSet(Cofaces(start))
        paths == PathsBy(origins, {s \in Ifaces \X Ifaces : s[1] \in LinkedTo(s[2])})
    IN  /\ Visited(queue) \cap Pending(queue) = {}
        /\ \A x \in Visited(queue) :
              /\ To(paths, x) # {}
              /\ queue.item[x].cost = Min({Length(p) : p \in To(paths, x)})
        /\ queue.done => Visited(queue) = {Last(p) : p \in paths}
        /\ \A x \in Visited(queue) \ origins :
              LET prev == queue.item[x].prev
              IN  /\ prev \in Visited(queue)
                  /\ prev \in LinkedTo(x)
                  /\ queue.item[x].cost = queue.item[prev].cost + LinkCost(prev, x)

\* Every walk comes to everything it can reach, and to nothing twice: a traversal of
\* whatever graph, and a walk over the tree of the shortest paths.  The level told of
\* each in a traversal breadth first is its distance in steps, of which one is a link,
\* or the way to the same node's interfaces, or none if these count as one.
\* (Of a traversal the graph alone matters: it is looked at while nothing is visited.)
ListsOnce(walk, reached) ==
  /\ {w.iface : w \in ToSet(walk)} = reached
  /\ \A i, j \in DOMAIN walk : walk[i].iface = walk[j].iface => i = j

WalksComplete ==
  /\ told = None /\ Visited(queue) = {} =>
       \A way \in Ways :
         LET steps == {s \in Ifaces \X Ifaces : \/ \E z \in ToSet(Together(way, s[2])) : Linked(s[1], z)
                                               \/ s[2] \in ToSet(Mates(way, s[1]))}
             paths == PathsBy(ToSet(Together(way, start)), steps)
             breadth == Traversal(way, FALSE, start)
         IN  /\ \A depthFirst \in BOOLEAN :
                  ListsOnce(Traversal(way, depthFirst, start), {Last(p) : p \in paths})
             /\ \A w \in ToSet(breadth) : w.level = Min({Len(p) - 1 : p \in To(paths, w.iface)})
  /\ told = None /\ queue.done /\ ~traverse_nodes => ListsOnce(TreeWalk(queue), Visited(queue))

\* The next hop of every interface is the first link of the way that the previous
\* hops lead back, as GetNextHop() promises: from the start towards the interface.
RECURSIVE FirstReached(_)
FirstReached(x) ==
  IF queue.item[x].prev \in ToSet(Cofaces(start)) THEN x ELSE FirstReached(queue.item[x].prev)

NextHopsLead ==
  told = None /\ queue.done =>
    \A x \in Visited(queue) \ ToSet(Cofaces(start)) :
      LET first == FirstReached(x)
          hop == queue.item[x].hop
      IN  hop[1] = queue.item[first].prev /\ hop[2] \in ToSet(Cofaces(first))
===============================================================================
