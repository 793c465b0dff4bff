------------------------------- MODULE MCTables -------------------------------
(***************************************************************************)
(* The tree of keys, the graph and the routes, checked in one run: in each *)
(* behaviour one of them, the chosen one, is used and the others rest.     *)
(***************************************************************************)
EXTENDS ProtoTree

CONSTANT Chosen  \* those that are used

VARIABLES chosen,
          adjacency, cost, start, traverse_nodes, queue, told,  \* of NetGraph
          host, now, next, saved, kept, did                     \* of ProtoRouteMgr

\* ProtoTree: keys that are prefixes of others, and keys that differ in each of their bits.
SomeKeys == {<<0>>, <<1>>, <<0, 0>>, <<0, 1>>, <<1, 1>>, <<1, 0>>, <<0, 1, 0>>}

\* NetGraph: four interfaces, the second and the third on one node; a path may be shorter
\* by fewer links or by cheaper ones.
Graph == INSTANCE NetGraph WITH
           Ifaces <- 1..4, NodeOf <- <<1, 2, 2, 3>>,
           Pairs <- {<<1, 2>>, <<1, 3>>, <<3, 4>>, <<4, 2>>},
           Costs <- {1, 3}, CostRange <- 64, Start <- 1, Starts <- {1},
           Traverse <- BOOLEAN, Duplex <- BOOLEAN

\* ProtoRouteMgr: destinations that cover each other, one of them beside the others, and
\* a gateway that two of them reach.  Routes that differ in their way, or in the metric only.
Direct(i) == [gw |-> None, iface |-> i, metric |-> 1]
Via(m) == [gw |-> <<0, 0, 1>>, iface |-> 0, metric |-> m]
RoutesTo ==
  [p \in {<<>>, <<0>>, <<0, 0>>, <<1, 0>>} |->
     CASE p = <<>>     -> {Via(1)}
       [] p = <<0>>    -> {Direct(1), Direct(2)}
       [] p = <<0, 0>> -> {Direct(1)}
       [] p = <<1, 0>> -> {Via(1), Via(2)}]
Mgr == INSTANCE ProtoRouteMgr WITH
         Dests <- DOMAIN RoutesTo, Routes <- RoutesTo,
         Refusals <- {{}, {<<0>>}, {<<1, 0>>}}, Families <- {"IPv4"}, Iterations <- {1, 2, 8}

ASSUME AssumptionsMet ==
  /\ Chosen \subseteq {"tree", "graph", "update", "save"}
  /\ Graph!GraphAssumption
  /\ Mgr!RouteAssumption

-------------------------------------------------------------------------------
graphVars == <<adjacency, cost, start, traverse_nodes, queue, told>>
routeVars == <<host, now, next, saved, kept, did>>

TablesInit ==
  /\ chosen \in Chosen
  /\ Init /\ Graph!Init /\ Mgr!Init
  /\ chosen # "graph" => ~traverse_nodes

TablesNext ==
  \/ chosen = "tree" /\ Next /\ UNCHANGED <<graphVars, routeVars>>
  \/ chosen = "graph" /\ Graph!Next /\ UNCHANGED <<vars, routeVars>>
  \/ chosen = "update" /\ Mgr!UpdateNext /\ UNCHANGED <<vars, graphVars>>
  \/ chosen = "save" /\ Mgr!SaveNext /\ UNCHANGED <<vars, graphVars>>

TablesSpec == TablesInit /\ [][TablesNext /\ UNCHANGED chosen]_<<chosen, vars, graphVars, routeVars>>

-------------------------------------------------------------------------------
\* The properties of the instances, as they are stated and explained there.

\* Searches in a tree find what is in it, its ends, the neighbours and those with a prefix.
SearchesRight == chosen = "tree" => Finds /\ OrderKept
\* Costs, previous hops and visits are those of shortest paths, after updates too.
PathsShortest == chosen = "graph" => Graph!PathsShortest
\* A walk over the graph comes to every interface it can reach, once.
WalksComplete == chosen = "graph" => Graph!WalksComplete
\* Next hops are the first links of the shortest paths, as GetNextHop() is said to return.
NextHopsLead == chosen = "graph" => Graph!NextHopsLead
\* UpdateRoutes() makes the routes of the host the new ones, where none covers another.
UpdatesRight == Mgr!UpdatesRight
\* Saved routes come back, and none is left when all are deleted.
RestoresRight == Mgr!RestoresRight
\* No old route is left that is not among the new ones.
OldRoutesGo == Mgr!OldRoutesGo
===============================================================================
