----------------------------- MODULE ProtoRouteMgr -----------------------------
(***************************************************************************)
(* ProtoRouteMgr: the routes of a host are set, deleted, saved, restored,  *)
(* and changed from what one ProtoRouteTable says to what another says.  A *)
(* prefix is a sequence of bits, a ProtoRouteTable a ProtoTree of prefixes *)
(* with a route for each, and the route of the empty prefix, the default.  *)
(* The host keeps one route for each prefix; it refuses what it likes, and *)
(* any gateway that it has no direct route to.                             *)
(***************************************************************************)
EXTENDS Integers, Sequences

LOCAL Seqs == INSTANCE SequencesExt

CONSTANTS Dests,      \* the destinations, prefixes
          Routes,     \* of each prefix, [gw, iface, metric]; gw is an address or None
          Refusals,   \* sets of the prefixes whose requests a host refuses in one call
          Families,   \* address families
          Iterations, \* the arguments maxIterations of DeleteAllRoutes()
          None

Default == <<>>

RouteAssumption ==
  /\ \A p \in Dests : p \in Seq({0, 1})
  /\ Default \in Dests
  /\ \A p \in Dests : \A r \in Routes[p] : r.iface \in Nat /\ (r.gw # None \/ r.iface > 0)
  /\ Families \subseteq {"IPv4", "IPv6"} /\ "IPv4" \in Families
  /\ Iterations \subseteq Nat \ {0}

VARIABLES host,   \* the routes of the host, of each family
          now,    \* the ProtoRouteTable that is thought to be the host's
          next,   \* the one that is to be
          saved,  \* savedRoutesIPv4 and savedRoutesIPv6: what is in them, or NULL
          kept,   \* history: the host's routes when they were saved last
          did     \* the last call to the ProtoRouteMgr

vars == <<host, now, next, saved, kept, did>>

Tree == INSTANCE ProtoTree WITH
          Keys <- Dests \ {Default}, NoCall <- "none", AtFront <- "front", AtRear <- "rear",
          Astray <- "astray", BackFrom <- 1, tree <- None, it <- None, at <- None, got <- None

-------------------------------------------------------------------------------
\* ProtoRouteTable.

NoRoutes == [p \in Dests |-> None]
EmptyTable == [tree |-> Tree!EmptyTree, route |-> NoRoutes]

\* GetEntry() and FindRouteEntry(), of which the prefix is all there is to say.
DefaultEntry(T) == IF T.route[Default] = None THEN None ELSE Default
GetEntry(T, p) == IF p = Default THEN DefaultEntry(T) ELSE Tree!Find(T.tree, p)
FindRouteEntry(T, p) ==
  IF p # Default /\ Tree!FindPrefix(T.tree, p) # None THEN Tree!FindPrefix(T.tree, p)
  ELSE DefaultEntry(T)

SetRoute(T, p, r) ==
  [T EXCEPT !.tree = IF p # Default /\ GetEntry(T, p) = None THEN Tree!Inserted(@, p) ELSE @,
            !.route[p] = r]
DeleteRoute(T, p) ==
  [T EXCEPT !.tree = IF p = Default THEN @ ELSE Tree!Removed(@, p), !.route[p] = None]

\* Whether DeleteRoute() takes the entry for the one that is meant.
Meant(T, p, gw, iface) ==
  GetEntry(T, p) # None /\ gw = T.route[p].gw /\ iface \in {0, T.route[p].iface}

IsDirectRoute(r) == r # None /\ r.gw = None /\ r.iface > 0
IsGatewayRoute(r) == r # None /\ r.gw # None

\* The entries of a kind that an iterator returns, the default entry first.
Ordered == <<Default>> \o Seqs!SetToSortSeq(Dests \ {Default}, Tree!Less)
Listed(R, Is(_)) == SelectSeq(Ordered, LAMBDA p : Is(R[p]))

\* A table that GetAllRoutes() has filled.
TableOf(R) ==
  Seqs!FoldLeft(LAMBDA T, p : SetRoute(T, p, R[p]), EmptyTable, Listed(R, LAMBDA r : r # None))

-------------------------------------------------------------------------------
\* The host.  a is its routes and the result so far, bad the prefixes whose requests it
\* refuses and whether a route is lost that it was to replace.

Reaches(h, gw) == \E p \in Dests : IsDirectRoute(h[p]) /\ Seqs!IsPrefix(p, gw)
Accepts(h, p, r, bad) ==
  p \notin bad.refused /\ (IsGatewayRoute(r) => Reaches([h EXCEPT ![p] = None], r.gw))

HostSet(a, p, r, bad) ==
  IF Accepts(a.host, p, r, bad) THEN [a EXCEPT !.host[p] = r]
  ELSE [host |-> IF bad.lost THEN [a.host EXCEPT ![p] = None] ELSE a.host, ok |-> FALSE]
HostDelete(a, p, bad) ==
  IF p \in bad.refused THEN [a EXCEPT !.ok = FALSE] ELSE [a EXCEPT !.host[p] = None]

-------------------------------------------------------------------------------
\* SetRoutes() and DeleteRoutes(), of the routes R of a table.

AllSet(a, R, ps, bad) == Seqs!FoldLeft(LAMBDA b, p : HostSet(b, p, R[p], bad), a, ps)
AllDeleted(a, ps, bad) == Seqs!FoldLeft(LAMBDA b, p : HostDelete(b, p, bad), a, ps)

\* Mutant: the gateway routes are set first.
SetGatewaysFirst(h, R, bad) ==
  AllSet([host |-> h, ok |-> TRUE], R, Listed(R, IsGatewayRoute) \o Listed(R, IsDirectRoute), bad)
SetRoutes(h, R, bad) ==
  AllSet([host |-> h, ok |-> TRUE], R, Listed(R, IsDirectRoute) \o Listed(R, IsGatewayRoute), bad)

DeleteRoutes(h, R, bad) ==
  AllDeleted([host |-> h, ok |-> TRUE],
             Listed(R, IsGatewayRoute) \o Listed(R, IsDirectRoute)
               \o (IF R[Default] # None THEN <<Default>> ELSE <<>>), bad)

\* GetDiff(): what of a table old is not in new; what of new is not in old, or is
\* another route there; and what differs in its metric only.
Without(old, new) ==
  [p \in Dests |-> IF FindRouteEntry(new, p) = None THEN old.route[p] ELSE None]

\* Mutant: another interface is no change.
SameGateway(r, s) == r.gw = s.gw
SameWay(r, s) == r.gw = s.gw /\ r.iface = s.iface

Changed(old, new, p) ==
  LET e == FindRouteEntry(old, p) IN e = None \/ ~SameWay(old.route[e], new.route[p])
Remetered(old, new, p) ==
  LET e == FindRouteEntry(old, p) IN e # None /\ old.route[e].metric # new.route[p].metric

Updates(old, new) ==
  [p \in Dests |-> IF new.route[p] # None /\ Changed(old, new, p) THEN new.route[p] ELSE None]
MetricUpdates(old, new) ==
  [p \in Dests |->
     IF new.route[p] # None /\ ~Changed(old, new, p) /\ Remetered(old, new, p) THEN new.route[p] ELSE None]

\* UpdateRoutes() goes on as long as all goes well.
ThenSet(a, R, bad) == IF a.ok THEN SetRoutes(a.host, R, bad) ELSE a
UpdateRoutes(h, old, new, bad) ==
  ThenSet(ThenSet(DeleteRoutes(h, Without(old, new), bad), Updates(old, new), bad),
          MetricUpdates(old, new), bad)

\* DeleteAllRoutes(): a pass, and what is returned; at the last pass maxIterations is 0 if
\* the loop is left, and has passed 0 if it is not.
\* Mutant: what a pass was refused is forgotten.
PassForgets(a, n, max, bad) ==
  IF a.left THEN a
  ELSE IF a.host = NoRoutes THEN [a EXCEPT !.left = TRUE, !.ok = n # max]
  ELSE [a EXCEPT !.host = DeleteRoutes(@, @, bad).host]
Passed(d) == [host |-> d.host, ok |-> d.ok, left |-> ~d.ok]
Pass(a, n, max, bad) ==
  IF a.left THEN a
  ELSE IF a.host = NoRoutes THEN [a EXCEPT !.left = TRUE, !.ok = n # max]
  ELSE Passed(DeleteRoutes(a.host, a.host, bad))
DeleteAllRoutes(h, max, bad) ==
  Seqs!FoldLeft(LAMBDA a, n : Pass(a, n, max, bad), [host |-> h, ok |-> TRUE, left |-> FALSE],
                [n \in 1..max |-> n])

-------------------------------------------------------------------------------
Quiet == [call |-> "none", family |-> "IPv4", ok |-> TRUE, refused |-> {}]
Done(call, f, a, bad) ==
  /\ host' = [host EXCEPT ![f] = a.host]
  /\ did' = [call |-> call, family |-> f, ok |-> a.ok, refused |-> bad.refused]

Refusing == [refused : Refusals, lost : BOOLEAN]

Init ==
  /\ host = [f \in Families |-> NoRoutes]
  /\ now = EmptyTable /\ next = EmptyTable
  /\ saved = [f \in Families |-> None] /\ kept = saved
  /\ did = Quiet

\* The table that is to be is made, from what is known of the host's.
Known == now.route = host["IPv4"]

Plan(p, r) ==
  /\ Known
  /\ next' = SetRoute(next, p, r)
  /\ did' = Quiet /\ UNCHANGED <<host, now, saved, kept>>

Cancel(p, gw, iface) ==
  /\ Known /\ Meant(next, p, gw, iface)
  /\ next' = DeleteRoute(next, p)
  /\ did' = Quiet /\ UNCHANGED <<host, now, saved, kept>>

Update(bad) ==
  /\ \E a \in {UpdateRoutes(host["IPv4"], now, next, bad)} :
       /\ now' = IF a.ok THEN next ELSE now
       /\ Done("update", "IPv4", a, bad)
  /\ UNCHANGED <<next, saved, kept>>

\* After a failure the host is asked.
Reread ==
  /\ ~Known
  /\ now' = TableOf(host["IPv4"])
  /\ did' = Quiet /\ UNCHANGED <<host, next, saved, kept>>

\* Another program changes a route.
Others(f, p, r) ==
  /\ host[f][p] # r
  /\ host' = [host EXCEPT ![f][p] = r]
  /\ did' = Quiet /\ UNCHANGED <<now, next, saved, kept>>

\* SaveAllRoutes(): the IPv4 routes, whatever the family; if they are not got, none.
Save(f, got) ==
  /\ saved' = [saved EXCEPT ![f] = IF got THEN host["IPv4"] ELSE NoRoutes]
  /\ kept' = [kept EXCEPT ![f] = IF got THEN host[f] ELSE None]
  /\ did' = Quiet /\ UNCHANGED <<host, now, next>>

RestoreSavedRoutes(h, R, bad) ==
  IF R = None THEN [host |-> h, ok |-> FALSE] ELSE SetRoutes(h, R, bad)
Restore(f, bad) ==
  /\ Done("restore", f, RestoreSavedRoutes(host[f], saved[f], bad), bad)
  /\ UNCHANGED <<now, next, saved, kept>>

ClearSavedRoutes ==
  /\ saved' = [f \in Families |-> None] /\ kept' = saved'
  /\ did' = Quiet /\ UNCHANGED <<host, now, next>>

DeleteAll(f, max, bad) ==
  /\ Done("delete", f, DeleteAllRoutes(host[f], max, bad), bad)
  /\ UNCHANGED <<now, next, saved, kept>>

\* Tables change under a program that updates the host's routes; or the routes of the
\* host change, and are saved, restored and deleted.
UpdateNext ==
  \/ \E p \in Dests :
       \/ \E r \in Routes[p] : Plan(p, r)
       \/ \E r \in Routes[p] : Cancel(p, r.gw, r.iface) \/ Cancel(p, r.gw, 0)
  \/ \E bad \in Refusing : Update(bad)
  \/ Reread

SaveNext ==
  \/ \E f \in Families :
       \/ \E p \in Dests : \E r \in Routes[p] \cup {None} : Others(f, p, r)
       \/ \E got \in BOOLEAN : Save(f, got)
       \/ \E bad \in Refusing : Restore(f, bad) \/ \E max \in Iterations : DeleteAll(f, max, bad)
  \/ ClearSavedRoutes

Next == UpdateNext \/ SaveNext

Spec == Init /\ [][Next]_vars

-------------------------------------------------------------------------------
\* Properties.

Called(call) == did'.call = call
Before == host[did'.family]
After == host'[did'.family]

\* No gateway without a direct route to it.
Closed(R) == \A p \in Dests : IsGatewayRoute(R[p]) => Reaches([R EXCEPT ![p] = None], R[p].gw)

Holds(T) == {p \in Dests : T.route[p] # None}
\* The prefixes that no shorter one in either table covers.
Uncovered ==
  {p \in Dests :
     \A q \in Holds(now) \cup Holds(next) : Seqs!IsPrefix(q, p) => q = p}
Flat == Holds(now) \cup Holds(next) \subseteq Uncovered

\* UpdateRoutes() gives the host the new table's routes, if it had the old table's, for
\* every prefix that is not covered by a shorter one; it fails only if the host refuses;
\* and whatever becomes of it, a route that is in both tables is left alone.
UpdatesRight ==
  [][Called("update") /\ Known =>
       /\ did'.ok => \A p \in Uncovered : After[p] = next.route[p]
       /\ did'.refused = {} /\ Closed(next.route) /\ Flat => did'.ok
       /\ \A p \in Dests : now.route[p] = next.route[p] => After[p] = Before[p]]_vars

\* RestoreSavedRoutes() brings back the routes that were the host's when they were
\* saved, and touches no others; DeleteAllRoutes() leaves none if it says so.
RestoresRight ==
  [][/\ Called("restore") /\ kept[did'.family] # None =>
          LET R == kept[did'.family]
          IN  /\ did'.ok => \A p \in Dests : R[p] # None => After[p] = R[p]
              /\ did'.refused = {} /\ Closed(R) => did'.ok
              /\ \A p \in Dests : R[p] = None => After[p] = Before[p]
     /\ Called("delete") /\ did'.ok => After = NoRoutes]_vars

\* include/protoRouteMgr.h:44: "Routes which existe in the old route table but not the new
\* one will be removed."
OldRoutesGo ==
  [][Called("update") /\ did'.ok /\ Known =>
       \A p \in Holds(now) \ Holds(next) : After[p] = None]_vars
===============================================================================
