----------------------------- MODULE TimerQueues -----------------------------
(***************************************************************************)
(* The queues of ProtoTimerMgr as built with _SORTED_TIMERS (the default): *)
(* the first short timers in a linked list of at most ListMax items, kept  *)
(* in order by a search from its front, the other ones in a sorted tree,   *)
(* and the long timers in a sorted tree of their own.  Where a timer is is *)
(* not recorded: RemoveShortTimer() tells it from whether its key is       *)
(* valid.                                                                  *)
(***************************************************************************)
EXTENDS SortedTree

CONSTANTS Timers, None,
          ListMax,    \* LINKED_LIST_MAX
          Timeouts,   \* the timeouts tried
          Orphaning   \* whether timers are removed that Orphans() is true of

QueuesAssumption ==
  /\ ListMax \in Nat
  /\ Timeouts \subseteq Nat
  /\ Orphaning \in BOOLEAN
  /\ None \notin Timers

VARIABLES list,       \* timer_list
          count,      \* timer_list_count
          table,      \* timer_table
          longTable,  \* long_timer_table, likewise
          timeout,    \* ProtoTimer::timeout
          key,        \* ProtoTimer::timeout_key, NoKey when invalid
          kind        \* "short" and "long" (is_precise), "none" when mgr is NULL

vars == <<list, count, table, longTable, timeout, key, kind>>

NoKey == -1

-------------------------------------------------------------------------------
\* The search from the front of timer_list, up to a timeout that is not less.
ListInsert(s, t, at) ==
  LET later == {i \in 1..Len(s) : at <= timeout[s[i]]}
  IN  InsertAt(s, Min(later \cup {Len(s) + 1}), t)

\* Mutant: the table is not looked at.
HeadOfList == IF list # <<>> THEN Head(list) ELSE None
GetShortHead ==
  IF list \o table.items # <<>> THEN Head(list \o table.items) ELSE None

-------------------------------------------------------------------------------
Init ==
  /\ list = <<>> /\ count = 0 /\ table = EmptyTree /\ longTable = EmptyTree
  /\ timeout \in [Timers -> Timeouts]
  /\ key = [t \in Timers |-> NoKey]
  /\ kind = [t \in Timers |-> "none"]

\* Mutant: a timer goes to the list whenever there is room in it.
RoomInList(at) == count < ListMax
BelongsInList(at) ==
  \/ count < ListMax /\ (TreeIsEmpty(table) \/ at <= timeout[Head(table.items)])
  \/ count >= ListMax /\ ListMax > 0 /\ at < timeout[Last(list)]

\* Mutant: the key the timer had in another queue stays valid.
KeepKey(keys, t) == keys
InvalidateKey(keys, t) == [keys EXCEPT ![t] = NoKey]

\* The queues after an insertion, [list, count, table, key].  The timer goes to the
\* list; if the list is full, its tail makes room.
IntoList(t, at) ==
  IF count < ListMax
  THEN [list |-> ListInsert(list, t, at), count |-> count + 1, table |-> table,
        key |-> InvalidateKey(key, t)]
  ELSE LET tail == Last(list)
           keys == [key EXCEPT ![tail] = timeout[tail]]
       IN  [list |-> ListInsert(Without(list, tail), t, at), count |-> count,
            table |-> TreeInsert(table, tail, keys), key |-> InvalidateKey(keys, t)]

IntoTable(t, at) ==
  LET keys == [key EXCEPT ![t] = at]
  IN  [list |-> list, count |-> count, table |-> TreeInsert(table, t, keys), key |-> keys]

\* What fits of the table follows the timers of the list.
MoveHead(q) ==
  LET t == Head(q.table.items)
  IN  [list |-> Append(q.list, t), count |-> q.count + 1,
       table |-> TreeRemove(q.table, t, q.key), key |-> InvalidateKey(q.key, t)]

Migrated(q) ==
  LET n == Min({ListMax - q.count, Len(q.table.items)})
  IN  FoldLeft(LAMBDA r, i : MoveHead(r), q, [i \in 1..n |-> i])

InsertShortTimer(t, at) ==
  LET q == Migrated(IF BelongsInList(at) THEN IntoList(t, at) ELSE IntoTable(t, at))
  IN  /\ kind[t] = "none"
      /\ list' = q.list /\ count' = q.count /\ table' = q.table /\ key' = q.key
      /\ timeout' = [timeout EXCEPT ![t] = at]
      /\ kind' = [kind EXCEPT ![t] = "short"]
      /\ UNCHANGED longTable

\* Mutant: timer_list_count goes down wherever the timer was.
RemoveCounted(t) ==
  /\ kind[t] = "short" /\ ~Orphans(table, t, key)
  /\ table' = TreeRemove(table, t, key) /\ list' = Without(list, t) /\ count' = count - 1
  /\ kind' = [kind EXCEPT ![t] = "none"]
  /\ UNCHANGED <<longTable, timeout, key>>
RemoveShortTimer(t) ==
  /\ kind[t] = "short"
  /\ Orphaning \/ ~Orphans(table, t, key)
  /\ IF key[t] # NoKey
     THEN table' = TreeRemove(table, t, key) /\ UNCHANGED <<list, count>>
     ELSE list' = Without(list, t) /\ count' = count - 1 /\ UNCHANGED table
  /\ kind' = [kind EXCEPT ![t] = "none"]
  /\ UNCHANGED <<longTable, timeout, key>>

InsertLongTimer(t, at) ==
  /\ kind[t] = "none"
  /\ timeout' = [timeout EXCEPT ![t] = at]
  /\ key' = [key EXCEPT ![t] = at]
  /\ longTable' = TreeInsert(longTable, t, key')
  /\ kind' = [kind EXCEPT ![t] = "long"]
  /\ UNCHANGED <<list, count, table>>

RemoveLongTimer(t) ==
  /\ kind[t] = "long"
  /\ Orphaning \/ ~Orphans(longTable, t, key)
  /\ longTable' = TreeRemove(longTable, t, key)
  /\ kind' = [kind EXCEPT ![t] = "none"]
  /\ UNCHANGED <<list, count, table, timeout, key>>

Next ==
  \E t \in Timers :
    \/ \E at \in Timeouts : InsertShortTimer(t, at) \/ InsertLongTimer(t, at)
    \/ RemoveShortTimer(t)
    \/ RemoveLongTimer(t)

Spec == Init /\ [][Next]_vars

-------------------------------------------------------------------------------
\* Properties.

Once(s) == \A i, j \in 1..Len(s) : s[i] = s[j] => i = j

TypeOK ==
  /\ list \in Seq(Timers)
  /\ \A tree \in {table, longTable} : tree.items \in Seq(Timers) /\ tree.proper \subseteq ToSet(tree.items)
  /\ count \in Nat
  /\ timeout \in [Timers -> Timeouts]
  /\ key \in [Timers -> Timeouts \cup {NoKey}]
  /\ kind \in [Timers -> {"short", "long", "none"}]

Ordered(s) == \A i \in 1..Len(s) - 1 : timeout[s[i]] <= timeout[s[i + 1]]

\* The list and then the table are in the order of the timeouts, and so are the long
\* timers, as the items of a ProtoSortedTree are said to be: OnSystemTimeout() and
\* OnPulseTimeout() may stop at the first timer that is not due.
InOrder == Ordered(list \o table.items) /\ Ordered(longTable.items)

\* Every active timer is in one queue, once, and its key tells which: what
\* RemoveShortTimer() goes by is right however the timer got where it is.  The list
\* keeps within its bound, by a count that is its length, and all are in order.
KeysTell ==
  /\ TypeOK /\ count = Len(list) /\ count <= ListMax
  /\ Once(list \o table.items \o longTable.items)
  /\ \A t \in Timers :
       /\ t \in ToSet(list) <=> kind[t] = "short" /\ key[t] = NoKey
       /\ t \in ToSet(table.items) <=> kind[t] = "short" /\ key[t] # NoKey
       /\ t \in ToSet(longTable.items) <=> kind[t] = "long"
       /\ kind[t] # "none" => key[t] \in {NoKey, timeout[t]}
  /\ InOrder

\* The queues implement the pool.
Pool == INSTANCE TimerPool WITH pool <- {t \in Timers : kind[t] = "short"},
                                head <- GetShortHead
PoolKept == Pool!Spec
===============================================================================
