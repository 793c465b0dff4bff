------------------------------ MODULE TableCursor ------------------------------
(***************************************************************************)
(* A table and a forward iterator that is told of every change to it.      *)
(***************************************************************************)
CONSTANTS Keys, None, Less(_, _)

VARIABLES members,  \* the keys in the table
          cursor    \* the iterator, None while there is none or it goes backwards

INSTANCE Cursors

vars == <<members, cursor>>

Init == members = {} /\ cursor = None

Insert(k) ==
  /\ k \notin members
  /\ members' = members \cup {k}
  /\ cursor' = IF cursor = None THEN None ELSE Inserted(cursor, members')

Remove(k) ==
  /\ k \in members
  /\ cursor # None => RemovalSafe(cursor, k)
  /\ members' = members \ {k}
  /\ cursor' = IF cursor = None THEN None ELSE Removed(cursor, members, k)

Empty == members' = {} /\ cursor' = IF cursor = None THEN None ELSE Lost

Begin == members # {} /\ cursor' = Start(members) /\ UNCHANGED members

Step == cursor # None /\ cursor' \in Moved(cursor, members) /\ UNCHANGED members

Reverse == cursor' = None /\ UNCHANGED members

\* It turns around, at any item or before them all.
Turn ==
  /\ cursor = None
  /\ cursor' \in {Start(members), Lost} \cup {Behind(members, k) : k \in members}
  /\ UNCHANGED members

Next == (\E k \in Keys : Insert(k) \/ Remove(k)) \/ Empty \/ Begin \/ Step \/ Reverse \/ Turn

Spec == Init /\ [][Next]_vars
===============================================================================
