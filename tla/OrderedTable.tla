----------------------------- MODULE OrderedTable -----------------------------
(***************************************************************************)
(* What a ProtoTree promises of itself and of an iterator: a set of keys,  *)
(* and a position between them that moves from key to key in their order,  *)
(* whatever is inserted or removed meanwhile.                              *)
(***************************************************************************)
CONSTANTS Keys,
          Less(_, _),   \* the order of the keys
          NoCall,       \* nothing has been returned since the table was changed
          AtFront, AtRear,  \* the positions before the first key and behind the last
          Astray        \* no position: nothing is promised

VARIABLES members,  \* the keys in the table
          at,       \* the position: the key returned last
          got       \* what the iterator has returned last, or the end it has reached

vars == <<members, at, got>>

Precedes(p, q) ==
  \/ p = AtFront /\ q # AtFront
  \/ q = AtRear /\ p # AtRear
  \/ p \in Keys /\ q \in Keys /\ Less(p, q)

Beyond(back) == {k \in members : IF back THEN Precedes(k, at) ELSE Precedes(at, k)}

Nearest(K, back) == CHOOSE k \in K : \A j \in K \ {k} : IF back THEN Less(j, k) ELSE Less(k, j)

Init == members = {} /\ at = AtFront /\ got = NoCall

Insert(k) == members' = members \cup {k} /\ got' = NoCall /\ UNCHANGED at

\* Under an iterator that has returned k last, or nothing yet.
Remove(k) ==
  /\ members' = members \ {k} /\ got' = NoCall
  /\ at' = at \/ (at \in {k, AtFront, AtRear} /\ at' = Astray)

Empty == members' = {} /\ at' \in {AtFront, AtRear} /\ got' = NoCall

\* A new iterator, or one that is reset.
Begin(back) == at' = (IF back THEN AtRear ELSE AtFront) /\ got' = NoCall /\ UNCHANGED members

Step(back) ==
  /\ at # Astray
  /\ got' = IF Beyond(back) # {} THEN Nearest(Beyond(back), back)
            ELSE IF back THEN AtFront ELSE AtRear
  /\ at' = IF Beyond(back) = {} THEN at ELSE got'
  /\ UNCHANGED members

Wander == at = Astray /\ got' \in Keys \cup {AtFront, AtRear} /\ UNCHANGED <<members, at>>

Next ==
  \/ Wander
  \/ \E k \in Keys : Insert(k) \/ Remove(k)
  \/ Empty
  \/ \E back \in BOOLEAN : Begin(back) \/ Step(back)

Spec == Init /\ [][Next]_vars
===============================================================================
