------------------------------ MODULE ListCursor ------------------------------
(***************************************************************************)
(* What an iterator over a list promises: it stands between two items, or  *)
(* at an end, and goes either way from there.  Items that are inserted and *)
(* removed on either side leave it where it is; of an item that is         *)
(* inserted where it stands, it has yet to return it the way it goes.      *)
(***************************************************************************)
EXTENDS Naturals, Sequences, SequencesExt

CONSTANTS Items

VARIABLES items,    \* the list
          before,   \* how many items are before the iterator
          back,     \* whether it goes backwards
          got       \* what it has returned last, as a sequence; or that nothing is left

vars == <<items, before, back, got>>

Init == items = <<>> /\ before = 0 /\ back = FALSE /\ got = <<>>

\* At place i.
InsertItem(t, i) ==
  /\ items' = InsertAt(items, i, t)
  /\ before' = IF i <= before \/ (i = before + 1 /\ back) THEN before + 1 ELSE before
  /\ UNCHANGED <<back, got>>

RemoveItem(i) ==
  /\ items' = RemoveAt(items, i)
  /\ before' = IF i <= before THEN before - 1 ELSE before
  /\ UNCHANGED <<back, got>>

Empty == items' = <<>> /\ before' = 0 /\ UNCHANGED <<back, got>>

\* A new start, anywhere.
Begin(b) == before' \in 0..Len(items) /\ back' = b /\ UNCHANGED items /\ got' = <<>>

GetNext ==
  /\ back' = FALSE
  /\ got' = SubSeq(items, before + 1, IF before < Len(items) THEN before + 1 ELSE before)
  /\ before' = before + Len(got')
  /\ UNCHANGED items

GetPrev ==
  /\ back' = TRUE
  /\ got' = SubSeq(items, before, IF before > 0 THEN before ELSE before - 1)
  /\ before' = before - Len(got')
  /\ UNCHANGED items

TurnAround == back' = ~back /\ UNCHANGED <<items, before, got>>

Next ==
  \/ \E t \in Items, i \in 1..Len(items) + 1 : InsertItem(t, i)
  \/ \E i \in 1..Len(items) : RemoveItem(i)
  \/ Empty
  \/ \E b \in BOOLEAN : Begin(b)
  \/ GetNext
  \/ GetPrev
  \/ TurnAround

Spec == Init /\ [][Next]_vars
===============================================================================
