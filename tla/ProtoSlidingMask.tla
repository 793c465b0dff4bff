--------------------------- MODULE ProtoSlidingMask ---------------------------
(***************************************************************************)
(* ProtoSlidingMask: bits in a ring of num_bits positions, of which the    *)
(* part from start to end stands for the indices from offset on, counted   *)
(* modulo the range.  A mask is a record of the positions of the bits that *)
(* are 1, of start, end and offset.  The loops over the bytes of the mask  *)
(* are searches among these positions.  range_mask is not 0; Copy(),       *)
(* Resize() and XCopy() are left out.  Another mask that is an operand is  *)
(* the set of its indices, of the same size and range.                     *)
(***************************************************************************)
EXTENDS Integers, FiniteSets

LOCAL Sets == INSTANCE FiniteSetsExt
LOCAL Sequence == INSTANCE SequencesExt

CONSTANTS NumBits,     \* num_bits
          Range,       \* range_mask + 1
          Operands,    \* what other masks hold
          Counts,      \* the numbers of bits for SetBits() and UnsetBits()
          Misjudging   \* are the calls made that the code gets wrong?

MaskAssumption ==
  /\ NumBits \in Nat \ {0} /\ Range \in {2 ^ e : e \in 1..16} /\ 2 * NumBits <= Range
  /\ Operands \subseteq SUBSET (0..Range - 1) /\ Counts \subseteq Nat /\ Misjudging \in BOOLEAN

VARIABLE mask

Indices == 0..Range - 1

-------------------------------------------------------------------------------
\* Indices and positions.

Difference(a, b) ==
  LET d == (a - b) % Range
  IN  IF 2 * d < Range \/ (2 * d = Range /\ a >= b) THEN d ELSE d - Range

Precedes(m, i) == Difference(i, m.offset) < 0

Wrapped(pos) == IF pos >= NumBits THEN pos - NumBits ELSE pos
Position(m, i) == Wrapped(m.start + Difference(i, m.offset))

\* The position of an index before offset, which is negative if it is too far.
PositionBefore(m, i) ==
  LET delta == m.start + Difference(i, m.offset)
  IN  IF delta < 0 THEN delta + NumBits ELSE delta

Within(m, pos) ==
  IF m.end < m.start THEN pos <= m.end \/ pos >= m.start ELSE m.start <= pos /\ pos <= m.end

IsSet(m) == m.start < NumBits
Cleared == [bits |-> {}, start |-> NumBits, end |-> NumBits, offset |-> 0]
Full(i) == [bits |-> 0..NumBits - 1, start |-> 0, end |-> NumBits - 1, offset |-> i]

\* How far the positions of bits are from start, as the searches go through them.
Span(m) == IF m.end < m.start THEN NumBits - (m.start - m.end) ELSE m.end - m.start
Found(m) == {k \in 0..Span(m) : Wrapped(m.start + k) \in m.bits}
IndexAt(m, k) == (m.offset + k) % Range
LastSet(m) == IndexAt(m, Span(m))

InWindow(m, i) == Difference(i, m.offset) < NumBits /\ Within(m, Position(m, i))

Test(m, i) == IsSet(m) /\ ~Precedes(m, i) /\ InWindow(m, i) /\ Position(m, i) \in m.bits

NoIndex == -1
GetNextSet(m, i) ==
  LET later == {k \in Found(m) : k >= Difference(i, m.offset)}
  IN  IF ~IsSet(m) THEN NoIndex
      ELSE IF Precedes(m, i) THEN m.offset
      ELSE IF InWindow(m, i) /\ later # {} THEN IndexAt(m, Sets!Min(later)) ELSE NoIndex

\* Mutant: nothing is found from behind the window.
GetPrevSetInWindow(m, i) ==
  LET earlier == {k \in Found(m) : k <= Difference(i, m.offset)}
  IN  IF IsSet(m) /\ InWindow(m, i) /\ earlier # {} THEN IndexAt(m, Sets!Max(earlier)) ELSE NoIndex

GetPrevSet(m, i) ==
  LET earlier == {k \in Found(m) : k <= Difference(i, m.offset)}
  IN  IF ~IsSet(m) \/ Precedes(m, i) THEN NoIndex
      ELSE IF ~InWindow(m, i) THEN LastSet(m)
      ELSE IF earlier # {} THEN IndexAt(m, Sets!Max(earlier)) ELSE NoIndex

-------------------------------------------------------------------------------
\* Setting and unsetting.

CanSet(m, i) ==
  \/ ~IsSet(m)
  \/ Precedes(m, i) /\ PositionBefore(m, i) >= 0 /\ ~Within(m, PositionBefore(m, i))
  \/ ~Precedes(m, i) /\ Difference(i, m.offset) < NumBits

\* The end moves to a position outside.  Mutant: only if that is a later one.
ReachedUnwrapped(m, pos) == [m EXCEPT !.end = IF pos > @ THEN pos ELSE @]
Reached(m, pos) == [m EXCEPT !.end = IF Within(m, pos) THEN @ ELSE pos]

From(m, i) == [m EXCEPT !.start = PositionBefore(m, i), !.offset = i]

Set(m, i) ==
  LET n == IF Precedes(m, i) THEN From(m, i) ELSE Reached(m, Position(m, i))
  IN  IF ~IsSet(m) THEN [bits |-> (m.bits \ 0..7) \cup {0}, start |-> 0, end |-> 0, offset |-> i]
      ELSE IF ~CanSet(m, i) THEN m
      ELSE [n EXCEPT !.bits = @ \cup {Position(n, i)}]

\* The part of Unset() after a bit was unset: the window shrinks to bits that are set.
\* Mutant: start moves and offset stays.
ShrunkInPlace(m, i, pos) ==
  LET next == GetNextSet(m, i)
  IN  IF m.start = m.end THEN [m EXCEPT !.start = NumBits, !.end = NumBits]
      ELSE IF m.start = pos
      THEN [m EXCEPT !.start = Wrapped(@ + Difference(next, m.offset))]
      ELSE IF pos # m.end THEN m
      ELSE [m EXCEPT !.end = Wrapped(m.start + Difference(GetPrevSet(m, i), m.offset))]

Shrunk(m, i, pos) ==
  LET next == GetNextSet(m, i)
      s == IF m.start # pos THEN m
           ELSE [m EXCEPT !.start = Wrapped(@ + Difference(next, m.offset)), !.offset = next]
  IN  IF m.start = m.end THEN [m EXCEPT !.start = NumBits, !.end = NumBits]
      ELSE IF pos # s.end THEN s
      ELSE [s EXCEPT !.end = Wrapped(s.start + Difference(GetPrevSet(s, i), s.offset))]

Unset(m, i) ==
  IF ~IsSet(m) \/ Precedes(m, i) \/ ~InWindow(m, i) THEN m
  ELSE Shrunk([m EXCEPT !.bits = @ \ {Position(m, i)}], i, Position(m, i))

Invert(m, i) == IF Test(m, i) THEN Unset(m, i) ELSE Set(m, i)

Ring(first, last) == IF last < first THEN (first..NumBits - 1) \cup (0..last) ELSE first..last

CanSetBits(m, i, count) ==
  \/ count = 0
  \/ ~IsSet(m) /\ count <= NumBits
  \/ IsSet(m) /\ CanSet(m, i) /\ CanSet(m, (i + count - 1) % Range)

SetBits(m, i, count) ==
  LET last == (i + count - 1) % Range
      n == IF Precedes(m, i) THEN From(m, i) ELSE m
      later == Difference(last, n.offset) > 0
      lastPos == IF later THEN Position(n, last) ELSE PositionBefore(n, last)
      r == IF later THEN Reached(n, lastPos) ELSE n
  IN  IF count = 0 \/ ~CanSetBits(m, i, count) THEN m
      ELSE IF ~IsSet(m)
      THEN [bits |-> m.bits \cup 0..count - 1, start |-> 0, end |-> count - 1, offset |-> i]
      ELSE [r EXCEPT !.bits = @ \cup Ring(Position(n, i), lastPos)]

\* An index before offset stays where it is while the count is made smaller.
UnsetBits(m, i, count) ==
  LET trimmed == IF count > NumBits THEN NumBits ELSE count
      before == Difference(m.offset, i)
      number == IF Precedes(m, i) THEN trimmed - before ELSE trimmed
      firstPos == IF Precedes(m, i) THEN m.start ELSE Position(m, i)
      endex == (i + number - 1) % Range
      lastPos == IF Difference(endex, LastSet(m)) < 0 THEN Wrapped(firstPos + number - 1) ELSE m.end
      n == [m EXCEPT !.bits = @ \ Ring(firstPos, lastPos)]
  IN  IF ~IsSet(m) \/ number <= 0 \/ Difference(i, m.offset) >= NumBits THEN m
      ELSE IF m.start = firstPos /\ m.end = lastPos THEN [n EXCEPT !.start = NumBits, !.end = NumBits]
      ELSE IF m.start = firstPos THEN Unset(n, n.offset)
      ELSE IF m.end = lastPos THEN Unset(n, LastSet(n)) ELSE n

-------------------------------------------------------------------------------
\* Two masks.  S is not empty where its first and its last index are asked for.

First(S) == CHOOSE i \in S : \A j \in S : (j - i) % Range < NumBits
Last(S) == CHOOSE i \in S : \A j \in S : (i - j) % Range < NumBits
Along(i, span) == [k \in 1..span + 1 |-> (i + k - 1) % Range]

\* The indices of m that are in S are unset, one by one.
Without(m, S) ==
  Sequence!FoldLeft(LAMBDA n, i : IF Test(n, i) /\ i \in S THEN Unset(n, i) ELSE n,
                    m, Along(m.offset, Span(m)))

Subtract(m, S) == IF IsSet(m) /\ S # {} THEN Without(m, S) ELSE m

Multiply(m, S) == IF S = {} THEN Cleared ELSE IF IsSet(m) THEN Without(m, Indices \ S) ELSE m

\* Add() to a mask with bits, which is a Copy() otherwise.
Add(m, S) ==
  IF S = {} \/ ~CanSet(m, First(S)) THEN m
  ELSE Sequence!FoldLeft(LAMBDA n, i : IF i \in S THEN Set(n, i) ELSE n, m, Along(First(S), NumBits - 1))

Xor(m, S) ==
  IF S = {} \/ ~CanSet(m, First(S)) THEN m
  ELSE Sequence!FoldLeft(LAMBDA n, i : IF i \in S THEN Invert(n, i) ELSE n, m, Along(First(S), NumBits - 1))

-------------------------------------------------------------------------------
\* The calls that the code judges rightly.

\* Too far before offset, an index may get the position of a free one all the same.
NearEnough(m, i) ==
  (IsSet(m) /\ Precedes(m, i)) => (Difference(m.offset, i) <= NumBits \/ PositionBefore(m, i) < 0)

\* SetBits() looks at the first and the last index alone.
SetBitsJudges(m, i, count) ==
  LET last == (i + count - 1) % Range
  IN  IsSet(m) => /\ count <= NumBits /\ NearEnough(m, i) /\ NearEnough(m, last)
                  /\ Precedes(m, last) => Precedes(m, i)

\* UnsetBits() takes a run behind the last bit for one that goes round the ring, and
\* goes by the wrong last index once it has left out what precedes offset.
UnsetBitsJudges(m, i, count) ==
  IsSet(m) /\ count > 0 =>
    /\ Difference(i, m.offset) \notin Span(m) + 1..NumBits - 1
    /\ Precedes(m, i) /\ count > Difference(m.offset, i)
         => /\ count <= NumBits /\ Difference((i + count - 1) % Range, LastSet(m)) <= 0
            /\ 2 * (Difference(m.offset, i) + Span(m)) < Range

\* Add() and Xor() take the first index of the other mask for its last one.
OperandJudges(m, S) ==
  S # {} => /\ NearEnough(m, First(S)) /\ NearEnough(m, Last(S))
            /\ CanSet(m, First(S)) => CanSet(m, Last(S))

-------------------------------------------------------------------------------
Init == mask = Cleared

Next ==
  \/ mask' = Cleared
  \/ \E i \in Indices :
        \/ mask' = Full(i)
        \/ (Misjudging \/ NearEnough(mask, i)) /\ (mask' = Set(mask, i) \/ mask' = Invert(mask, i))
        \/ mask' = Unset(mask, i)
        \/ \E count \in Counts :
              \/ (Misjudging \/ SetBitsJudges(mask, i, count)) /\ mask' = SetBits(mask, i, count)
              \/ (Misjudging \/ UnsetBitsJudges(mask, i, count)) /\ mask' = UnsetBits(mask, i, count)
  \/ \E S \in Operands :
        \/ mask' = Subtract(mask, S) \/ mask' = Multiply(mask, S)
        \/ /\ Misjudging \/ OperandJudges(mask, S)
           /\ \/ IsSet(mask) /\ mask' = Add(mask, S)
              \/ mask' = Xor(mask, S)

Spec == Init /\ [][Next]_mask

-------------------------------------------------------------------------------
Members(m) == {i \in Indices : Test(m, i)}
Run(i, count) == {(i + k) % Range : k \in 0..count - 1}

\* Does a window of NumBits indices hold all of S?
Fits(S) == S = {} \/ \E i \in S : \A j \in S : (j - i) % Range < NumBits

\* A mask is framed by bits that are 1: those at start and at end, and none is left
\* outside, where it would come to life when the window grows again (Set() writes
\* one bit and trusts that the others between the old and the new end are 0).
Framed ==
  /\ mask \in [bits : SUBSET (0..NumBits - 1), start : 0..NumBits, end : 0..NumBits, offset : Indices]
  /\ IF IsSet(mask) THEN mask.end < NumBits /\ {mask.start, mask.end} \subseteq mask.bits
                       /\ \A pos \in mask.bits : Within(mask, pos)
     ELSE mask.end = NumBits /\ mask.bits = {}

\* Wherever the window lies in the ring and in the range of indices, a bit can be set
\* if the set bits then fit into a window of NumBits indices, and every call sets,
\* unsets or inverts the bits it is asked to and no other.
WindowKept ==
  LET M == Members(mask)
  IN  /\ Framed
      /\ \A i \in Indices : NearEnough(mask, i) =>
            /\ CanSet(mask, i) = Fits(M \cup {i})
            /\ Members(Set(mask, i)) = IF Fits(M \cup {i}) THEN M \cup {i} ELSE M
      /\ \A i \in Indices : Members(Unset(mask, i)) = M \ {i}
      /\ \A i \in Indices, count \in Counts :
            /\ SetBitsJudges(mask, i, count) =>
                 Members(SetBits(mask, i, count)) =
                   LET all == M \cup Run(i, count) IN IF Fits(all) THEN all ELSE M
            /\ UnsetBitsJudges(mask, i, count) =>
                 Members(UnsetBits(mask, i, count)) = M \ Run(i, count)
      /\ \A S \in Operands :
            /\ Members(Subtract(mask, S)) = M \ S
            /\ Members(Multiply(mask, S)) = M \cap S
            /\ OperandJudges(mask, S) =>
                 /\ IsSet(mask) => Members(Add(mask, S)) = IF Fits(M \cup S) THEN M \cup S ELSE M
                 /\ Members(Xor(mask, S)) =
                      IF Fits(M \cup S) THEN (M \cup S) \ (M \cap S) ELSE M

\* From an index less than half the range from all bits, GetNextSet() finds the first bit that is not before it
\* and GetPrevSet() the last one that is not behind it, across the end of the ring and
\* of the range.
SearchesRight ==
  LET M == Members(mask)
      near == {i \in Indices : \A j, k \in M : Difference(i, j) + Difference(j, k) = Difference(i, k)}
      Holds(found, S, Best(_, _)) == IF S = {} THEN found = NoIndex ELSE found \in S /\ \A j \in S : Best(found, j)
  IN  \A i \in near :
        /\ Holds(GetNextSet(mask, i), {j \in M : Difference(j, i) >= 0}, LAMBDA a, b : Difference(a, b) <= 0)
        /\ Holds(GetPrevSet(mask, i), {j \in M : Difference(j, i) <= 0}, LAMBDA a, b : Difference(a, b) >= 0)
===============================================================================
