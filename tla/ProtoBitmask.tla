----------------------------- MODULE ProtoBitmask -----------------------------
(***************************************************************************)
(* ProtoBitmask: num_bits bits, and the index of the first one that is     *)
(* set, which every operation brings up to date in a way of its own and    *)
(* which the searches start from.  A mask is the set of the indices that   *)
(* are set; another mask that is an operand is such a set and its size.    *)
(* Indices are far from 2^32.                                              *)
(***************************************************************************)
EXTENDS Integers, FiniteSetsExt

CONSTANTS NumBits,     \* num_bits
          Operands,    \* the other masks: [size, bits]
          Misjudging   \* is Multiply() called where it is not right?

BitmaskAssumption ==
  /\ NumBits \in Nat \ {0} /\ Misjudging \in BOOLEAN
  /\ \A b \in Operands : b.size \in Nat /\ b.bits \subseteq 0..b.size - 1

VARIABLES bits, first_set

vars == <<bits, first_set>>

Indices == 0..NumBits - 1

\* first_set of a mask of n bits in which those of S are set.
FirstOf(S, n) == IF S = {} THEN n ELSE Min(S)

-------------------------------------------------------------------------------
\* Searches; NoIndex stands for false.
NoIndex == -1

GetNextSet(i) ==
  LET later == {k \in bits : k >= i}
  IN  IF i >= NumBits THEN NoIndex
      ELSE IF i < first_set THEN IF first_set < NumBits THEN first_set ELSE NoIndex
      ELSE IF later = {} THEN NoIndex ELSE Min(later)

\* The bytes before that of first_set are not looked at.
GetPrevSet(i) ==
  LET from == IF i >= NumBits THEN NumBits - 1 ELSE i
      earlier == {k \in bits : k <= from /\ k \div 8 >= first_set \div 8}
  IN  IF from < first_set \/ earlier = {} THEN NoIndex ELSE Max(earlier)

\* What is left of first_set after "if (!GetNextSet(first_set)) first_set = num_bits",
\* where bits have become S and first_set has become i.
Searched(S, i) == FirstOf({k \in S : k >= i}, NumBits)

-------------------------------------------------------------------------------
Init == bits = {} /\ first_set = NumBits

Become(S, i) == bits' = S /\ first_set' = i

Clear == Become({}, NumBits)
Reset == Become(Indices, 0)

Set(i) == Become(bits \cup {i}, IF i < first_set THEN i ELSE first_set)

Unset(i) ==
  Become(bits \ {i}, IF i = first_set THEN Searched(bits \ {i}, i) ELSE first_set)

Invert(i) == IF i \in bits THEN Unset(i) ELSE Set(i)

SetBits(i, n) ==
  /\ n > 0 /\ i + n <= NumBits
  /\ Become(bits \cup (i..i + n - 1), IF i < first_set THEN i ELSE first_set)

UnsetBits(i, n) ==
  LET end == Min({i + n, NumBits})
      rest == bits \ (i..end - 1)
  IN  Become(rest, IF i <= first_set /\ first_set < end THEN Searched(rest, end) ELSE first_set)

-------------------------------------------------------------------------------
\* Operations with another mask.

Copy(b) ==
  /\ b.size <= NumBits
  /\ Become(b.bits, FirstOf(b.bits, NumBits))

Add(b) ==
  LET first == FirstOf(b.bits, b.size)
  IN  /\ b.size <= NumBits
      /\ Become(bits \cup b.bits, IF first < first_set /\ first < b.size THEN first ELSE first_set)

\* Mutant: the first bit is not looked for.
SubtractKeepsFirst(b) == Become(bits \ b.bits, first_set)
Subtract(b) ==
  LET rest == bits \ b.bits
  IN  Become(rest, IF first_set >= FirstOf(b.bits, b.size) THEN Searched(rest, first_set)
                   ELSE first_set)

XCopy(b) ==
  LET first == FirstOf(b.bits, b.size)
      only == b.bits \ bits
  IN  IF b.bits = {} THEN Clear
      ELSE /\ b.size <= NumBits
           /\ Become(only, IF first < first_set THEN first ELSE Searched(only, first))

\* "this = this & b" by |= on the bytes that b has.
Multiply(b) ==
  LET first == FirstOf(b.bits, b.size)
      bytes == (Min({b.size, NumBits}) + 7) \div 8
      sum == {k \in bits \cup b.bits : k < 8 * bytes}
  IN  Become(sum, IF first > first_set THEN Searched(sum, first)
                  ELSE IF first < first_set THEN Searched(sum, first_set) ELSE first_set)

Xor(b) ==
  LET first == FirstOf(b.bits, b.size)
      either == (bits \ b.bits) \cup (b.bits \ bits)
  IN  /\ b.bits # {} /\ b.size <= NumBits
      /\ Become(either, IF first = first_set THEN Searched(either, first_set)
                        ELSE IF first < first_set THEN first ELSE first_set)

\* Where Multiply() is right, which is where there is nothing to be done.
MultiplyJudges(b) == bits = b.bits

Next ==
  \/ Clear \/ Reset
  \/ \E i \in Indices :
        \/ Set(i) \/ Unset(i) \/ Invert(i)
        \/ \E n \in 0..NumBits + 1 : SetBits(i, n) \/ UnsetBits(i, n)
  \/ \E b \in Operands :
        \/ Copy(b) \/ Add(b) \/ Subtract(b) \/ XCopy(b) \/ Xor(b)
        \/ (Misjudging \/ MultiplyJudges(b)) /\ Multiply(b)

Spec == Init /\ [][Next]_vars

-------------------------------------------------------------------------------
\* first_set is the first bit that is set, or num_bits, whatever was done to the mask;
\* so searches from anywhere, which rely on it, find the nearest bit.
FirstSetKept ==
  /\ bits \subseteq Indices
  /\ first_set = FirstOf(bits, NumBits)
  /\ \A i \in Indices :
       /\ GetNextSet(i) = FirstOf({k \in bits : k >= i}, NoIndex)
       /\ GetPrevSet(i) = IF \A k \in bits : k > i THEN NoIndex ELSE Max({k \in bits : k <= i})
===============================================================================
