-------------------------- MODULE ProtoBitmaskProofs --------------------------
(***************************************************************************)
(* first_set is right in masks of every size, after any operations with    *)
(* other masks of any size.                                                *)
(***************************************************************************)
EXTENDS ProtoBitmask, WellFoundedInduction, TLAPS

-------------------------------------------------------------------------------
\* The least element, and FirstOf() by what it is.

LEMMA MinIsLeast ==
  ASSUME NEW S \in SUBSET Nat, S # {}
  PROVE  Min(S) \in S /\ \A y \in S : Min(S) <= y
<1> DEFINE R == {p \in Nat \X Nat : p[1] < p[2]}
<1>1. IsWellFoundedOn(R, Nat)
  BY NatLessThanWellFounded DEF OpToRel
<1> HIDE DEF R
<1>2. PICK n \in S : \A m \in S : <<m, n>> \notin R
  BY <1>1, WFMin
<1>3. ASSUME NEW m \in S, m < n PROVE <<m, n>> \in R
  <2>1. <<m, n>> \in Nat \X Nat /\ <<m, n>>[1] < <<m, n>>[2]
    BY <1>3
  <2>2. QED
    BY <2>1 DEF R
<1>4. ASSUME NEW m \in S PROVE n <= m
  <2>1. ~(m < n)
    BY <1>2, <1>3
  <2>2. QED
    BY <2>1
<1>5. QED
  BY <1>4 DEF Min

LEMMA MinOfTwo ==
  ASSUME NEW a \in Nat, NEW b \in Nat
  PROVE  Min({a, b}) = IF a <= b THEN a ELSE b
<1>1. Min({a, b}) \in {a, b} /\ Min({a, b}) <= a /\ Min({a, b}) <= b
  BY MinIsLeast
<1>2. QED
  BY <1>1

LEMMA FirstIs ==
  ASSUME NEW n \in Nat, NEW S \in SUBSET Nat
  PROVE  /\ S = {} => FirstOf(S, n) = n
         /\ S # {} => FirstOf(S, n) \in S /\ \A y \in S : FirstOf(S, n) <= y
  BY MinIsLeast DEF FirstOf

LEMMA FirstUnique ==
  ASSUME NEW n \in Nat, NEW S \in SUBSET Nat, NEW f \in S, \A y \in S : f <= y
  PROVE  f = FirstOf(S, n)
<1>1. FirstOf(S, n) \in S /\ \A y \in S : FirstOf(S, n) <= y
  BY FirstIs
<1>2. f <= FirstOf(S, n) /\ FirstOf(S, n) <= f /\ f \in Nat /\ FirstOf(S, n) \in Nat
  BY <1>1
<1>3. QED
  BY <1>2

\* The invariant, and what Become() has to be given to preserve it.

Kept(S, f) == S \subseteq Indices /\ f = FirstOf(S, NumBits)

IInv == Kept(bits, first_set)

\* A search that starts where nothing precedes finds the first bit.
LEMMA SearchedIsFirst ==
  ASSUME NumBits \in Nat, NEW S \in SUBSET Indices, NEW i \in Nat, \A y \in S : i <= y
  PROVE  Kept(S, Searched(S, i))
<1>1. {k \in S : k >= i} = S
  BY DEF Indices
<1>2. QED
  BY <1>1 DEF Kept, Searched

LEMMA LowerBound ==
  ASSUME NumBits \in Nat, IInv
  PROVE  /\ first_set \in Nat /\ first_set <= NumBits
         /\ \A y \in bits : first_set <= y
         /\ bits = {} <=> first_set = NumBits
         /\ bits # {} => first_set \in bits
<1>1. bits \in SUBSET Nat
  BY DEF IInv, Kept, Indices
<1>2. /\ bits = {} => first_set = NumBits
      /\ bits # {} => first_set \in bits /\ \A y \in bits : first_set <= y
  BY <1>1, FirstIs DEF IInv, Kept
<1>3. \A y \in bits : y \in Nat /\ y < NumBits
  BY DEF IInv, Kept, Indices
<1>4. QED
  BY <1>2, <1>3

-------------------------------------------------------------------------------
\* Single bits and runs of bits.

LEMMA Single ==
  ASSUME BitmaskAssumption, IInv, NEW i \in Indices, Set(i) \/ Unset(i) \/ Invert(i)
  PROVE  IInv'
<1> USE DEF BitmaskAssumption
<1>0. NumBits \in Nat /\ bits \in SUBSET Indices /\ i \in Nat
  BY DEF IInv, Kept, Indices
<1>1. ASSUME Set(i) PROVE IInv'
  <2>1. first_set' \in bits' /\ \A y \in bits' : first_set' <= y
    BY <1>0, <1>1, LowerBound DEF Set, Become, Indices
  <2>2. bits' \in SUBSET Nat /\ bits' \subseteq Indices
    BY <1>0, <1>1 DEF Set, Become, Indices
  <2>3. QED
    BY <1>0, <2>1, <2>2, FirstUnique DEF IInv, Kept
<1>2. ASSUME Unset(i) PROVE IInv'
  <2>1. CASE i = first_set
    <3>1. Kept(bits \ {i}, Searched(bits \ {i}, i))
      BY <1>0, <2>1, LowerBound, SearchedIsFirst
    <3>2. QED
      BY <1>2, <2>1, <3>1 DEF Unset, Become, IInv
  <2>2. CASE i # first_set
    <3>1. bits' = bits \ {i} /\ first_set' = first_set
      BY <1>2, <2>2 DEF Unset, Become
    <3>2. CASE bits' = {}
      <4>1. bits = {}
        BY <1>0, <2>2, <3>1, <3>2, LowerBound
      <4>2. QED
        BY <3>1, <4>1 DEF IInv, Kept
    <3>3. CASE bits' # {}
      <4>1. first_set' \in bits' /\ \A y \in bits' : first_set' <= y
        BY <1>0, <2>2, <3>1, <3>3, LowerBound
      <4>2. bits' \in SUBSET Nat /\ bits' \subseteq Indices
        BY <1>0, <3>1 DEF Indices
      <4>3. QED
        BY <1>0, <4>1, <4>2, FirstUnique DEF IInv, Kept
    <3>4. QED
      BY <3>2, <3>3
  <2>3. QED
    BY <2>1, <2>2
<1>3. QED
  BY <1>1, <1>2 DEF Invert

LEMMA Runs ==
  ASSUME BitmaskAssumption, IInv, NEW i \in Indices, NEW n \in 0..NumBits + 1,
         SetBits(i, n) \/ UnsetBits(i, n)
  PROVE  IInv'
<1>0. NumBits \in Nat /\ bits \in SUBSET Indices /\ i \in Nat /\ n \in Nat /\ i < NumBits
  BY DEF IInv, Kept, Indices, BitmaskAssumption
<1>1. ASSUME SetBits(i, n) PROVE IInv'
  <2>1. first_set' \in bits' /\ \A y \in bits' : first_set' <= y
    BY <1>0, <1>1, LowerBound DEF SetBits, Become, Indices
  <2>2. bits' \in SUBSET Nat /\ bits' \subseteq Indices
    BY <1>0, <1>1 DEF SetBits, Become, Indices
  <2>3. QED
    BY <1>0, <2>1, <2>2, FirstUnique DEF IInv, Kept
<1>2. ASSUME UnsetBits(i, n) PROVE IInv'
  <2> DEFINE end == Min({i + n, NumBits})
             rest == bits \ (i..end - 1)
  <2>1. end \in Nat /\ end <= NumBits /\ i <= end
    BY <1>0, MinOfTwo
  <2> HIDE DEF end
  <2>2. CASE i <= first_set /\ first_set < end
    <3>1. \A y \in rest : end <= y
      BY <1>0, <2>1, <2>2, LowerBound DEF Indices
    <3>2. Kept(rest, Searched(rest, end))
      BY <1>0, <2>1, <3>1, SearchedIsFirst
    <3>3. bits' = rest /\ first_set' = Searched(rest, end)
      BY <1>2, <2>2 DEF UnsetBits, Become, end
    <3>4. QED
      BY <3>2, <3>3 DEF IInv
  <2>3. CASE ~(i <= first_set /\ first_set < end)
    <3>1. bits' = rest /\ first_set' = first_set
      BY <1>2, <2>3 DEF UnsetBits, Become, end
    <3>2. CASE bits = {}
      BY <3>1, <3>2 DEF IInv, Kept
    <3>3. CASE bits # {}
      <4>1. first_set' \in bits' /\ \A y \in bits' : first_set' <= y
        BY <1>0, <2>1, <2>3, <3>1, <3>3, LowerBound
      <4>2. bits' \subseteq bits
        BY <3>1
      <4>3. bits' \in SUBSET Nat /\ bits' \subseteq Indices
        BY <1>0, <4>2 DEF Indices
      <4>4. QED
        BY <1>0, <4>1, <4>3, FirstUnique DEF IInv, Kept
    <3>4. QED
      BY <3>2, <3>3
  <2>4. QED
    BY <2>2, <2>3
<1>3. QED
  BY <1>1, <1>2

-------------------------------------------------------------------------------
\* Operations with another mask.

\* The bits of an operand, and the first of them.
LEMMA Operand ==
  ASSUME BitmaskAssumption, NEW b \in Operands
  PROVE  /\ b.size \in Nat /\ b.bits \in SUBSET Nat /\ b.bits \subseteq 0..b.size - 1
         /\ b.bits = {} => FirstOf(b.bits, b.size) = b.size
         /\ b.bits # {} => /\ FirstOf(b.bits, b.size) \in b.bits
                           /\ \A y \in b.bits : FirstOf(b.bits, b.size) <= y
<1>1. b.size \in Nat /\ b.bits \in SUBSET Nat /\ b.bits \subseteq 0..b.size - 1
  BY DEF BitmaskAssumption
<1>2. QED
  BY <1>1, FirstIs

\* Enough to be shown of each operation.
LEMMA FirstSuffices ==
  ASSUME NumBits \in Nat, NEW S \in SUBSET Indices, NEW f,
         \/ S = {} /\ f = NumBits
         \/ f \in S /\ \A y \in S : f <= y
  PROVE  Kept(S, f)
<1>1. S \in SUBSET Nat
  BY DEF Indices
<1>2. CASE S = {} /\ f = NumBits
  BY <1>2 DEF Kept, FirstOf
<1>3. CASE f \in S /\ \A y \in S : f <= y
  <2>1. f = FirstOf(S, NumBits)
    BY <1>1, <1>3, FirstUnique
  <2>2. QED
    BY <2>1 DEF Kept
<1>4. QED
  BY <1>2, <1>3

LEMMA OtherMask ==
  ASSUME BitmaskAssumption, IInv, NEW b \in Operands,
         Copy(b) \/ Add(b) \/ Subtract(b) \/ XCopy(b) \/ Xor(b)
  PROVE  IInv'
<1> DEFINE first == FirstOf(b.bits, b.size)
<1>0. NumBits \in Nat /\ bits \in SUBSET Indices
  BY DEF IInv, Kept, BitmaskAssumption
<1>1. /\ b.size \in Nat /\ b.bits \in SUBSET Nat /\ b.bits \subseteq 0..b.size - 1
      /\ b.bits = {} => first = b.size
      /\ b.bits # {} => first \in b.bits /\ \A y \in b.bits : first <= y
  BY Operand
<1>2. /\ first_set \in Nat /\ first_set <= NumBits
      /\ \A y \in bits : first_set <= y
      /\ bits = {} <=> first_set = NumBits
      /\ bits # {} => first_set \in bits
  BY <1>0, LowerBound
<1>3. first \in Nat
  BY <1>1
<1>4. b.size <= NumBits => b.bits \subseteq Indices
  BY <1>0, <1>1 DEF Indices
<1>5. \A y \in bits : y \in Nat /\ y < NumBits
  BY <1>0 DEF Indices
<1> HIDE DEF first
<1>6. ASSUME Copy(b) PROVE IInv'
  BY <1>4, <1>6 DEF Copy, Become, IInv, Kept
<1>7. ASSUME Add(b) PROVE IInv'
  <2>1. bits' = bits \cup b.bits /\ bits' \subseteq Indices
    BY <1>0, <1>4, <1>7 DEF Add, Become
  <2>2. first_set' = IF first < first_set /\ first < b.size THEN first ELSE first_set
    BY <1>7 DEF Add, Become, first
  <2>3. CASE b.bits = {}
    BY <1>1, <2>1, <2>2, <2>3 DEF IInv
  <2>4. CASE b.bits # {}
    <3>1. first \in b.bits /\ first < b.size /\ \A y \in b.bits : first <= y
      BY <1>1, <2>4
    <3>2. first_set' \in bits' /\ \A y \in bits' : first_set' <= y
      <4>1. CASE first < first_set
        BY <1>1, <1>2, <1>3, <1>5, <2>1, <2>2, <3>1, <4>1
      <4>2. CASE ~(first < first_set)
        <5>1. bits # {} /\ first_set' = first_set
          BY <1>2, <1>3, <2>1, <2>2, <3>1, <4>2 DEF Indices
        <5>2. QED
          BY <1>1, <1>2, <1>3, <1>5, <2>1, <3>1, <4>2, <5>1
      <4>3. QED
        BY <4>1, <4>2
    <3>3. QED
      BY <1>0, <2>1, <3>2, FirstSuffices DEF IInv
  <2>5. QED
    BY <2>3, <2>4
<1>8. ASSUME Subtract(b) PROVE IInv'
  <2> DEFINE rest == bits \ b.bits
  <2>1. bits' = rest /\ rest \in SUBSET Indices
    BY <1>0, <1>8 DEF Subtract, Become
  <2>2. first_set' = IF first_set >= first THEN Searched(rest, first_set) ELSE first_set
    BY <1>8 DEF Subtract, Become, first
  <2>3. CASE first_set >= first
    <3>1. Kept(rest, Searched(rest, first_set))
      BY <1>0, <1>2, <2>1, SearchedIsFirst
    <3>2. QED
      BY <2>1, <2>2, <2>3, <3>1 DEF IInv
  <2>4. CASE ~(first_set >= first)
    <3>1. \A y \in b.bits : first_set # y
      BY <1>1, <1>2, <1>3, <2>4
    <3>2. \/ rest = {} /\ first_set = NumBits
          \/ first_set \in rest /\ \A y \in rest : first_set <= y
      BY <1>2, <3>1
    <3>3. Kept(rest, first_set)
      BY <1>0, <2>1, <3>2, FirstSuffices
    <3>4. QED
      BY <2>1, <2>2, <2>4, <3>3 DEF IInv
  <2>5. QED
    BY <2>3, <2>4
<1>9. ASSUME XCopy(b) PROVE IInv'
  <2> DEFINE only == b.bits \ bits
  <2>1. CASE b.bits = {}
    <3>1. bits' = {} /\ first_set' = NumBits
      BY <1>9, <2>1 DEF XCopy, Clear, Become
    <3>2. QED
      BY <3>1 DEF IInv, Kept, FirstOf
  <2>2. CASE b.bits # {}
    <3>1. bits' = only /\ only \in SUBSET Indices
      BY <1>4, <1>9, <2>2 DEF XCopy, Become
    <3>2. first_set' = IF first < first_set THEN first ELSE Searched(only, first)
      BY <1>9, <2>2 DEF XCopy, Become, first
    <3>3. CASE first < first_set
      <4>1. first \notin bits
        BY <1>2, <1>3, <1>5, <3>3
      <4>2. first \in only /\ \A y \in only : first <= y
        BY <1>1, <2>2, <4>1
      <4>3. QED
        BY <1>0, <3>1, <3>2, <3>3, <4>2, FirstSuffices DEF IInv
    <3>4. CASE ~(first < first_set)
      <4>1. Kept(only, Searched(only, first))
        BY <1>0, <1>1, <1>3, <2>2, <3>1, SearchedIsFirst
      <4>2. QED
        BY <3>1, <3>2, <3>4, <4>1 DEF IInv
    <3>5. QED
      BY <3>3, <3>4
  <2>3. QED
    BY <2>1, <2>2
<1>10. ASSUME Xor(b) PROVE IInv'
  <2> DEFINE either == (bits \ b.bits) \cup (b.bits \ bits)
  <2>1. b.bits # {} /\ bits' = either /\ either \in SUBSET Indices /\ b.size <= NumBits
    BY <1>0, <1>4, <1>10 DEF Xor, Become
  <2>2. first_set' = IF first = first_set THEN Searched(either, first_set)
                     ELSE IF first < first_set THEN first ELSE first_set
    BY <1>10 DEF Xor, Become, first
  <2>3. first \in b.bits /\ first < NumBits /\ \A y \in b.bits : first <= y /\ y \in Nat
    BY <1>0, <1>1, <2>1
  <2>4. CASE first = first_set
    <3>1. Kept(either, Searched(either, first_set))
      BY <1>0, <1>2, <2>1, <2>3, <2>4, SearchedIsFirst
    <3>2. QED
      BY <2>1, <2>2, <2>4, <3>1 DEF IInv
  <2>5. CASE first < first_set
    <3>1. first \notin bits
      BY <1>2, <1>3, <1>5, <2>5
    <3>2. first \in either /\ \A y \in either : first <= y
      BY <1>2, <1>3, <1>5, <2>3, <2>5, <3>1
    <3>3. first_set' = first
      BY <1>2, <1>3, <2>2, <2>5
    <3>4. QED
      BY <1>0, <2>1, <3>2, <3>3, FirstSuffices DEF IInv
  <2>6. CASE first_set < first
    <3>1. first_set \in bits /\ first_set \notin b.bits
      BY <1>0, <1>2, <1>3, <2>3, <2>6
    <3>2. first_set \in either /\ \A y \in either : first_set <= y
      BY <1>2, <1>3, <1>5, <2>3, <2>6, <3>1
    <3>3. first_set' = first_set
      BY <1>2, <1>3, <2>2, <2>6
    <3>4. QED
      BY <1>0, <2>1, <3>2, <3>3, FirstSuffices DEF IInv
  <2>7. QED
    BY <1>2, <1>3, <2>4, <2>5, <2>6
<1>11. QED
  BY <1>6, <1>7, <1>8, <1>9, <1>10

\* Multiply() where it is right.
LEMMA Product ==
  ASSUME BitmaskAssumption, IInv, NEW b \in Operands, MultiplyJudges(b), Multiply(b)
  PROVE  IInv'
<1> DEFINE m == Min({b.size, NumBits})
           sum == {k \in bits \cup b.bits : k < 8 * ((m + 7) \div 8)}
<1>0. NumBits \in Nat /\ bits \in SUBSET Indices /\ bits = b.bits
  BY DEF IInv, Kept, BitmaskAssumption, MultiplyJudges
<1>1. b.size \in Nat /\ b.bits \subseteq 0..b.size - 1 /\ b.bits \in SUBSET Nat
  BY Operand
<1>2. m \in Nat /\ m <= 8 * ((m + 7) \div 8) /\ (m = b.size \/ m = NumBits)
  <2>1. m = IF b.size <= NumBits THEN b.size ELSE NumBits
    BY <1>0, <1>1, MinOfTwo
  <2>2. \A k \in Nat : k <= 8 * ((k + 7) \div 8)
    OBVIOUS
  <2>3. QED
    BY <1>0, <1>1, <2>1, <2>2
<1> HIDE DEF m
<1>3. sum = bits
  <2>1. \A k \in bits : k \in Nat /\ k < m
    BY <1>0, <1>1, <1>2 DEF Indices
  <2>2. \A k \in bits : k < 8 * ((m + 7) \div 8)
    BY <1>2, <2>1
  <2>3. QED
    BY <1>0, <2>2
<1>4. bits' = bits
  BY <1>3 DEF Multiply, Become, m
<1>5. first_set' = IF FirstOf(b.bits, b.size) > first_set
                   THEN Searched(bits, FirstOf(b.bits, b.size))
                   ELSE IF FirstOf(b.bits, b.size) < first_set THEN Searched(bits, first_set)
                   ELSE first_set
  BY <1>3 DEF Multiply, Become, m
<1>6. Kept(bits, first_set')
  <2>1. CASE bits = {}
    <3>1. Searched(bits, FirstOf(b.bits, b.size)) = NumBits /\ Searched(bits, first_set) = NumBits
      BY <2>1 DEF Searched, FirstOf
    <3>2. first_set = NumBits
      BY <1>0, <2>1, LowerBound
    <3>3. QED
      BY <1>5, <2>1, <3>1, <3>2 DEF Kept, FirstOf
  <2>2. CASE bits # {}
    <3>1. FirstOf(b.bits, b.size) = first_set
      BY <1>0, <2>2 DEF IInv, Kept, FirstOf
    <3>2. first_set' = first_set
      <4>1. first_set \in Nat
        BY <1>0, LowerBound
      <4>2. QED
        BY <1>5, <3>1, <4>1
    <3>3. QED
      BY <3>2 DEF IInv
  <2>3. QED
    BY <2>1, <2>2
<1>7. Kept(bits', first_set')
  BY <1>4, <1>6
<1>8. QED
  BY <1>7 DEF IInv

-------------------------------------------------------------------------------
\* Searches, from what the invariant says.

LEMMA SearchesFollow ==
  ASSUME BitmaskAssumption, IInv
  PROVE  FirstSetKept
<1>0. NumBits \in Nat /\ bits \subseteq Indices /\ first_set = FirstOf(bits, NumBits)
  BY DEF IInv, Kept, BitmaskAssumption
<1>1. /\ first_set \in Nat /\ first_set <= NumBits
      /\ \A y \in bits : first_set <= y
      /\ bits = {} <=> first_set = NumBits
      /\ bits # {} => first_set \in bits
  BY <1>0, LowerBound
<1>2. \A y \in bits : y \in Nat /\ y < NumBits
  BY <1>0 DEF Indices
<1>3. ASSUME NEW i \in Indices
      PROVE  GetNextSet(i) = FirstOf({k \in bits : k >= i}, NoIndex)
  <2>1. i \in Nat /\ i < NumBits
    BY <1>0 DEF Indices
  <2>2. CASE i < first_set
    <3>1. {k \in bits : k >= i} = bits
      BY <1>1, <1>2, <2>1, <2>2
    <3>2. CASE bits = {}
      BY <1>1, <2>1, <2>2, <3>1, <3>2 DEF GetNextSet, FirstOf
    <3>3. CASE bits # {}
      <4>1. first_set < NumBits
        BY <1>1, <1>2, <3>3
      <4>2. GetNextSet(i) = first_set
        BY <1>0, <2>1, <2>2, <4>1 DEF GetNextSet
      <4>3. QED
        BY <1>0, <3>1, <3>3, <4>2 DEF FirstOf
    <3>4. QED
      BY <3>2, <3>3
  <2>3. CASE ~(i < first_set)
    BY <1>0, <2>1, <2>3 DEF GetNextSet, FirstOf
  <2>4. QED
    BY <2>2, <2>3
<1>4. ASSUME NEW i \in Indices
      PROVE  GetPrevSet(i) = IF \A k \in bits : k > i THEN NoIndex ELSE Max({k \in bits : k <= i})
  <2> DEFINE earlier == {k \in bits : k <= i /\ k \div 8 >= first_set \div 8}
  <2>1. i \in Nat /\ ~(i >= NumBits)
    BY <1>0 DEF Indices
  <2>2. \A k \in bits : k \div 8 >= first_set \div 8
    <3>1. \A a, c \in Nat : a <= c => c \div 8 >= a \div 8
      OBVIOUS
    <3>2. QED
      BY <1>1, <1>2, <3>1
  <2>3. earlier = {k \in bits : k <= i}
    BY <2>2
  <2>4. GetPrevSet(i) = IF i < first_set \/ earlier = {} THEN NoIndex ELSE Max(earlier)
    BY <2>1 DEF GetPrevSet
  <2>5. (i < first_set \/ earlier = {}) <=> \A k \in bits : k > i
    BY <1>1, <1>2, <2>1, <2>3
  <2>6. QED
    BY <2>3, <2>4, <2>5
<1>5. QED
  BY <1>0, <1>3, <1>4 DEF FirstSetKept

-------------------------------------------------------------------------------
\* first_set is kept right, and searches find the nearest bit, in a mask of any size
\* after any operations with others of any size, but for the fault of Multiply().
THEOREM FirstSetKeptAlways ==
  ASSUME BitmaskAssumption, ~Misjudging
  PROVE  Spec => []FirstSetKept
<1>1. Init => IInv
  BY DEF Init, IInv, Kept, FirstOf
<1>2. IInv /\ [Next]_vars => IInv'
  <2> SUFFICES ASSUME IInv, [Next]_vars PROVE IInv'
    OBVIOUS
  <2>1. NumBits \in Nat \ {0}
    BY DEF BitmaskAssumption
  <2>2. CASE Clear
    BY <2>2 DEF Clear, Become, IInv, Kept, FirstOf
  <2>3. CASE Reset
    <3>1. 0 \in Indices /\ \A y \in Indices : 0 <= y
      BY <2>1 DEF Indices
    <3>2. QED
      BY <2>1, <2>3, <3>1, FirstSuffices DEF Reset, Become, IInv
  <2>4. ASSUME NEW i \in Indices,
               \/ Set(i) \/ Unset(i) \/ Invert(i)
               \/ \E n \in 0..NumBits + 1 : SetBits(i, n) \/ UnsetBits(i, n)
        PROVE  IInv'
    BY <2>4, Single, Runs
  <2>5. ASSUME NEW b \in Operands,
               \/ Copy(b) \/ Add(b) \/ Subtract(b) \/ XCopy(b) \/ Xor(b)
               \/ (Misjudging \/ MultiplyJudges(b)) /\ Multiply(b)
        PROVE  IInv'
    BY <2>5, OtherMask, Product
  <2>6. CASE UNCHANGED vars
    BY <2>6 DEF vars, IInv, Kept, Indices
  <2>7. QED
    BY <2>2, <2>3, <2>4, <2>5, <2>6 DEF Next
<1>3. IInv => FirstSetKept
  BY SearchesFollow
<1>4. QED
  BY <1>1, <1>2, <1>3, PTL DEF Spec
===============================================================================
