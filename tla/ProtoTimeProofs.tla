---------------------------- MODULE ProtoTimeProofs ----------------------------
(***************************************************************************)
(* Proofs about ProtoTime, for a second of any number of microseconds, any *)
(* doubles added and any whole seconds subtracted, without bound.          *)
(***************************************************************************)
EXTENDS ProtoTime, TLAPS

Times == [sec : Nat, usec : 0..Micros - 1]
WholeSecondsBack == \A d \in Back : d.tenths = 0

\* A double added is rounded to the nearest microsecond, possibly to a whole
\* second.
LEMMA RoundedNearest ==
  ASSUME NEW d \in Doubles
  PROVE  /\ Rounded(d) \in 0..Micros
         /\ 10 * Rounded(d) - d.tenths \in -4..5
         /\ d.tenths = 0 => Rounded(d) = 0
  BY TimeAssumption DEF Rounded, Doubles

\* The constructor cuts off less than a microsecond.
LEMMA CutBelow ==
  ASSUME NEW d \in Doubles
  PROVE  Cut(d) \in 0..Micros - 1 /\ 10 * Cut(d) - d.tenths \in -9..0
  BY TimeAssumption DEF Cut, Doubles

\* One carry is enough for the sum of two normalised fractions of a second, and
\* keeps the sum.
LEMMA CarryNormalises ==
  ASSUME NEW s \in Nat, NEW u \in 0..(2 * Micros - 1)
  PROVE  /\ Carry(s, u) \in Times
         /\ Carry(s, u).sec * Micros + Carry(s, u).usec = s * Micros + u
  BY TimeAssumption DEF Carry, Times

\* operator+=(double): the sum is normalised and no more than half a microsecond
\* off.
LEMMA SumNearest ==
  ASSUME NEW t \in Times, NEW d \in Doubles
  PROVE  /\ Sum(t, d) \in Times
         /\ InTenths(Sum(t, d)) - InTenths(t) - Tenths(d) \in -4..5
<1> DEFINE s == t.sec + d.whole
           u == t.usec + Rounded(d)
<1>1. s \in Nat /\ u \in 0..(2 * Micros - 1)
  BY RoundedNearest, TimeAssumption DEF Times, Doubles
<1>2. /\ Carry(s, u) \in Times
      /\ Carry(s, u).sec * Micros + Carry(s, u).usec = s * Micros + u
  BY <1>1, CarryNormalises
<1>3. s * Micros = t.sec * Micros + d.whole * Micros
  BY TimeAssumption DEF Times, Doubles
<1>4. d.whole * (10 * Micros) = 10 * (d.whole * Micros)
  BY TimeAssumption DEF Doubles
<1>5. t.sec * Micros \in Int /\ d.whole * Micros \in Int /\ s * Micros \in Int
  BY <1>1, TimeAssumption DEF Times, Doubles
<1> DEFINE a == t.sec * Micros
           b == d.whole * Micros
<1>6. InTenths(Sum(t, d)) = 10 * (a + b + u)
  BY <1>2, <1>3, <1>5 DEF InTenths, Sum
<1>7. InTenths(t) = 10 * (a + t.usec) /\ Tenths(d) = 10 * b + d.tenths
  BY <1>4 DEF InTenths, Tenths
<1>8. a \in Int /\ b \in Int /\ t.usec \in Int /\ d.tenths \in Int
  BY <1>5 DEF Times, Doubles
<1>9. Rounded(d) \in Int /\ 10 * Rounded(d) - d.tenths \in -4..5
  BY RoundedNearest
<1> HIDE DEF a, b
<1>10. InTenths(Sum(t, d)) - InTenths(t) - Tenths(d) = 10 * Rounded(d) - d.tenths
  BY <1>6, <1>7, <1>8, <1>9
<1> QED
  BY <1>2, <1>9, <1>10 DEF Sum

\* operator+=(const ProtoTime&): the sum of two times is normalised and exact.
LEMMA SumOfTimesExact ==
  ASSUME NEW t \in Times, NEW u \in Times
  PROVE  /\ SumOfTimes(t, u) \in Times
         /\ InTenths(SumOfTimes(t, u)) = InTenths(t) + InTenths(u)
<1> DEFINE s == t.sec + u.sec
           n == t.usec + u.usec
<1>1. s \in Nat /\ n \in 0..(2 * Micros - 1)
  BY TimeAssumption DEF Times
<1>2. /\ Carry(s, n) \in Times
      /\ Carry(s, n).sec * Micros + Carry(s, n).usec = s * Micros + n
  BY <1>1, CarryNormalises
<1>3. /\ s * Micros = t.sec * Micros + u.sec * Micros
      /\ t.sec * Micros \in Int /\ u.sec * Micros \in Int
  BY TimeAssumption DEF Times
<1> QED
  BY <1>2, <1>3 DEF SumOfTimes, InTenths, Times

\* operator-=() of whole seconds is exact, and 0 where less than that is there.
LEMMA DifferenceExact ==
  ASSUME NEW t \in Times, NEW d \in Doubles, d.tenths = 0
  PROVE  /\ Difference(t, d) \in Times
         /\ t.sec < d.whole => Difference(t, d) = Zero
         /\ t.sec >= d.whole => InTenths(Difference(t, d)) = InTenths(t) - Tenths(d)
<1>1. Rounded(d) = 0
  BY RoundedNearest
<1>2. CASE t.sec < d.whole
  BY <1>1, <1>2, TimeAssumption DEF Difference, Zero, Times, Doubles
<1>3. CASE t.sec >= d.whole
  <2>1. /\ t.sec - d.whole \in Nat /\ t.sec \in Nat /\ d.whole \in Nat
        /\ t.usec \in Nat /\ t.usec < Micros
    BY <1>3, TimeAssumption DEF Times, Doubles
  <2>2. Difference(t, d) = [sec |-> t.sec - d.whole, usec |-> t.usec]
    BY <1>1, <2>1 DEF Difference
  <2>3. /\ (t.sec - d.whole) * Micros = t.sec * Micros - d.whole * Micros
        /\ d.whole * (10 * Micros) = 10 * (d.whole * Micros)
        /\ t.sec * Micros \in Int /\ d.whole * Micros \in Int
    BY <2>1, TimeAssumption
  <2>4. InTenths(Difference(t, d)) = InTenths(t) - Tenths(d)
    BY <2>1, <2>2, <2>3 DEF InTenths, Tenths
  <2> QED
    BY <1>3, <2>1, <2>2, <2>4, TimeAssumption DEF Times
<1> QED
  BY <1>2, <1>3 DEF Times, Doubles

-----------------------------------------------------------------------------
\* The inductive invariant: the times are normalised, and nowhere further from
\* the exact sums than what every addition may add to that.
IInv == TypeOK /\ DriftBounded

LEMMA TypeParts ==
  TypeOK <=> /\ time \in Times /\ mark \in Times
             /\ ideal \in [value : Nat, slack : Nat] /\ idealMark \in [value : Nat, slack : Nat]
  BY DEF TypeOK, Times

\* Time in tenths of a microsecond is a natural number.
LEMMA InTenthsNat == ASSUME NEW t \in Times PROVE InTenths(t) \in Nat
  BY TimeAssumption DEF InTenths, Times

LEMMA TenthsNat == ASSUME NEW d \in Doubles PROVE Tenths(d) \in Nat
  BY TimeAssumption DEF Tenths, Doubles

\* Every operation preserves the inductive invariant, if only whole seconds are
\* subtracted.
LEMMA StepIInv ==
  ASSUME WholeSecondsBack, IInv, [Next]_vars
  PROVE  IInv'
<1>1. /\ time \in Times /\ mark \in Times
      /\ ideal.value \in Nat /\ ideal.slack \in Nat
      /\ idealMark.value \in Nat /\ idealMark.slack \in Nat
      /\ ideal \in [value : Nat, slack : Nat] /\ idealMark \in [value : Nat, slack : Nat]
      /\ Drift(time, ideal) /\ Drift(mark, idealMark)
  BY TypeParts DEF IInv, DriftBounded
<1>2. InTenths(time) \in Nat /\ InTenths(mark) \in Nat
  BY <1>1, InTenthsNat
<1>3. ASSUME NEW t \in Times, NEW i \in [value : Nat, slack : Nat], Drift(t, i),
             time' = t, ideal' = i, UNCHANGED <<mark, idealMark>>
      PROVE  IInv'
  BY <1>1, <1>3 DEF IInv, DriftBounded, Drift, InTenths, TypeOK, Times
<1>4. ASSUME NEW d \in Fore, Set(d)
      PROVE  IInv'
  <2>1. d \in Doubles /\ Cut(d) \in 0..Micros - 1 /\ 10 * Cut(d) - d.tenths \in -9..0
    BY CutBelow, TimeAssumption
  <2>2. FromDouble(d) \in Times /\ Tenths(d) \in Nat
    BY <2>1, TenthsNat DEF FromDouble, Times, Doubles
  <2>3. /\ d.whole * (10 * Micros) = 10 * (d.whole * Micros)
        /\ d.whole * Micros \in Int /\ d.tenths \in Int
    BY <2>1, TimeAssumption DEF Doubles
  <2>4. InTenths(FromDouble(d)) - Tenths(d) = 10 * Cut(d) - d.tenths
    BY <2>1, <2>3 DEF InTenths, FromDouble, Tenths
  <2>5. Drift(FromDouble(d), [value |-> Tenths(d), slack |-> 9])
    BY <2>1, <2>4 DEF Drift
  <2> QED
    BY <1>3, <1>4, <2>2, <2>5 DEF Set
<1>5. ASSUME NEW d \in Fore, Add(d)
      PROVE  IInv'
  <2>1. d \in Doubles
    BY TimeAssumption
  <2>2. /\ Sum(time, d) \in Times
        /\ InTenths(Sum(time, d)) - InTenths(time) - Tenths(d) \in -4..5
        /\ Tenths(d) \in Nat /\ InTenths(Sum(time, d)) \in Nat
    BY <1>1, <2>1, SumNearest, TenthsNat, InTenthsNat
  <2>3. Drift(Sum(time, d),
              [value |-> ideal.value + Tenths(d), slack |-> ideal.slack + 5])
    BY <1>1, <1>2, <2>2 DEF Drift
  <2> QED
    BY <1>1, <1>3, <1>5, <2>2, <2>3 DEF Add
<1>6. ASSUME AddTime
      PROVE  IInv'
  <2>1. /\ SumOfTimes(time, mark) \in Times
        /\ InTenths(SumOfTimes(time, mark)) = InTenths(time) + InTenths(mark)
    BY <1>1, SumOfTimesExact
  <2>2. Drift(SumOfTimes(time, mark),
              [value |-> ideal.value + idealMark.value,
               slack |-> ideal.slack + idealMark.slack])
    BY <1>1, <1>2, <2>1 DEF Drift
  <2> QED
    BY <1>1, <1>3, <1>6, <2>1, <2>2 DEF AddTime
<1>7. ASSUME NEW d \in Back, Subtract(d)
      PROVE  IInv'
  <2>1. d \in Doubles /\ d.tenths = 0 /\ Tenths(d) \in Nat
    BY TimeAssumption, TenthsNat DEF WholeSecondsBack
  <2>2. /\ Difference(time, d) \in Times
        /\ time.sec < d.whole => Difference(time, d) = Zero
        /\ time.sec >= d.whole => InTenths(Difference(time, d)) = InTenths(time) - Tenths(d)
        /\ InTenths(Difference(time, d)) \in Nat
    BY <1>1, <2>1, DifferenceExact, InTenthsNat
  <2>3. InTenths(Zero) = 0
    BY TimeAssumption DEF InTenths, Zero
  <2>4. time.sec < d.whole => InTenths(time) < Tenths(d)
    <3>1. ASSUME time.sec < d.whole
          PROVE  (time.sec + 1) * Micros <= d.whole * Micros
      BY <1>1, <2>1, <3>1, TimeAssumption DEF Times, Doubles
    <3>2. /\ (time.sec + 1) * Micros = time.sec * Micros + Micros
          /\ d.whole * (10 * Micros) = 10 * (d.whole * Micros)
          /\ time.sec * Micros \in Int /\ d.whole * Micros \in Int
          /\ time.usec < Micros /\ time.usec \in Int /\ Micros \in Int
      BY <1>1, <2>1, TimeAssumption DEF Times, Doubles
    <3> QED
      BY <2>1, <3>1, <3>2 DEF InTenths, Tenths
  <2> DEFINE v == IF ideal.value < Tenths(d) THEN 0 ELSE ideal.value - Tenths(d)
  <2>5. Drift(Difference(time, d), [value |-> v, slack |-> ideal.slack + 5])
    <3>1. CASE time.sec < d.whole
      BY <1>1, <1>2, <2>1, <2>2, <2>3, <2>4, <3>1 DEF Drift
    <3>2. CASE time.sec >= d.whole
      BY <1>1, <1>2, <2>1, <2>2, <3>2 DEF Drift
    <3> QED
      BY <1>1, <2>1, <3>1, <3>2 DEF Times, Doubles
  <2>6. v \in Nat
    BY <1>1, <2>1
  <2> QED
    BY <1>1, <1>3, <1>7, <2>2, <2>5, <2>6 DEF Subtract
<1>8. ASSUME Copy
      PROVE  IInv'
  BY <1>1, <1>8 DEF Copy, IInv, DriftBounded, Drift, InTenths, TypeOK, Times
<1>9. ASSUME UNCHANGED vars
      PROVE  IInv'
  BY <1>1, <1>9 DEF vars, IInv, DriftBounded, Drift, InTenths, TypeOK, Times
<1> QED
  BY <1>4, <1>5, <1>6, <1>7, <1>8, <1>9 DEF Next

\* A new ProtoTime is 0.
LEMMA InitIInv == Init => IInv
  BY TimeAssumption DEF Init, IInv, TypeOK, DriftBounded, Drift, InTenths, Zero

\* The invariant holds in every reachable state.
LEMMA Invariant == ASSUME WholeSecondsBack PROVE Spec => []IInv
<1>1. IInv /\ [Next]_vars => IInv'
  BY StepIInv
<1> QED
  BY <1>1, InitIInv, PTL DEF Spec

\* TypeOK: a ProtoTime stays normalised, and no key is taken for an invalid one,
\* whatever is added and if whole seconds are subtracted.
THEOREM TypeCorrect == ASSUME WholeSecondsBack PROVE Spec => []TypeOK
<1>1. IInv => TypeOK
  BY DEF IInv
<1> QED
  BY <1>1, Invariant, PTL

\* DriftBounded: half a microsecond for every double added or subtracted.
THEOREM DriftBoundedAlways == ASSUME WholeSecondsBack PROVE Spec => []DriftBounded
<1>1. IInv => DriftBounded
  BY DEF IInv
<1> QED
  BY <1>1, Invariant, PTL

\* The order of two normalised times is that of their sums of microseconds.
LEMMA DeltaSign ==
  ASSUME NEW t \in Times, NEW u \in Times
  PROVE  /\ Delta(t, u) > 0 <=> Before(u, t)
         /\ Delta(t, u) = 0 <=> t = u
<1>1. /\ t.sec \in Nat /\ u.sec \in Nat /\ t.usec \in Nat /\ u.usec \in Nat
      /\ t.usec < Micros /\ u.usec < Micros /\ Micros \in Nat \ {0}
  BY TimeAssumption DEF Times
<1>2. t = u <=> t.sec = u.sec /\ t.usec = u.usec
  BY DEF Times
<1>3. CASE t.sec = u.sec
  <2>1. (t.sec - u.sec) * Micros = 0 /\ t.sec >= u.sec
    BY <1>1, <1>3
  <2>2. Delta(t, u) = t.usec - u.usec
    BY <1>1, <2>1 DEF Delta
  <2> QED
    BY <1>1, <1>2, <1>3, <2>2 DEF Before
<1>4. CASE t.sec > u.sec
  <2>1. (t.sec - u.sec) * Micros >= Micros /\ (t.sec - u.sec) * Micros \in Int
    BY <1>1, <1>4
  <2> QED
    BY <1>1, <1>2, <1>4, <2>1 DEF Delta, Before
<1>5. CASE t.sec < u.sec
  <2>1. (u.sec - t.sec) * Micros >= Micros /\ (u.sec - t.sec) * Micros \in Int
    BY <1>1, <1>5
  <2> QED
    BY <1>1, <1>2, <1>5, <2>1 DEF Delta, Before
<1> QED
  BY <1>1, <1>3, <1>4, <1>5

\* OrderAgrees: operator<() and the keys tell what the sign of Delta() does.
THEOREM OrderAgreesAlways == ASSUME WholeSecondsBack PROVE Spec => []OrderAgrees
<1>1. IInv => OrderAgrees
  BY TypeParts, DeltaSign DEF IInv, OrderAgrees
<1> QED
  BY <1>1, Invariant, PTL

\* SubtractIsDelta: Delta() of a time and the same time less whole seconds is those
\* seconds, if there are as many.
THEOREM SubtractIsDeltaAlways == ASSUME WholeSecondsBack PROVE Spec => []SubtractIsDelta
<1>1. ASSUME TypeOK PROVE SubtractIsDelta
  <2> SUFFICES ASSUME NEW d \in Back, InTenths(time) >= Tenths(d) + 10
               PROVE  10 * Delta(time, Difference(time, d)) - Tenths(d) = 0
    BY DEF SubtractIsDelta
  <2>1. /\ time \in Times /\ d \in Doubles /\ d.tenths = 0
        /\ time.sec \in Nat /\ time.usec \in 0..Micros - 1 /\ d.whole \in Nat
    BY <1>1, TypeParts, TimeAssumption DEF WholeSecondsBack, Times, Doubles
  <2> DEFINE s == time.sec
             w == d.whole
  <2>2. d.whole * (10 * Micros) = 10 * (w * Micros) /\ s * Micros \in Int /\ w * Micros \in Int
    BY <2>1, TimeAssumption
  <2>3. Tenths(d) = 10 * (w * Micros)
    BY <2>1, <2>2 DEF Tenths
  <2>4. s >= w
    <3>1. 10 * (s * Micros + time.usec) >= 10 * (w * Micros) + 10
      BY <2>3 DEF InTenths
    <3>2. s * Micros + Micros > w * Micros
      BY <2>1, <2>2, <3>1, TimeAssumption
    <3>3. ASSUME s < w PROVE FALSE
      <4>1. (s + 1) * Micros <= w * Micros /\ (s + 1) * Micros = s * Micros + Micros
        <5>1. PICK k \in Nat : w = s + 1 + k
          <6>1. w - (s + 1) \in Nat /\ w = s + 1 + (w - (s + 1))
            BY <2>1, <3>3
          <6> QED  BY <6>1
        <5>2. w * Micros = (s + 1) * Micros + k * Micros /\ k * Micros \in Nat
          BY <2>1, <5>1, TimeAssumption
        <5>3. (s + 1) * Micros = s * Micros + Micros /\ (s + 1) * Micros \in Int
          BY <2>1, TimeAssumption
        <5> QED  BY <2>2, <5>2, <5>3
      <4> QED
        BY <2>2, <3>2, <4>1, TimeAssumption
    <3> QED  BY <2>1, <3>3
  <2>5. Difference(time, d) = [sec |-> s - w, usec |-> time.usec]
    BY <2>1, <2>4, RoundedNearest, TimeAssumption DEF Difference
  <2>6. Delta(time, Difference(time, d)) = (s - (s - w)) * Micros
    BY <2>1, <2>2, <2>4, <2>5, TimeAssumption DEF Delta
  <2>7. s - (s - w) = w
    BY <2>1
  <2> QED
    BY <2>2, <2>3, <2>6, <2>7
<1>2. IInv => SubtractIsDelta
  BY <1>1 DEF IInv
<1> QED
  BY <1>2, Invariant, PTL
================================================================================
