---------------------------- MODULE ProtoLFSRProofs ----------------------------
(***************************************************************************)
(* A register goes back and forth through one and the same sequence,       *)
(* whatever its size, polynomial and state.                                *)
(***************************************************************************)
EXTENDS ProtoLFSR, TLAPS

\* A mirrored set of bits has i if and only if the original has its mirror image.
LEMMA Reflected ==
  ASSUME NEW n \in Nat, NEW s \in SUBSET Positions(n), NEW i \in Int
  PROVE  i \in MirrorBits(s, n) <=> n - 1 - i \in s
<1>1. ASSUME i \in MirrorBits(s, n)
      PROVE  n - 1 - i \in s
  <2>1. PICK j \in s : j < n /\ i = n - 1 - j
    BY <1>1 DEF MirrorBits
  <2>2. j \in Int
    BY DEF Positions
  <2>3. n - 1 - i = j
    BY <2>1, <2>2
  <2>4. QED
    BY <2>3
<1>2. ASSUME n - 1 - i \in s
      PROVE  i \in MirrorBits(s, n)
  <2>1. n - 1 - i < n /\ i = n - 1 - (n - 1 - i)
    BY <1>2 DEF Positions
  <2>2. QED
    BY <1>2, <2>1 DEF MirrorBits
<1>3. QED
  BY <1>1, <1>2

\* Mirroring keeps within the register.
LEMMA MirroredWithin ==
  ASSUME NEW n \in Nat, NEW s \in SUBSET Positions(n)
  PROVE  MirrorBits(s, n) \subseteq Positions(n)
BY DEF MirrorBits, Positions

\* The mirrored polynomial: the highest bit is set, the others are those of the original.
LEMMA PolyReflected ==
  ASSUME NEW n \in Nat \ {0, 1}, NEW p, IsPolynomial(p, n), NEW i \in Nat
  PROVE  /\ IsPolynomial(MirrorPoly(p, n), n)
         /\ i \in MirrorPoly(p, n) <=> i = n - 1 \/ (i < n - 1 /\ n - 2 - i \in p)
<1> DEFINE low == {j \in p : j < n - 1}
<1>1. low \in SUBSET Positions(n - 1) /\ n - 1 \in Nat
  <2>1. \A j \in p : j \in Int /\ j >= 0
    BY DEF IsPolynomial, Positions
  <2>2. \A j \in low : j \in Int /\ j >= 0 /\ j < n - 1
    BY <2>1
  <2>3. \A j : j \in Int /\ j >= 0 /\ j < n - 1 => j \in Positions(n - 1)
    BY DEF Positions
  <2>4. QED
    BY <2>2, <2>3
<1>2. MirrorBits(p, n - 1) = MirrorBits(low, n - 1)
  BY DEF MirrorBits
<1>3. i \in MirrorBits(p, n - 1) <=> n - 1 - 1 - i \in low
  BY <1>1, <1>2, Reflected
<1>4. MirrorBits(p, n - 1) \subseteq Positions(n - 1)
  BY <1>1, <1>2, MirroredWithin
<1>5. n - 1 - 1 - i \in low <=> i < n - 1 /\ n - 2 - i \in p
  <2>1. n - 1 - 1 - i = n - 2 - i
    OBVIOUS
  <2>2. n - 2 - i \in low <=> n - 2 - i \in p /\ n - 2 - i < n - 1
    OBVIOUS
  <2>3. n - 2 - i \in p => n - 2 - i >= 0
    BY DEF IsPolynomial, Positions
  <2>4. n - 2 - i < n - 1 <=> i > -1
    OBVIOUS
  <2>5. n - 2 - i >= 0 <=> i < n - 1
    OBVIOUS
  <2>6. QED
    BY <2>1, <2>2, <2>3, <2>4, <2>5
<1>6. QED
  BY <1>3, <1>4, <1>5 DEF MirrorPoly, IsPolynomial, Positions

\* What is in a state that has been shifted.
LEMMA ShiftedBits ==
  ASSUME NEW n \in Nat \ {0, 1}, NEW p, IsPolynomial(p, n),
         NEW s \in SUBSET Positions(n), NEW i \in Positions(n)
  PROVE  /\ Shifted(p, s) \subseteq Positions(n)
         /\ i \in Shifted(p, s) <=> ((i + 1 \in s) # (0 \in s /\ i \in p))
<1> DEFINE down == {j - 1 : j \in s \ {0}}
<1>1. down \subseteq Positions(n)
  BY DEF Positions
<1>2. i \in down <=> i + 1 \in s
  <2>1. ASSUME i \in down PROVE i + 1 \in s
    <3>1. PICK j \in s \ {0} : i = j - 1
      BY <2>1
    <3>2. i + 1 = j
      BY <3>1 DEF Positions
    <3>3. QED
      BY <3>1, <3>2
  <2>2. ASSUME i + 1 \in s PROVE i \in down
    <3>1. i + 1 # 0 /\ i = (i + 1) - 1
      BY DEF Positions
    <3>2. QED
      BY <2>2, <3>1
  <2>3. QED
    BY <2>1, <2>2
<1>3. QED
  BY <1>1, <1>2 DEF Shifted, Flip, IsPolynomial

\* Mirroring twice changes nothing.
LEMMA TwiceReflected ==
  ASSUME NEW n \in Nat \ {0, 1}, NEW p, IsPolynomial(p, n), NEW s \in SUBSET Positions(n)
  PROVE  MirrorPoly(MirrorPoly(p, n), n) = p /\ MirrorBits(MirrorBits(s, n), n) = s
<1>1. \A i \in Positions(n) : i \in Nat /\ i <= n - 1 /\ n - 2 - i \in Int /\ n - 1 - i \in Int
  BY DEF Positions
<1>2. ASSUME NEW i \in Positions(n)
      PROVE  i \in MirrorPoly(MirrorPoly(p, n), n) <=> i \in p
  <2> DEFINE q == MirrorPoly(p, n)
  <2>1. IsPolynomial(q, n)
    BY PolyReflected, 0 \in Nat
  <2>2. i \in MirrorPoly(q, n) <=> i = n - 1 \/ (i < n - 1 /\ n - 2 - i \in q)
    BY <1>1, <2>1, PolyReflected
  <2>3. CASE i = n - 1
    BY <2>2, <2>3 DEF IsPolynomial
  <2>4. CASE i < n - 1
    <3>1. n - 2 - i \in Nat /\ n - 2 - i # n - 1 /\ n - 2 - i < n - 1 /\ n - 2 - (n - 2 - i) = i
      BY <1>1, <2>4
    <3>2. n - 2 - i \in q <=> i \in p
      BY <3>1, PolyReflected
    <3>3. QED
      BY <2>2, <2>4, <3>2, <1>1
  <2>5. QED
    BY <1>1, <2>3, <2>4
<1>3. ASSUME NEW i \in Positions(n)
      PROVE  i \in MirrorBits(MirrorBits(s, n), n) <=> i \in s
  <2>1. MirrorBits(s, n) \in SUBSET Positions(n)
    BY MirroredWithin
  <2>2. i \in MirrorBits(MirrorBits(s, n), n) <=> n - 1 - i \in MirrorBits(s, n)
    BY <1>1, <2>1, Reflected
  <2>3. n - 1 - i \in MirrorBits(s, n) <=> n - 1 - (n - 1 - i) \in s
    BY <1>1, Reflected
  <2>4. n - 1 - (n - 1 - i) = i
    BY <1>1
  <2>5. QED
    BY <2>2, <2>3, <2>4
<1>4. MirrorPoly(MirrorPoly(p, n), n) \subseteq Positions(n)
  <2>1. IsPolynomial(MirrorPoly(p, n), n)
    BY PolyReflected, 0 \in Nat
  <2>2. IsPolynomial(MirrorPoly(MirrorPoly(p, n), n), n)
    BY <2>1, PolyReflected, 0 \in Nat
  <2>3. QED
    BY <2>2 DEF IsPolynomial
<1>5. MirrorBits(MirrorBits(s, n), n) \subseteq Positions(n)
  BY MirroredWithin
<1>6. QED
  BY <1>2, <1>3, <1>4, <1>5 DEF IsPolynomial

-------------------------------------------------------------------------------
\* A shift of the mirrored register takes a shift of the register back, whatever the
\* polynomial: this is what GetPrevBit() relies on.
THEOREM MirroredShiftsBack ==
  ASSUME NEW n \in Nat \ {0, 1}, NEW p, IsPolynomial(p, n), NEW s \in SUBSET Positions(n)
  PROVE  Shifted(MirrorPoly(p, n), MirrorBits(Shifted(p, s), n)) = MirrorBits(s, n)
<1> DEFINE t == Shifted(p, s)
           m == MirrorBits(t, n)
           q == MirrorPoly(p, n)
<1>1. t \in SUBSET Positions(n) /\ 0 \in Positions(n) /\ n - 1 \in Positions(n)
  BY ShiftedBits DEF Positions
<1>2. m \in SUBSET Positions(n) /\ IsPolynomial(q, n) /\ MirrorBits(s, n) \subseteq Positions(n)
  BY <1>1, MirroredWithin, PolyReflected, 0 \in Nat
<1>3. 0 \in m <=> 0 \in s
  <2>1. 0 \in m <=> n - 1 - 0 \in t
    BY <1>1, Reflected, 0 \in Int
  <2>2. n - 1 \in t <=> ((n - 1 + 1 \in s) # (0 \in s /\ n - 1 \in p))
    BY <1>1, ShiftedBits
  <2>3. n - 1 \in p /\ n - 1 + 1 \notin s /\ n - 1 - 0 = n - 1
    BY DEF IsPolynomial, Positions
  <2>4. QED
    BY <2>1, <2>2, <2>3
<1>4. ASSUME NEW i \in Positions(n)
      PROVE  i \in Shifted(q, m) <=> i \in MirrorBits(s, n)
  <2>1. i \in Nat /\ i + 1 \in Int /\ i <= n - 1
    BY DEF Positions
  <2>2. i \in Shifted(q, m) <=> ((i + 1 \in m) # (0 \in m /\ i \in q))
    BY <1>2, ShiftedBits
  <2>3. i + 1 \in m <=> n - 1 - (i + 1) \in t
    BY <1>1, <2>1, Reflected
  <2>4. i \in MirrorBits(s, n) <=> n - 1 - i \in s
    BY <2>1, Reflected
  <2>5. i \in q <=> i = n - 1 \/ (i < n - 1 /\ n - 2 - i \in p)
    BY <2>1, PolyReflected
  <2>6. CASE i = n - 1
    <3>1. n - 1 - (i + 1) \notin t /\ n - 1 - i = 0
      BY <1>1, <2>6 DEF Positions
    <3>2. QED
      BY <1>3, <2>2, <2>3, <2>4, <2>5, <2>6, <3>1
  <2>7. CASE i < n - 1
    <3>1. /\ n - 2 - i \in Positions(n) /\ n - 1 - (i + 1) = n - 2 - i
          /\ n - 2 - i + 1 = n - 1 - i /\ i # n - 1
      BY <2>1, <2>7 DEF Positions
    <3>2. n - 2 - i \in t <=> ((n - 1 - i \in s) # (0 \in s /\ n - 2 - i \in p))
      BY <3>1, ShiftedBits
    <3>3. QED
      BY <1>3, <2>2, <2>3, <2>4, <2>5, <2>7, <3>1, <3>2
  <2>8. QED
    BY <2>1, <2>6, <2>7
<1>5. Shifted(q, m) \subseteq Positions(n)
  BY <1>1, <1>2, ShiftedBits
<1>6. QED
  BY <1>2, <1>4, <1>5

-------------------------------------------------------------------------------
\* Registers, and what the operations make of them.
Register(n, p, s, mirrored, byte_mode) ==
  [bits |-> n, poly |-> p, state |-> s, mirrored |-> mirrored, byte_mode |-> byte_mode]

\* The mode that is left, the other direction, and the bit that is returned.
Off == FALSE
Other(m) == ~m
Lowest(s) == 0 \in s

LEMMA Fields ==
  ASSUME NEW n, NEW p, NEW s, NEW m, NEW b
  PROVE  /\ Register(n, p, s, m, b).bits = n /\ Register(n, p, s, m, b).poly = p
         /\ Register(n, p, s, m, b).state = s /\ Register(n, p, s, m, b).mirrored = m
         /\ Register(n, p, s, m, b).byte_mode = b
BY DEF Register

LEMMA ByteModeSet ==
  \A n, p, s, m, b, x :
    [Register(n, p, s, m, b) EXCEPT !.byte_mode = x] = Register(n, p, s, m, x)
BY DEF Register

LEMMA OnceShifted ==
  \A n, p, s, m, b : ShiftOnce(Register(n, p, s, m, b)) = Register(n, p, Shifted(p, s), m, b)
BY DEF ShiftOnce, Register

LEMMA OnceMirrored ==
  \A n, p, s, m, b :
    Mirror(Register(n, p, s, m, b)) = Register(n, MirrorPoly(p, n), MirrorBits(s, n), Other(m), b)
<1> TAKE n, p, s, m, b
<1> DEFINE r == Register(n, p, s, m, b)
<1>1. r.bits = n /\ r.poly = p /\ r.state = s /\ r.byte_mode = b
  BY Fields
<1>2. r.mirrored = m
  BY Fields
<1>3. Mirror(r) = [bits |-> r.bits, poly |-> MirrorPoly(r.poly, r.bits),
                   state |-> MirrorBits(r.state, r.bits),
                   mirrored |-> ~r.mirrored, byte_mode |-> r.byte_mode]
  BY Zenon DEF Mirror, Reversed
<1>4. QED
  BY Zenon, <1>1, <1>2, <1>3 DEF Register, Other

\* GetBit() of a register that has the state s once it goes the way it is asked to.
LEMMA BitGot ==
  ASSUME NEW r, NEW n, NEW p, NEW s, NEW b, NEW back, Turned(r, back) = Register(n, p, s, back, b)
  PROVE  GetBit(r, back) = [reg |-> Register(n, p, Shifted(p, s), back, Off), bit |-> Lowest(s)]
<1> DEFINE t == Register(n, p, s, back, b)
           u == Register(n, p, Shifted(p, s), back, b)
<1>1. ShiftOnce(t) = u
  BY OnceShifted
<1>2. [u EXCEPT !.byte_mode = Off] = Register(n, p, Shifted(p, s), back, Off)
  BY ByteModeSet
<1>3. [ShiftOnce(t) EXCEPT !.byte_mode = FALSE] = Register(n, p, Shifted(p, s), back, Off)
  BY Zenon, <1>1, <1>2 DEF Off
<1>4. t.state = s
  BY Fields
<1>5. QED
  BY Zenon, <1>3, <1>4 DEF GetBit, Lowest

\* The register goes the same way, ...
LEMMA GoesOn ==
  ASSUME NEW n, NEW p, NEW s, NEW back, NEW b
  PROVE  GetBit(Register(n, p, s, back, b), back)
           = [reg |-> Register(n, p, Shifted(p, s), back, Off), bit |-> Lowest(s)]
<1> DEFINE r == Register(n, p, s, back, b)
<1>1. r.mirrored = back
  BY Fields
<1>2. Turned(r, back) = r
  BY Zenon, <1>1 DEF Turned
<1>3. QED
  BY <1>2, BitGot

\* ... or turns around.
LEMMA TurnsAround ==
  ASSUME NEW n, NEW p, NEW s, NEW m \in BOOLEAN, NEW back \in BOOLEAN, m # back, NEW b,
         NEW q, q = MirrorPoly(p, n), NEW t, t = Shifted(q, MirrorBits(s, n))
  PROVE  GetBit(Register(n, p, s, m, b), back)
           = [reg |-> Register(n, q, Shifted(q, t), back, Off), bit |-> Lowest(t)]
<1> DEFINE r == Register(n, p, s, m, b)
<1>1. r.mirrored = m
  BY Fields
<1>2. Turned(r, back) = ShiftOnce(Mirror(r))
  BY Zenon, <1>1 DEF Turned
<1>3. Mirror(r) = Register(n, q, MirrorBits(s, n), back, b)
  <2>1. Mirror(r) = Register(n, q, MirrorBits(s, n), Other(m), b)
    BY OnceMirrored
  <2>2. Other(m) = back
    BY Zenon DEF Other
  <2>3. QED
    BY Zenon, <2>1, <2>2
<1>4. ShiftOnce(Register(n, q, MirrorBits(s, n), back, b)) = Register(n, q, t, back, b)
  BY OnceShifted
<1>5. Turned(r, back) = Register(n, q, t, back, b)
  BY Zenon, <1>2, <1>3, <1>4
<1>6. QED
  BY <1>5, BitGot

\* The bit before the last is the one that was returned before it, and going on from
\* there returns the last one again and leaves the register as it was, whichever way it
\* goes first: GetPrevBit() and GetNextBit() move in one sequence.
THEOREM JogsInPlace ==
  ASSUME NEW n \in Nat \ {0, 1}, NEW p, IsPolynomial(p, n), NEW s \in SUBSET Positions(n),
         NEW there \in BOOLEAN, NEW back \in BOOLEAN, there # back, NEW byte_mode,
         NEW first, first = GetBit(Register(n, p, s, there, byte_mode), there),
         NEW last, last = GetBit(first.reg, there),
         NEW before, before = GetBit(last.reg, back)
  PROVE  before.bit = first.bit /\ GetBit(before.reg, there) = last
<1> DEFINE q == MirrorPoly(p, n)
           t == Shifted(p, s)
           u == Shifted(p, t)
<1>1. 0 \in Positions(n) /\ t \in SUBSET Positions(n)
  <2>1. 0 \in Positions(n)
    BY DEF Positions
  <2>2. QED
    BY <2>1, ShiftedBits
<1>2. Shifted(q, MirrorBits(u, n)) = MirrorBits(t, n) /\ Shifted(q, MirrorBits(t, n)) = MirrorBits(s, n)
  BY <1>1, MirroredShiftsBack
<1>3. 0 \in MirrorBits(t, n) <=> 0 \in s
  <2>1. 0 \in MirrorBits(t, n) <=> n - 1 - 0 \in t
    BY <1>1, Reflected, 0 \in Int
  <2>2. n - 1 \in Positions(n) /\ n - 1 + 1 \notin s /\ n - 1 \in p /\ n - 1 - 0 = n - 1
    BY DEF Positions, IsPolynomial
  <2>3. n - 1 \in t <=> ((n - 1 + 1 \in s) # (0 \in s /\ n - 1 \in p))
    BY <2>2, ShiftedBits
  <2>4. QED
    BY <2>1, <2>2, <2>3
<1>4. Lowest(MirrorBits(t, n)) = Lowest(s)
  BY <1>3 DEF Lowest
<1>5. first = [reg |-> Register(n, p, t, there, Off), bit |-> Lowest(s)]
  BY GoesOn
<1>6. first.reg = Register(n, p, t, there, Off) /\ first.bit = Lowest(s)
  BY <1>5
<1>7. last = [reg |-> Register(n, p, u, there, Off), bit |-> Lowest(t)]
  BY <1>6, GoesOn
<1>8. last.reg = Register(n, p, u, there, Off)
  BY <1>7
<1>9. before = [reg |-> Register(n, q, MirrorBits(s, n), back, Off), bit |-> Lowest(s)]
  BY <1>2, <1>4, <1>8, TurnsAround
<1>10. before.reg = Register(n, q, MirrorBits(s, n), back, Off) /\ before.bit = Lowest(s)
  BY <1>9
<1>11. MirrorPoly(q, n) = p /\ MirrorBits(MirrorBits(s, n), n) = s
  BY TwiceReflected
<1>12. GetBit(before.reg, there) = [reg |-> Register(n, p, u, there, Off), bit |-> Lowest(t)]
  BY <1>10, <1>11, TurnsAround
<1>13. QED
  BY <1>6, <1>7, <1>10, <1>12

===============================================================================
