------------------------------- MODULE ProtoLFSR -------------------------------
(***************************************************************************)
(* ProtoLFSR and ProtoLFSRX, which differ in the width of a register only: *)
(* a shift register of lfsr_bits bits with feedback, which yields a        *)
(* periodic sequence of bits, forth and back, bit by bit or byte by byte,  *)
(* is set to where a received sequence is, and, in ProtoLFSRX, is          *)
(* reconstructed from one.  A polynomial and a state are the sets of the   *)
(* bits that are set; a sequence of bits is a sequence of BOOLEANs.        *)
(***************************************************************************)
EXTENDS Integers, Sequences

LOCAL Sets == INSTANCE FiniteSetsExt
LOCAL Folding == INSTANCE SequencesExt

CONSTANTS Polynomials,  \* [bits, poly] of the registers that are constructed
          InitialStates,
          Offsets,      \* the arguments of Seek()
          Received,     \* the buffers given to Sync()
          Buffers       \* those given to ComputePolynomial()

Positions(n) == 0..n - 1
IsPolynomial(p, n) == p \subseteq Positions(n) /\ n - 1 \in p

LFSRAssumption ==
  /\ \A p \in Polynomials : p.bits \in Nat \ {0, 1} /\ IsPolynomial(p.poly, p.bits)
  /\ \A s \in InitialStates : s \subseteq Nat
  /\ Offsets \subseteq Int
  /\ \A b \in Received \cup Buffers : b \in Seq(BOOLEAN)

VARIABLES reg,   \* the register
          tape,  \* history: a period of the sequence from the last start
          at,    \* history: the position in it of what has been returned last
          got,   \* history: the bits returned by the last call, in their order
          found  \* history: the argument and result of ComputePolynomial()

vars == <<reg, tape, at, got, found>>

Flip(S, T) == (S \ T) \cup (T \ S)

-------------------------------------------------------------------------------
\* The register.

\* Shift() by one, and by n.
Shifted(p, s) == Flip({i - 1 : i \in s \ {0}}, IF 0 \in s THEN p ELSE {})
ShiftOnce(r) == [r EXCEPT !.state = Shifted(r.poly, @)]
Shift(r, n) == Folding!FoldLeft(LAMBDA q, i : ShiftOnce(q), r, [i \in 1..n |-> i])

MirrorBits(s, n) == {n - 1 - i : i \in {j \in s : j < n}}
MirrorPoly(p, n) == MirrorBits(p, n - 1) \cup {n - 1}

\* Mutant: the highest bit of the polynomial is mirrored as well.
Reversed(r, poly) ==
  [bits |-> r.bits, poly |-> poly, state |-> MirrorBits(r.state, r.bits),
   mirrored |-> ~r.mirrored, byte_mode |-> r.byte_mode]
MirrorWhole(r) == Reversed(r, MirrorBits(r.poly, r.bits))
Mirror(r) == Reversed(r, MirrorPoly(r.poly, r.bits))

\* GetNextBit() and GetPrevBit(): the register after the call and the bit.
Turned(r, back) == IF r.mirrored = back THEN r ELSE ShiftOnce(Mirror(r))
GetBit(r, back) ==
  LET t == Turned(r, back)
  IN  [reg |-> [ShiftOnce(t) EXCEPT !.byte_mode = FALSE], bit |-> 0 \in t.state]

\* GetNextByte() and GetPrevByte().  The bits come in the order of the sequence.
\* Mutant: the bytes are taken for bits when the direction changes.
SkipBit(r, back) == IF r.mirrored = back THEN r ELSE ShiftOnce(r)
SkipByte(r, back) ==
  LET s == ShiftOnce(r)
  IN  IF r.mirrored = back THEN r
      ELSE IF r.byte_mode THEN Shift(GetBit(s, back).reg, 7) ELSE s
GetByte(r, back) ==
  LET one(q, i) ==
        LET g == GetBit(q.reg, back)
        IN  [reg |-> g.reg,
             bits |-> IF back THEN <<g.bit>> \o q.bits ELSE Append(q.bits, g.bit)]
      all == Folding!FoldLeft(one, [reg |-> SkipByte(r, back), bits |-> <<>>], [i \in 1..8 |-> i])
  IN  [all EXCEPT !.reg.byte_mode = TRUE]

\* Seek()
Seek(r, offset) ==
  LET m == IF r.mirrored = (offset < 0) THEN r ELSE Mirror(r)
  IN  [Shift(m, IF offset < 0 THEN -offset ELSE offset) EXCEPT !.byte_mode = FALSE]

\* Reset()
Reset(r, state) ==
  [IF r.mirrored THEN Mirror(r) ELSE r
     EXCEPT !.state = state \cap Positions(r.bits), !.byte_mode = FALSE]

\* LoadBit(), and Sync() to the buffer from an offset on.
LoadBit(r, bit) ==
  LET s == IF bit THEN Flip(r.state, r.poly) ELSE r.state
  IN  [r EXCEPT !.state = ({i + 1 : i \in s} \cap Positions(r.bits)) \cup (IF bit THEN {0} ELSE {})]
Sync(r, buffer, offset) ==
  Folding!FoldRight(LAMBDA bit, q : LoadBit(q, bit),
                    SubSeq(buffer, offset + 1, offset + r.bits), Reset(r, {}))

\* ProtoLFSR(); a register that is made in reverse yields the sequence backwards.
NewRegister(p, state, reverse) ==
  LET r == [bits |-> p.bits, poly |-> p.poly, state |-> state \cap Positions(p.bits),
            mirrored |-> FALSE, byte_mode |-> FALSE]
  IN  IF reverse THEN [Mirror(r) EXCEPT !.mirrored = FALSE] ELSE r

-------------------------------------------------------------------------------
\* ComputePolynomial(), by the algorithm of Berlekamp and Massey.

Odd(S) == Sets!FoldSet(LAMBDA x, odd : ~odd, FALSE, S)

\* The registers c and b, the length and m after one more bit.
Discrepancy(q, buffer, index) ==
  buffer[index + 1] # Odd({i \in q.c \cap 1..q.length : buffer[index - i + 1]})
\* Mutant: b becomes the new c.
CorrectedInPlace(q, index) ==
  LET c == Flip(q.c, {index - q.m + j : j \in {k \in q.b : k <= q.m + 1}})
  IN  IF q.length <= index \div 2
      THEN [c |-> c, b |-> c, length |-> index + 1 - q.length, m |-> index]
      ELSE [q EXCEPT !.c = c]
Corrected(q, index) ==
  LET c == Flip(q.c, {index - q.m + j : j \in {k \in q.b : k <= q.m + 1}})
      t == q.c \cap 0..index
  IN  IF q.length <= index \div 2
      THEN [c |-> c, b |-> t \cup (q.b \ (0..index)), length |-> index + 1 - q.length, m |-> index]
      ELSE [q EXCEPT !.c = c]
Taps(buffer) ==
  LET last == Folding!FoldLeft(LAMBDA q, n : IF Discrepancy(q, buffer, n - 1) THEN Corrected(q, n - 1) ELSE q,
                               [c |-> {0}, b |-> {0}, length |-> 0, m |-> -1],
                               [n \in 1..Len(buffer) |-> n])
  IN  {i - 1 : i \in last.c \cap 1..last.length}

\* The register is put before the buffer, and tried on it.
Computed(buffer) ==
  LET n == Sets!Max(Taps(buffer)) + 1
  IN  Sync([bits |-> n, poly |-> Taps(buffer), state |-> Positions(n),
            mirrored |-> FALSE, byte_mode |-> FALSE], buffer, 0)
Matches(r, buffer) ==
  \A i \in 1..Len(buffer) : GetBit(Shift(r, i - 1), FALSE).bit = buffer[i]

-------------------------------------------------------------------------------
\* The sequence a register stands for, by its recurrence: each bit is the sum of those
\* before it that the polynomial names.
Recurs(poly, bits, i) == bits[i] = Odd({k \in poly : bits[i - 1 - k]})
Regenerates(poly, n, bits) == \A i \in n + 1..Len(bits) : Recurs(poly, bits, i)

Continued(poly, first, n) ==
  Folding!FoldLeft(LAMBDA bits, i : Append(bits, Odd({k \in poly : bits[Len(bits) - k]})),
                   first, [i \in 1..n |-> i])

\* A period of it, from its first bits.
TapeOf(poly, first) ==
  LET n == Len(first)
      long == Continued(poly, first, 2^n)
      period == Sets!Min({p \in 1..2^n : \A i \in 1..n : long[i + p] = long[i]})
  IN  SubSeq(long, 1, period)

\* The first bits a state stands for.
FirstBits(poly, state, n) ==
  Folding!FoldLeft(LAMBDA bits, i : Append(bits, (i \in state) # Odd({k \in 1..i : i - k \in poly /\ bits[k]})),
                   <<>>, [i \in 1..n |-> i - 1])

-------------------------------------------------------------------------------
\* A register that is set anew stands before the first bit.
Begins(r, first, result) ==
  /\ reg' = r /\ tape' = TapeOf(r.poly, first) /\ at' = Len(tape') - 1
  /\ got' = <<>> /\ found' = result

Goes(r, bits, move) ==
  /\ reg' = r /\ at' = (at + move) % Len(tape) /\ got' = bits
  /\ found' = <<>> /\ UNCHANGED tape

NoRegister == [bits |-> 0, poly |-> {}, state |-> {}, mirrored |-> FALSE, byte_mode |-> FALSE]

Init ==
  /\ \/ /\ \E p \in Polynomials, s \in InitialStates, reverse \in BOOLEAN :
              reg = NewRegister(p, s, reverse)
        /\ tape = TapeOf(reg.poly, FirstBits(reg.poly, reg.state, reg.bits))
        /\ at = Len(tape) - 1
     \/ reg = NoRegister /\ tape = <<>> /\ at = 0
  /\ got = <<>> /\ found = <<>>

\* Turning a register of one bit around is undefined.
MayTurn(back) == reg.bits > 0 /\ (reg.mirrored # back => reg.bits > 1)
Sign(back) == IF back THEN -1 ELSE 1

Bit(back) ==
  LET g == GetBit(reg, back)
  IN  MayTurn(back) /\ Goes(g.reg, <<g.bit>>, Sign(back))

\* After a byte the other way the one before, or after, that byte as a whole; after a
\* bit the other way the byte begins with that bit.
Byte(back) ==
  LET g == GetByte(reg, back)
      move == IF reg.mirrored = back THEN 8 ELSE IF reg.byte_mode THEN 15 ELSE 7
  IN  MayTurn(back) /\ Goes(g.reg, g.bits, Sign(back) * move)

\* A turn moves by one bit less than told.
Move(offset) ==
  LET back == offset < 0
      turn == IF reg.mirrored = back THEN 0 ELSE Sign(back)
  IN  MayTurn(back) /\ Goes(Seek(reg, offset), <<>>, offset - turn)

Restart(state) ==
  LET r == Reset(reg, state)
  IN  MayTurn(FALSE) /\ Begins(r, FirstBits(r.poly, r.state, r.bits), <<>>)

Synchronize(buffer, offset) ==
  /\ MayTurn(FALSE) /\ Len(buffer) >= reg.bits + offset
  /\ Begins(Sync(reg, buffer, offset), SubSeq(buffer, offset + 1, offset + reg.bits), <<>>)

\* Of a new ProtoLFSRX.  (A buffer no bit of which depends on others has no taps.)
ComputePolynomial(buffer) ==
  /\ reg = NoRegister /\ Taps(buffer) # {}
  /\ LET r == Computed(buffer)
     IN  Begins(r, SubSeq(buffer, 1, r.bits), <<buffer, Matches(r, buffer)>>)

Next ==
  \/ \E back \in BOOLEAN : Bit(back) \/ Byte(back)
  \/ \E offset \in Offsets : Move(offset)
  \/ \E state \in InitialStates : Restart(state)
  \/ \E buffer \in Received, offset \in {0, 1} : Synchronize(buffer, offset)
  \/ \E buffer \in Buffers : ComputePolynomial(buffer)

Spec == Init /\ [][Next]_vars

-------------------------------------------------------------------------------
\* Properties.

TypeOK ==
  /\ reg = NoRegister \/ IsPolynomial(reg.poly, reg.bits)
  /\ reg.state \subseteq Positions(reg.bits)
  /\ reg.mirrored \in BOOLEAN /\ reg.byte_mode \in BOOLEAN
  /\ tape \in Seq(BOOLEAN) /\ at \in Nat /\ got \in Seq(BOOLEAN)

\* The bits and bytes returned forth and back, in whatever order they are asked for and
\* after whatever jumps, are those of the one sequence at the place reached.
SequenceKept ==
  /\ TypeOK
  /\ \A i \in 1..Len(got) :
       LET place == IF reg.mirrored THEN at + i - 1 ELSE at + i - Len(got)
       IN  got[i] = tape[(place % Len(tape)) + 1]

\* ComputePolynomial() finds a register whenever half of the bits suffice to
\* determine one; what it says it has found yields the bits, and nothing shorter does.
PolynomialFound ==
  found # <<>> =>
    LET buffer == found[1]
        Yields(n) == \E p \in SUBSET Positions(n) : n - 1 \in p /\ Regenerates(p, n, buffer)
    IN  /\ (\E n \in 1..Len(buffer) \div 2 : Yields(n)) => found[2]
        /\ found[2] => /\ Regenerates(reg.poly, reg.bits, buffer)
                       /\ \A n \in 1..reg.bits - 1 : ~Yields(n)
===============================================================================
