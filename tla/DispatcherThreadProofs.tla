----------------------- MODULE DispatcherThreadProofs -----------------------
(***************************************************************************)
(* Proofs about DispatcherThread, for every set of callers: with or        *)
(* without a Controller if nobody stops the dispatcher, and without one if *)
(* callers or callbacks stop it and its owner starts it again.             *)
(***************************************************************************)
EXTENDS DispatcherThread, FiniteSetTheorems, SequenceTheorems, TLAPS

\* Somebody stops the dispatcher: a caller, or a callback.
Stoppable == "stop" \in Calls \cup Callbacks

\* SetBreak() does not fail where its result is not looked at, the counts have room
\* for the nesting of the methods, and a dispatcher that is stopped has no
\* Controller and is not restarted with a thread_master left.
Managed ==
  /\ ThreadAssumption
  /\ Stoppable => Ctl = None /\ CleanRestarts
  /\ "interrupt" \notin BreakFailures
  /\ CountMax >= 3

-----------------------------------------------------------------------------
\* The steps that are left to a caller.

StopSteps == {"unhook", "halt", "join", "await"}
CtlSteps == {"dispatch", "hand", "lockA", "lockB", "unlockA", "unlockB"}
\* The steps taken between a SuspendThread() and its ResumeThread().
InnerSteps ==
  {"change", "prompt", "interrupt", "interruptOrFail", "lockSignal", "unsignal", "resume",
   "dispatch", "hand"}

\* What is still to be mirrored fits the first of the steps s.
Fits(s) ==
  /\ Suspended(s) \in 0..3 /\ Signalled(s) \in 0..2 /\ Signalled(s) <= Suspended(s)
  /\ s # <<>> =>
       /\ Head(s) \in StopSteps => Stoppable
       /\ Len(s) >= 2 => s[2] # "lockSignal"
       /\ Head(s) \in {"awaitStart", "lockSuspend"} => Suspended(s) = 0
       /\ Head(s) \in InnerSteps => Suspended(s) >= 1
       /\ Head(s) = "lockSignal" => Signalled(s) = 0
       /\ Head(s) = "dispatch" => Suspended(s) = 1 /\ Signalled(s) = 0
       /\ Head(s) = "change" => Len(s) >= 3 /\ s[2] = "suspend" /\ s[3] = "interrupt"
       /\ Head(s) = "interruptOrFail" => Len(s) >= 3 /\ s[2] = "unsignal" /\ s[3] = "resume"

\* That holds of the steps s, and will hold whenever some of them are done.
WellNested(s) ==
  /\ s \in Seq(Steps)
  /\ \A k \in 1..Len(s) : Fits(SubSeq(s, k, Len(s)))

\* Another step may precede these: lockSignal only ever takes the place of the step
\* that is being executed.
Steady(s) == WellNested(s) /\ (s # <<>> => s[1] # "lockSignal")

\* These are the steps of a method, of a round of the Controller, of a caller that
\* is going to break the Wait().
Plain(s) == \A i \in 1..Len(s) : s[i] \notin CtlSteps
Handing(s) ==
  /\ Len(s) >= 2 /\ s[Len(s) - 1] = "hand" /\ s[Len(s)] = "resume"
  /\ \A i \in 1..Len(s) - 2 : s[i] \notin CtlSteps \ {"dispatch"}
Waking(s) ==
  \/ s # <<>> /\ s[1] = "interrupt"
  \/ Len(s) >= 2 /\ s[1] = "suspend" /\ s[2] = "interrupt"

-----------------------------------------------------------------------------
\* About sequences of steps.

\* A sequence after another step.
LEMMA Prepended ==
  ASSUME NEW x \in Steps, NEW s \in Seq(Steps)
  PROVE  LET c == <<x>> \o s
         IN  /\ c \in Seq(Steps) /\ c # <<>> /\ Len(c) = Len(s) + 1 /\ Len(s) \in Nat
             /\ Head(c) = x /\ Tail(c) = s
             /\ c[1] = x /\ \A i \in 1..Len(s) : c[i + 1] = s[i]
<1> DEFINE c == <<x>> \o s
<1>1. <<x>> \in Seq(Steps) /\ Len(<<x>>) = 1 /\ <<x>>[1] = x
  OBVIOUS
<1>2. /\ c \in Seq(Steps) /\ Len(c) = 1 + Len(s)
      /\ \A i \in 1..1 + Len(s) : c[i] = IF i <= 1 THEN <<x>>[i] ELSE s[i - 1]
  BY <1>1, ConcatProperties
<1>3. Len(s) \in Nat
  BY LenProperties
<1> HIDE DEF c
<1>4. c[1] = x /\ \A i \in 1..Len(s) : c[i + 1] = s[i]
  BY <1>1, <1>2, <1>3
<1>5. c # <<>>
  BY <1>2, <1>3, EmptySeq
<1>6. /\ Tail(c) \in Seq(Steps) /\ Len(Tail(c)) = Len(s)
      /\ \A i \in 1..Len(Tail(c)) : Tail(c)[i] = c[i + 1]
  BY <1>2, <1>3, <1>5, HeadTailProperties
<1>7. Tail(c) = s
  BY <1>4, <1>6, SeqEqual
<1>8. Head(c) = x
  BY <1>2, <1>4, <1>5
<1> QED
  BY <1>2, <1>3, <1>4, <1>5, <1>7, <1>8 DEF c

\* A sequence that is not empty is its head before its tail.
LEMMA HeadAndTail ==
  ASSUME NEW s \in Seq(Steps), s # <<>>
  PROVE  /\ Head(s) \in Steps /\ Tail(s) \in Seq(Steps)
         /\ s = <<Head(s)>> \o Tail(s)
<1>1. /\ Head(s) \in Steps /\ Tail(s) \in Seq(Steps)
      /\ Len(Tail(s)) = Len(s) - 1
      /\ \A i \in 1..Len(Tail(s)) : Tail(s)[i] = s[i + 1]
  BY HeadTailProperties
<1> DEFINE c == <<Head(s)>> \o Tail(s)
<1>2. /\ c \in Seq(Steps) /\ Len(c) = Len(s) - 1 + 1 /\ c[1] = Head(s)
      /\ \A i \in 1..Len(Tail(s)) : c[i + 1] = Tail(s)[i]
  BY <1>1, Prepended
<1>3. Len(s) \in Nat
  BY LenProperties
<1> HIDE DEF c
<1>4. \A i \in 1..Len(s) : s[i] = c[i]
  <2> TAKE i \in 1..Len(s)
  <2>1. CASE i = 1
    BY <2>1, <1>2
  <2>2. CASE i # 1
    <3>1. i - 1 \in 1..Len(Tail(s)) /\ (i - 1) + 1 = i
      BY <2>2, <1>1, <1>3
    <3>2. c[i] = Tail(s)[i - 1] /\ Tail(s)[i - 1] = s[i]
      BY <3>1, <1>1, <1>2
    <3> QED  BY <3>2
  <2> QED  BY <2>1, <2>2
<1>5. s = c
  BY <1>2, <1>3, <1>4, SeqEqual
<1> QED
  BY <1>1, <1>5 DEF c

LEMMA CountEmpty == ASSUME NEW S PROVE CountOf(<<>>, S) = 0
  BY FS_EmptySet DEF CountOf

LEMMA CountType ==
  ASSUME NEW s \in Seq(Steps), NEW S
  PROVE  /\ IsFiniteSet({i \in 1..Len(s) : s[i] \in S})
         /\ CountOf(s, S) \in Nat
<1>1. IsFiniteSet(1..Len(s))
  BY LenProperties, FS_Interval
<1>2. {i \in 1..Len(s) : s[i] \in S} \in SUBSET (1..Len(s))
  OBVIOUS
<1>3. IsFiniteSet({i \in 1..Len(s) : s[i] \in S})
  BY <1>1, <1>2, FS_Subset
<1> QED
  BY <1>3, FS_CardinalityType DEF CountOf

\* One step more counts at most for one.
LEMMA CountPrepended ==
  ASSUME NEW x \in Steps, NEW s \in Seq(Steps), NEW S
  PROVE  CountOf(<<x>> \o s, S) = CountOf(s, S) + (IF x \in S THEN 1 ELSE 0)
<1> DEFINE c == <<x>> \o s
           A == {i \in 1..Len(s) : s[i] \in S}
           B == {i \in 2..Len(c) : c[i] \in S}
           D == {i \in 1..Len(c) : c[i] \in S}
           f == [i \in A |-> i + 1]
<1> SUFFICES CountOf(c, S) = CountOf(s, S) + (IF x \in S THEN 1 ELSE 0)
  OBVIOUS
<1>1. /\ c \in Seq(Steps) /\ Len(c) = Len(s) + 1 /\ Len(s) \in Nat /\ c[1] = x
      /\ \A i \in 1..Len(s) : c[i + 1] = s[i]
  BY Prepended
<1> HIDE DEF c
<1>2. f \in [A -> B]
  BY <1>1
<1>3. \A i, j \in A : f[i] = f[j] => i = j
  OBVIOUS
<1>4. \A j \in B : \E i \in A : f[i] = j
  <2> TAKE j \in B
  <2>1. j - 1 \in 1..Len(s) /\ (j - 1) + 1 = j
    BY <1>1
  <2>2. s[j - 1] = c[j]
    BY <2>1, <1>1
  <2>3. j - 1 \in A /\ f[j - 1] = j
    BY <2>1, <2>2
  <2> QED  BY <2>3
<1>5. f \in Bijection(A, B)
  BY <1>2, <1>3, <1>4 DEF Bijection, Injection, Surjection, IsInjective
<1>6. IsFiniteSet(A)
  BY CountType
<1>7. IsFiniteSet(B) /\ Cardinality(B) = Cardinality(A)
  BY <1>5, <1>6, FS_Bijection DEF ExistsBijection
<1>8. Cardinality(B \cup {1}) = Cardinality(B) + 1
  <2>1. 1 \notin B
    OBVIOUS
  <2> HIDE DEF B
  <2> QED  BY <1>7, <2>1, FS_AddElement
<1>9. D = IF x \in S THEN B \cup {1} ELSE B
  BY <1>1
<1>10. Cardinality(A) \in Nat
  BY <1>6, FS_CardinalityType
<1>11. CountOf(c, S) = Cardinality(D)
  BY DEF CountOf
<1>12. CountOf(s, S) = Cardinality(A)
  BY DEF CountOf
<1> HIDE DEF A, B, D, f
<1> QED
  BY <1>7, <1>8, <1>9, <1>10, <1>11, <1>12

\* What one step more means for what is to be mirrored.
SuspendStep(x) ==
  IF x = "resume" THEN 1 ELSE IF x \in {"suspend", "awaitStart", "lockSuspend"} THEN -1 ELSE 0
SignalStep(x) ==
  IF x = "unsignal" THEN 1
  ELSE IF x \in {"interrupt", "interruptOrFail", "lockSignal"} THEN -1 ELSE 0

LEMMA NestingEmpty == Suspended(<<>>) = 0 /\ Signalled(<<>>) = 0
  BY CountEmpty DEF Suspended, Signalled

LEMMA NestingPrepended ==
  ASSUME NEW x \in Steps, NEW s \in Seq(Steps)
  PROVE  /\ Suspended(<<x>> \o s) = Suspended(s) + SuspendStep(x)
         /\ Signalled(<<x>> \o s) = Signalled(s) + SignalStep(x)
         /\ Suspended(s) \in Int /\ Signalled(s) \in Int
<1> DEFINE c == <<x>> \o s
           S1 == {"suspend", "awaitStart", "lockSuspend"}
           S2 == {"interrupt", "interruptOrFail", "lockSignal"}
           up(S) == IF x \in S THEN 1 ELSE 0
<1>1. /\ CountOf(c, {"resume"}) = CountOf(s, {"resume"}) + up({"resume"})
      /\ CountOf(c, S1) = CountOf(s, S1) + up(S1)
      /\ CountOf(c, {"unsignal"}) = CountOf(s, {"unsignal"}) + up({"unsignal"})
      /\ CountOf(c, S2) = CountOf(s, S2) + up(S2)
  BY CountPrepended
<1>2. /\ CountOf(s, {"resume"}) \in Nat /\ CountOf(s, S1) \in Nat
      /\ CountOf(s, {"unsignal"}) \in Nat /\ CountOf(s, S2) \in Nat
  BY CountType
<1>3. /\ Suspended(s) = CountOf(s, {"resume"}) - CountOf(s, S1)
      /\ Suspended(c) = CountOf(c, {"resume"}) - CountOf(c, S1)
      /\ Signalled(s) = CountOf(s, {"unsignal"}) - CountOf(s, S2)
      /\ Signalled(c) = CountOf(c, {"unsignal"}) - CountOf(c, S2)
  BY DEF Suspended, Signalled
<1>4. /\ SuspendStep(x) = up({"resume"}) - up(S1)
      /\ SignalStep(x) = up({"unsignal"}) - up(S2)
  BY DEF SuspendStep, SignalStep
<1>5. up({"resume"}) \in Nat /\ up(S1) \in Nat /\ up({"unsignal"}) \in Nat /\ up(S2) \in Nat
  OBVIOUS
<1> SUFFICES /\ Suspended(c) = Suspended(s) + SuspendStep(x)
             /\ Signalled(c) = Signalled(s) + SignalStep(x)
             /\ Suspended(s) \in Int /\ Signalled(s) \in Int
  OBVIOUS
<1> HIDE DEF c, S1, S2, up
<1>6. /\ Suspended(c) = Suspended(s) + SuspendStep(x)
      /\ Suspended(s) \in Int
  <2>1. \A a, b, e, f \in Nat : (a + e) - (b + f) = (a - b) + (e - f) /\ a - b \in Int
    OBVIOUS
  <2>2. Suspended(c) = (CountOf(s, {"resume"}) + up({"resume"})) - (CountOf(s, S1) + up(S1))
    BY <1>1, <1>3
  <2>3. Suspended(c) = (CountOf(s, {"resume"}) - CountOf(s, S1)) + (up({"resume"}) - up(S1))
    BY <1>2, <1>5, <2>1, <2>2
  <2>4. CountOf(s, {"resume"}) - CountOf(s, S1) \in Int
    BY <1>2, <2>1
  <2> QED  BY <1>3, <1>4, <2>3, <2>4
<1>7. /\ Signalled(c) = Signalled(s) + SignalStep(x)
      /\ Signalled(s) \in Int
  <2>1. \A a, b, e, f \in Nat : (a + e) - (b + f) = (a - b) + (e - f) /\ a - b \in Int
    OBVIOUS
  <2>2. Signalled(c) = (CountOf(s, {"unsignal"}) + up({"unsignal"})) - (CountOf(s, S2) + up(S2))
    BY <1>1, <1>3
  <2>3. Signalled(c) = (CountOf(s, {"unsignal"}) - CountOf(s, S2)) + (up({"unsignal"}) - up(S2))
    BY <1>2, <1>5, <2>1, <2>2
  <2>4. CountOf(s, {"unsignal"}) - CountOf(s, S2) \in Int
    BY <1>2, <2>1
  <2> QED  BY <1>3, <1>4, <2>3, <2>4
<1> QED
  BY <1>6, <1>7

LEMMA SuffixOfTail ==
  ASSUME NEW s \in Seq(Steps), s # <<>>, NEW k \in 1..Len(s) - 1
  PROVE  SubSeq(Tail(s), k, Len(Tail(s))) = SubSeq(s, k + 1, Len(s))
<1>1. Len(s) \in Nat /\ s \in [1..Len(s) -> Steps]
  BY LenProperties
<1>2. Tail(s) = SubSeq(s, 2, Len(s)) /\ Len(Tail(s)) = Len(s) - 1
  BY TailIsSubSeq, HeadTailProperties
<1> DEFINE a == SubSeq(Tail(s), k, Len(s) - 1)
           b == SubSeq(s, k + 1, Len(s))
<1>3. /\ b \in Seq(Steps) /\ Len(b) = Len(s) - k
      /\ \A i \in 1..Len(s) - k : b[i] = s[k + i]
  <2>1. \A i \in k + 1..Len(s) : s[i] \in Steps
    BY <1>1
  <2>2. /\ b \in Seq(Steps)
        /\ Len(b) = IF k + 1 <= Len(s) THEN Len(s) - (k + 1) + 1 ELSE 0
        /\ \A i \in 1..Len(s) - (k + 1) + 1 : b[i] = s[(k + 1) + i - 1]
    BY <2>1, <1>1, SubSeqProperties
  <2> QED
    BY <2>2, <1>1
<1>4. /\ a \in Seq(Steps) /\ Len(a) = Len(s) - k
      /\ \A i \in 1..Len(s) - k : a[i] = s[k + i]
  <2>1. Tail(s) \in Seq(Steps) /\ \A i \in 1..Len(s) - 1 : Tail(s)[i] = s[i + 1]
    BY <1>2, HeadTailProperties
  <2>2. \A i \in k..Len(s) - 1 : Tail(s)[i] \in Steps
    BY <1>1, <2>1
  <2>3. /\ a \in Seq(Steps)
        /\ Len(a) = IF k <= Len(s) - 1 THEN Len(s) - 1 - k + 1 ELSE 0
        /\ \A i \in 1..Len(s) - 1 - k + 1 : a[i] = Tail(s)[k + i - 1]
    BY <2>2, <1>1, SubSeqProperties
  <2> HIDE DEF a
  <2>4. ASSUME NEW i \in 1..Len(s) - k PROVE a[i] = s[k + i]
    <3>1. k + i - 1 \in 1..Len(s) - 1 /\ (k + i - 1) + 1 = k + i
      BY <1>1
    <3>2. Tail(s)[k + i - 1] = s[k + i]
      BY <3>1, <2>1
    <3> QED  BY <3>2, <2>3, <1>1
  <2> QED
    BY <2>3, <2>4, <1>1
<1> HIDE DEF a, b
<1>5. a = b
  BY <1>3, <1>4, SeqEqual
<1> QED
  BY <1>2, <1>5 DEF a, b

LEMMA FitsAtOnce ==
  ASSUME NEW s, WellNested(s)
  PROVE  Fits(s)
<1>1. CASE s = <<>>
  BY <1>1, NestingEmpty DEF Fits
<1>2. CASE s # <<>>
  <2>1. s \in Seq(Steps) /\ 1 \in 1..Len(s)
    BY <1>2, EmptySeq DEF WellNested
  <2>2. SubSeq(s, 1, Len(s)) = s
    BY <2>1, SubSeqFull
  <2> QED
    BY <2>1, <2>2 DEF WellNested
<1> QED
  BY <1>1, <1>2

LEMMA TailNested ==
  ASSUME NEW s, WellNested(s), s # <<>>
  PROVE  WellNested(Tail(s))
<1>1. /\ s \in Seq(Steps) /\ Tail(s) \in Seq(Steps) /\ Len(Tail(s)) = Len(s) - 1
      /\ Len(s) \in Nat
  BY HeadTailProperties, LenProperties DEF WellNested
<1>2. ASSUME NEW k \in 1..Len(Tail(s)) PROVE Fits(SubSeq(Tail(s), k, Len(Tail(s))))
  <2>1. k \in 1..Len(s) - 1 /\ k + 1 \in 1..Len(s)
    BY <1>1
  <2>2. SubSeq(Tail(s), k, Len(Tail(s))) = SubSeq(s, k + 1, Len(s))
    BY <1>1, <2>1, SuffixOfTail
  <2> QED
    BY <2>1, <2>2 DEF WellNested
<1> QED
  BY <1>1, <1>2 DEF WellNested

LEMMA PrependedNested ==
  ASSUME NEW x \in Steps, NEW s, WellNested(s), Fits(<<x>> \o s)
  PROVE  WellNested(<<x>> \o s)
<1> DEFINE c == <<x>> \o s
<1>1. /\ s \in Seq(Steps) /\ c \in Seq(Steps) /\ c # <<>> /\ Tail(c) = s
      /\ Len(c) = Len(s) + 1 /\ Len(s) \in Nat
  BY Prepended DEF WellNested
<1>2. Fits(c)
  OBVIOUS
<1> HIDE DEF c
<1>3. ASSUME NEW k \in 1..Len(c) PROVE Fits(SubSeq(c, k, Len(c)))
  <2>1. CASE k = 1
    BY <2>1, <1>1, <1>2, SubSeqFull
  <2>2. CASE k # 1
    <3>1. k - 1 \in 1..Len(c) - 1 /\ k - 1 \in 1..Len(s) /\ (k - 1) + 1 = k
      BY <2>2, <1>1
    <3>2. SubSeq(Tail(c), k - 1, Len(Tail(c))) = SubSeq(c, (k - 1) + 1, Len(c))
      BY <3>1, <1>1, SuffixOfTail
    <3>3. Fits(SubSeq(s, k - 1, Len(s)))
      BY <3>1 DEF WellNested
    <3> QED
      BY <3>1, <3>2, <3>3, <1>1
  <2> QED  BY <2>1, <2>2
<1>4. WellNested(c)
  BY <1>1, <1>3 DEF WellNested
<1> QED
  BY <1>4 DEF c

\* The same in terms of what the steps s leave to be mirrored.
LEMMA AnyStepBefore ==
  ASSUME NEW x \in Steps, NEW s, Steady(s), x \in StopSteps => Stoppable,
         Suspended(s) + SuspendStep(x) \in 0..3, Signalled(s) + SignalStep(x) \in 0..2,
         Signalled(s) + SignalStep(x) <= Suspended(s) + SuspendStep(x),
         x \in {"awaitStart", "lockSuspend"} => Suspended(s) + SuspendStep(x) = 0,
         x \in InnerSteps => Suspended(s) + SuspendStep(x) >= 1,
         x = "lockSignal" => Signalled(s) + SignalStep(x) = 0,
         x = "dispatch" => Suspended(s) + SuspendStep(x) = 1 /\ Signalled(s) + SignalStep(x) = 0,
         x = "change" => Len(s) >= 2 /\ s[1] = "suspend" /\ s[2] = "interrupt",
         x = "interruptOrFail" => Len(s) >= 2 /\ s[1] = "unsignal" /\ s[2] = "resume"
  PROVE  LET c == <<x>> \o s
         IN  /\ WellNested(c) /\ (x # "lockSignal" => Steady(c))
             /\ Len(c) = Len(s) + 1 /\ Len(s) \in Nat
             /\ Suspended(c) = Suspended(s) + SuspendStep(x)
             /\ Signalled(c) = Signalled(s) + SignalStep(x)
             /\ c[1] = x /\ \A i \in 1..Len(s) : c[i + 1] = s[i]
<1> DEFINE c == <<x>> \o s
<1>1. s \in Seq(Steps)
  BY DEF Steady, WellNested
<1>2. /\ c # <<>> /\ Len(c) = Len(s) + 1 /\ Len(s) \in Nat /\ Head(c) = x
      /\ c[1] = x /\ \A i \in 1..Len(s) : c[i + 1] = s[i]
  BY <1>1, Prepended
<1>3. /\ Suspended(c) = Suspended(s) + SuspendStep(x)
      /\ Signalled(c) = Signalled(s) + SignalStep(x)
  BY <1>1, NestingPrepended
<1>4. Fits(c)
  <2>1. Len(s) >= 2 => c[2] = s[1] /\ c[3] = s[2]
    <3>1. ASSUME Len(s) >= 2 PROVE c[1 + 1] = s[1] /\ c[2 + 1] = s[2]
      BY <3>1, <1>2
    <3> QED  BY <3>1
  <2>2. Len(c) >= 2 => c[2] # "lockSignal"
    <3>1. ASSUME Len(s) >= 1 PROVE c[1 + 1] = s[1] /\ s # <<>>
      BY <3>1, <1>2
    <3> QED  BY <3>1, <1>2 DEF Steady
  <2> HIDE DEF c
  <2> QED
    BY <2>1, <2>2, <1>2, <1>3 DEF Fits
<1>5. WellNested(c)
  BY <1>4, PrependedNested DEF Steady
<1> QED
  BY <1>2, <1>3, <1>5 DEF Steady

\* As most steps go.
LEMMA StepBefore ==
  ASSUME NEW x \in Steps \ StopSteps, NEW s, Steady(s), x # "lockSignal",
         Suspended(s) + SuspendStep(x) \in 0..3, Signalled(s) + SignalStep(x) \in 0..2,
         Signalled(s) + SignalStep(x) <= Suspended(s) + SuspendStep(x),
         x \in {"awaitStart", "lockSuspend"} => Suspended(s) + SuspendStep(x) = 0,
         x \in InnerSteps => Suspended(s) + SuspendStep(x) >= 1,
         x = "dispatch" => Suspended(s) + SuspendStep(x) = 1 /\ Signalled(s) + SignalStep(x) = 0,
         x = "change" => Len(s) >= 2 /\ s[1] = "suspend" /\ s[2] = "interrupt",
         x = "interruptOrFail" => Len(s) >= 2 /\ s[1] = "unsignal" /\ s[2] = "resume"
  PROVE  LET c == <<x>> \o s
         IN  /\ Steady(c)
             /\ Len(c) = Len(s) + 1 /\ Len(s) \in Nat
             /\ Suspended(c) = Suspended(s) + SuspendStep(x)
             /\ Signalled(c) = Signalled(s) + SignalStep(x)
             /\ c[1] = x /\ \A i \in 1..Len(s) : c[i + 1] = s[i]
  BY AnyStepBefore

\* The methods as steps before others, in which they may be nested.
LEMMA ChangeTimersNested ==
  ASSUME NEW r, Steady(r), Suspended(r) \in 0..1, Signalled(r) \in 0..1,
         Signalled(r) <= Suspended(r)
  PROVE  /\ Steady(ChangeTimers \o r)
         /\ Suspended(ChangeTimers \o r) = Suspended(r)
         /\ Signalled(ChangeTimers \o r) = Signalled(r)
<1> DEFINE r1 == <<"resume">> \o r
           r2 == <<"resume">> \o r1
           r3 == <<"unsignal">> \o r2
           r4 == <<"interrupt">> \o r3
           r5 == <<"suspend">> \o r4
           r6 == <<"change">> \o r5
           r7 == <<"suspend">> \o r6
<1> USE DEF Steps, StopSteps, InnerSteps, SuspendStep, SignalStep
<1>1. /\ Steady(r1) /\ Suspended(r1) = Suspended(r) + 1 /\ Signalled(r1) = Signalled(r)
  BY StepBefore
<1>2. /\ Steady(r2) /\ Suspended(r2) = Suspended(r) + 2 /\ Signalled(r2) = Signalled(r)
  <2> HIDE DEF r1
  <2> QED  BY <1>1, StepBefore
<1>3. /\ Steady(r3) /\ Suspended(r3) = Suspended(r) + 2 /\ Signalled(r3) = Signalled(r) + 1
  <2> HIDE DEF r2
  <2> QED  BY <1>2, StepBefore
<1>4. /\ Steady(r4) /\ Suspended(r4) = Suspended(r) + 2 /\ Signalled(r4) = Signalled(r)
      /\ r4[1] = "interrupt" /\ Len(r4) >= 1
  <2> HIDE DEF r3
  <2> QED  BY <1>3, StepBefore
<1>5. /\ Steady(r5) /\ Suspended(r5) = Suspended(r) + 1 /\ Signalled(r5) = Signalled(r)
      /\ r5[1] = "suspend" /\ r5[2] = "interrupt" /\ Len(r5) >= 2
  <2> HIDE DEF r4
  <2>1. /\ Steady(r5) /\ Suspended(r5) = Suspended(r) + 1 /\ Signalled(r5) = Signalled(r)
        /\ r5[1] = "suspend" /\ Len(r5) = Len(r4) + 1 /\ Len(r4) \in Nat
        /\ \A i \in 1..Len(r4) : r5[i + 1] = r4[i]
    BY <1>4, StepBefore
  <2>2. 1 \in 1..Len(r4) /\ 1 + 1 = 2
    BY <1>4, <2>1
  <2> HIDE DEF r5
  <2> QED  BY <1>4, <2>1, <2>2
<1>6. /\ Steady(r6) /\ Suspended(r6) = Suspended(r) + 1 /\ Signalled(r6) = Signalled(r)
  <2> HIDE DEF r5
  <2> QED  BY <1>5, StepBefore
<1>7. /\ Steady(r7) /\ Suspended(r7) = Suspended(r) /\ Signalled(r7) = Signalled(r)
  <2> HIDE DEF r6
  <2> QED  BY <1>6, StepBefore
<1>8. ChangeTimers \o r = r7
  BY DEF ChangeTimers, Signal, Unsignal, Steady, WellNested
<1> HIDE DEF r7
<1> QED
  BY <1>7, <1>8

LEMMA PromptThreadNested ==
  ASSUME NEW r, Steady(r), Suspended(r) \in 0..1, Signalled(r) \in 0..1,
         Signalled(r) <= Suspended(r)
  PROVE  /\ Steady(PromptThread \o r)
         /\ Suspended(PromptThread \o r) = Suspended(r)
         /\ Signalled(PromptThread \o r) = Signalled(r)
<1> DEFINE r1 == <<"resume">> \o r
           r2 == <<"resume">> \o r1
           r3 == <<"unsignal">> \o r2
           r4 == <<"interruptOrFail">> \o r3
           r5 == <<"suspend">> \o r4
           r6 == <<"prompt">> \o r5
           r7 == <<"suspend">> \o r6
<1> USE DEF Steps, StopSteps, InnerSteps, SuspendStep, SignalStep
<1>1. /\ Steady(r1) /\ Suspended(r1) = Suspended(r) + 1 /\ Signalled(r1) = Signalled(r)
  BY StepBefore
<1>2. /\ Steady(r2) /\ Suspended(r2) = Suspended(r) + 2 /\ Signalled(r2) = Signalled(r)
      /\ r2[1] = "resume" /\ Len(r2) >= 1
  <2> HIDE DEF r1
  <2> QED  BY <1>1, StepBefore
<1>3. /\ Steady(r3) /\ Suspended(r3) = Suspended(r) + 2 /\ Signalled(r3) = Signalled(r) + 1
      /\ r3[1] = "unsignal" /\ r3[2] = "resume" /\ Len(r3) >= 2
  <2> HIDE DEF r2
  <2>1. /\ Steady(r3) /\ Suspended(r3) = Suspended(r) + 2 /\ Signalled(r3) = Signalled(r) + 1
        /\ r3[1] = "unsignal" /\ Len(r3) = Len(r2) + 1 /\ Len(r2) \in Nat
        /\ \A i \in 1..Len(r2) : r3[i + 1] = r2[i]
    BY <1>2, StepBefore
  <2>2. 1 \in 1..Len(r2) /\ 1 + 1 = 2
    BY <1>2, <2>1
  <2> HIDE DEF r3
  <2> QED  BY <1>2, <2>1, <2>2
<1>4. /\ Steady(r4) /\ Suspended(r4) = Suspended(r) + 2 /\ Signalled(r4) = Signalled(r)
  <2> HIDE DEF r3
  <2> QED  BY <1>3, StepBefore
<1>5. /\ Steady(r5) /\ Suspended(r5) = Suspended(r) + 1 /\ Signalled(r5) = Signalled(r)
  <2> HIDE DEF r4
  <2> QED  BY <1>4, StepBefore
<1>6. /\ Steady(r6) /\ Suspended(r6) = Suspended(r) + 1 /\ Signalled(r6) = Signalled(r)
  <2> HIDE DEF r5
  <2> QED  BY <1>5, StepBefore
<1>7. /\ Steady(r7) /\ Suspended(r7) = Suspended(r) /\ Signalled(r7) = Signalled(r)
  <2> HIDE DEF r6
  <2> QED  BY <1>6, StepBefore
<1>8. PromptThread \o r = r7
  BY DEF PromptThread, Signal, Unsignal, Steady, WellNested
<1> HIDE DEF r7
<1> QED
  BY <1>7, <1>8

LEMMA NothingNested == Steady(<<>>)
  BY EmptySeq DEF Steady, WellNested

LEMMA ResumeAlone ==
  /\ Steady(<<"resume">>)
  /\ Suspended(<<"resume">>) = 1 /\ Signalled(<<"resume">>) = 0
<1> DEFINE e == <<>>
           c == <<"resume">> \o e
<1>1. c = <<"resume">>
  OBVIOUS
<1>2. Steady(e) /\ Suspended(e) = 0 /\ Signalled(e) = 0
  BY NothingNested, NestingEmpty
<1> HIDE DEF e
<1>3. Steady(c) /\ Suspended(c) = 1 /\ Signalled(c) = 0
  BY <1>2, StepBefore DEF Steps, StopSteps, InnerSteps, SuspendStep, SignalStep
<1> HIDE DEF c
<1> QED
  BY <1>1, <1>3

LEMMA UnsignalNested ==
  /\ Steady(Unsignal) /\ Suspended(Unsignal) = 1 /\ Signalled(Unsignal) = 1
<1> DEFINE e == <<>>
           r1 == <<"resume">> \o e
           r2 == <<"unsignal">> \o r1
<1> USE DEF Steps, StopSteps, InnerSteps, SuspendStep, SignalStep
<1>1. Steady(e) /\ Suspended(e) = 0 /\ Signalled(e) = 0
  BY NothingNested, NestingEmpty
<1>2. Unsignal \o e = Unsignal
  BY ConcatEmptySeq DEF Unsignal
<1> HIDE DEF e
<1>3. Steady(r1) /\ Suspended(r1) = 1 /\ Signalled(r1) = 0
  BY <1>1, StepBefore
<1>4. Steady(r2) /\ Suspended(r2) = 1 /\ Signalled(r2) = 1
  <2> HIDE DEF r1
  <2> QED  BY <1>3, StepBefore
<1>5. r2 = Unsignal \o e
  BY <1>1 DEF Unsignal, Steady, WellNested
<1> HIDE DEF r2
<1> QED
  BY <1>2, <1>4, <1>5

LEMMA SignalNested ==
  ASSUME NEW r, Steady(r), Suspended(r) \in 1..3, Signalled(r) \in 1..2,
         Signalled(r) <= Suspended(r)
  PROVE  /\ Steady(Signal \o r)
         /\ Suspended(Signal \o r) = Suspended(r) - 1
         /\ Signalled(Signal \o r) = Signalled(r) - 1
<1> DEFINE r1 == <<"interrupt">> \o r
           r2 == <<"suspend">> \o r1
<1> USE DEF Steps, StopSteps, InnerSteps, SuspendStep, SignalStep
<1>1. Steady(r1) /\ Suspended(r1) = Suspended(r) /\ Signalled(r1) = Signalled(r) - 1
  BY StepBefore
<1>2. Steady(r2) /\ Suspended(r2) = Suspended(r) - 1 /\ Signalled(r2) = Signalled(r) - 1
  <2> HIDE DEF r1
  <2> QED  BY <1>1, StepBefore
<1>3. Signal \o r = r2
  BY DEF Signal, Steady, WellNested
<1> HIDE DEF r2
<1> QED
  BY <1>2, <1>3

\* Every method mirrors all it does.
LEMMA BodyNested ==
  ASSUME NEW call \in {"change", "guarded", "streams", "signalled", "prompt", "stop"},
         call = "stop" => Stoppable
  PROVE  Steady(Body(call)) /\ Suspended(Body(call)) = 0 /\ Signalled(Body(call)) = 0
<1> USE DEF Steps, StopSteps, InnerSteps, SuspendStep, SignalStep
<1>1. CASE call = "change"
  <2> DEFINE e == <<>>
             c == ChangeTimers \o e
  <2>1. c = Body(call)
    BY <1>1 DEF Body, ChangeTimers, Signal, Unsignal
  <2>2. Steady(e) /\ Suspended(e) = 0 /\ Signalled(e) = 0
    BY NothingNested, NestingEmpty
  <2> HIDE DEF e
  <2>3. Steady(c) /\ Suspended(c) = 0 /\ Signalled(c) = 0
    BY <2>2, ChangeTimersNested
  <2> HIDE DEF c
  <2> QED
    BY <2>1, <2>3
<1>2. CASE call = "prompt"
  <2> DEFINE e == <<>>
             c == PromptThread \o e
  <2>1. c = Body(call)
    BY <1>2 DEF Body, PromptThread, Unsignal
  <2>2. Steady(e) /\ Suspended(e) = 0 /\ Signalled(e) = 0
    BY NothingNested, NestingEmpty
  <2> HIDE DEF e
  <2>3. Steady(c) /\ Suspended(c) = 0 /\ Signalled(c) = 0
    BY <2>2, PromptThreadNested
  <2> HIDE DEF c
  <2> QED
    BY <2>1, <2>3
<1>3. CASE call = "guarded"
  <2> DEFINE r == ChangeTimers \o <<"resume">>
  <2>1. Steady(r) /\ Suspended(r) = 1 /\ Signalled(r) = 0
    BY ChangeTimersNested, ResumeAlone
  <2> DEFINE c == <<"suspend">> \o r
  <2>2. c = Body(call)
    BY <1>3 DEF Body, ChangeTimers, Signal, Unsignal
  <2> HIDE DEF r
  <2>3. Steady(c) /\ Suspended(c) = 0 /\ Signalled(c) = 0
    BY <2>1, StepBefore
  <2> HIDE DEF c
  <2> QED
    BY <2>2, <2>3
<1>4. CASE call = "streams"
  <2> DEFINE r == <<"streams">> \o Unsignal
  <2>1. Steady(r) /\ Suspended(r) = 1 /\ Signalled(r) = 1
    BY StepBefore, UnsignalNested
  <2> DEFINE c == Signal \o r
  <2>2. c = Body(call)
    BY <1>4 DEF Body, ChangeStreams, Signal, Unsignal
  <2> HIDE DEF r
  <2>3. Steady(c) /\ Suspended(c) = 0 /\ Signalled(c) = 0
    BY <2>1, SignalNested
  <2> HIDE DEF c
  <2> QED
    BY <2>2, <2>3
<1>5. CASE call = "signalled"
  <2> DEFINE r == ChangeTimers \o Unsignal
  <2>1. Steady(r) /\ Suspended(r) = 1 /\ Signalled(r) = 1
    BY ChangeTimersNested, UnsignalNested
  <2> DEFINE c == Signal \o r
  <2>2. c = Body(call)
    BY <1>5 DEF Body, ChangeTimers, Signal, Unsignal
  <2> HIDE DEF r
  <2>3. Steady(c) /\ Suspended(c) = 0 /\ Signalled(c) = 0
    BY <2>1, SignalNested
  <2> HIDE DEF c
  <2> QED
    BY <2>2, <2>3
<1>6. CASE call = "stop"
  <2> DEFINE e == <<>>
             r1 == <<"join">> \o e
             r2 == <<"resume">> \o r1
             r3 == <<"unsignal">> \o r2
             r4 == <<"halt">> \o r3
             r5 == Signal \o r4
             c == <<"unhook">> \o r5
  <2>1. c = Body(call)
    BY <1>6 DEF Body, Stop, Signal, Unsignal
  <2>2. Steady(e) /\ Suspended(e) = 0 /\ Signalled(e) = 0
    BY NothingNested, NestingEmpty
  <2> HIDE DEF e
  <2>3. Steady(r1) /\ Suspended(r1) = 0 /\ Signalled(r1) = 0
    <3>1. /\ "join" \in Steps \ InnerSteps /\ Stoppable
          /\ SuspendStep("join") = 0 /\ SignalStep("join") = 0
      BY <1>6
    <3> HIDE DEF Steps, StopSteps, InnerSteps, SuspendStep, SignalStep
    <3> QED  BY <2>2, <3>1, AnyStepBefore
  <2> HIDE DEF r1
  <2>4. Steady(r2) /\ Suspended(r2) = 1 /\ Signalled(r2) = 0
    BY <2>3, StepBefore
  <2> HIDE DEF r2
  <2>5. Steady(r3) /\ Suspended(r3) = 1 /\ Signalled(r3) = 1
    BY <2>4, StepBefore
  <2> HIDE DEF r3
  <2>6. Steady(r4) /\ Suspended(r4) = 1 /\ Signalled(r4) = 1
    BY <1>6, <2>5, AnyStepBefore
  <2> HIDE DEF r4
  <2>7. Steady(r5) /\ Suspended(r5) = 0 /\ Signalled(r5) = 0
    BY <2>6, SignalNested
  <2> HIDE DEF r5
  <2>8. Steady(c) /\ Suspended(c) = 0 /\ Signalled(c) = 0
    <3>1. /\ "unhook" \in Steps \ InnerSteps /\ Stoppable
          /\ SuspendStep("unhook") = 0 /\ SignalStep("unhook") = 0
      BY <1>6
    <3> HIDE DEF Steps, StopSteps, InnerSteps, SuspendStep, SignalStep
    <3> QED  BY <2>7, <3>1, AnyStepBefore
  <2> HIDE DEF c
  <2> QED
    BY <2>1, <2>8
<1> QED
  BY <1>1, <1>2, <1>3, <1>4, <1>5, <1>6

\* A round of the Controller.
LEMMA OnDispatchNested ==
  /\ Steady(OnDispatch) /\ Suspended(OnDispatch) = 0 /\ Signalled(OnDispatch) = 0
  /\ Handing(OnDispatch)
<1> DEFINE r1 == <<"resume">>
           r2 == <<"hand">> \o r1
           r3 == <<"dispatch">> \o r2
           r4 == <<"suspend">> \o r3
<1> USE DEF Steps, StopSteps, InnerSteps, SuspendStep, SignalStep
<1>1. Steady(r1) /\ Suspended(r1) = 1 /\ Signalled(r1) = 0
  BY ResumeAlone
<1>2. Steady(r2) /\ Suspended(r2) = 1 /\ Signalled(r2) = 0
  <2> HIDE DEF r1
  <2> QED  BY <1>1, StepBefore
<1>3. Steady(r3) /\ Suspended(r3) = 1 /\ Signalled(r3) = 0
  <2> HIDE DEF r2
  <2> QED  BY <1>2, StepBefore
<1>4. Steady(r4) /\ Suspended(r4) = 0 /\ Signalled(r4) = 0
  <2> HIDE DEF r3
  <2> QED  BY <1>3, StepBefore
<1>5. OnDispatch = r4
  BY DEF OnDispatch
<1>6. Handing(OnDispatch)
  BY DEF OnDispatch, Handing, CtlSteps
<1> HIDE DEF r4
<1> QED
  BY <1>4, <1>5, <1>6

-----------------------------------------------------------------------------
\* The inductive invariant.

\* The mutexes, thread_master and the counts are what the steps left tell.
OwnersInv ==
  /\ \A t \in Callers :
       /\ WellNested(todo[t])
       /\ suspend = t <=> Suspensions(t) > 0
       /\ master = t <=> Suspensions(t) > 0
       /\ signal = t <=> Signals(t) > 0
  /\ master # None => suspendCount = Suspensions(master) /\ signalCount = Signals(master)
  /\ master = None => suspendCount = 0 /\ signalCount = 0
  /\ suspend = Worker <=> pc \in {"latch", "open", "dispatch", "exit"}
  /\ signal = Worker <=> pc \in {"open", "wait", "close"}

\* break_event is recorded until it is reset, and the next Wait() finds nothing
\* recorded.
SeenInv == Ctl = None /\ seen => pc \in {"close", "awake", "dispatch"}

\* Whoever has changed a timer behind the back of the Wait() is about to break it.
WakingInv ==
  pc \in {"open", "wait"} /\ stale /\ ~broken =>
    \E t \in Callers : Suspensions(t) > 0 /\ Waking(todo[t])

\* The lock that Yield gives to the controller's thread, and the one that TakeTurn
\* takes from it.
Given == IF useLockA THEN lockB ELSE lockA
Awaited == IF useLockA THEN lockA ELSE lockB

Passing ==
  IF useLockA THEN <<"lockB", "unlockA", "resume">> ELSE <<"lockA", "unlockB", "resume">>

\* Where the controller's thread is while the dispatcher's waits for its turn, and
\* that it is nowhere otherwise.
TurnInv ==
  \/ cue /\ todo[Ctl] \in {<<"resume">>, <<>>} /\ ~Given /\ Awaited
  \/ ~cue /\ Handing(todo[Ctl]) /\ ~Given /\ Awaited
  \/ ~cue /\ todo[Ctl] = Passing /\ ~Given /\ Awaited
  \/ ~cue /\ todo[Ctl] = Tail(Passing) /\ Given /\ Awaited
  \/ ~cue /\ todo[Ctl] \in {<<"resume">>, <<>>} /\ Given /\ ~Awaited

RestInv ==
  /\ ~cue /\ todo[Ctl] \in {<<"resume">>, <<>>} /\ Awaited
  /\ pc = "cue" => ~Given

RoundsInv ==
  /\ \A t \in Callers : t # Ctl \/ ~controller => Plain(todo[t])
  /\ ~controller => ~cue /\ pc \notin {"yield", "cue", "turn"}
  /\ controller => /\ Ctl # None
                   /\ IF pc = "turn" THEN TurnInv ELSE RestInv

\* From StartThread() to the return of Stop().
Running == threaded /\ TypeOK /\ OwnersInv /\ SeenInv /\ WakingInv /\ ResetFinds /\ RoundsInv

\* Before the thread is started, and from Stop() to the next StartThread().  Callers
\* whose calls Stop() has overtaken go on, but take and release no more than one
\* mutex each, and a round of events in which Stop() was called is not over.
Halted ==
  /\ ~threaded /\ TypeOK
  /\ ~started /\ ~controller /\ ~cue /\ ~seen
  /\ \A t \in Callers : WellNested(todo[t]) /\ (At(t, "lockSignal") => master = t)
  /\ master # None => suspend = master
  /\ master = None => suspendCount = 0 /\ signalCount = 0
  /\ pc \in {"off", "dispatch", "exit"} /\ (pc = "dispatch" => ~run)
  /\ Ctl # None => useLockA /\ lockA
  /\ ~Stoppable => pc = "off" /\ master = None /\ \A t \in Callers : Idle(t)

IInv == Running \/ Halted

-----------------------------------------------------------------------------
\* What a step does to the steps that are left.

\* What holds of a caller that is in a method.
LEMMA Ahead ==
  ASSUME NEW s, WellNested(s), s # <<>>
  PROVE  /\ s \in Seq(Steps) /\ Head(s) \in Steps /\ Head(s) = s[1]
         /\ Steady(Tail(s))
         /\ Fits(s) /\ Fits(Tail(s)) /\ WellNested(Tail(s))
         /\ Suspended(s) = Suspended(Tail(s)) + SuspendStep(Head(s))
         /\ Signalled(s) = Signalled(Tail(s)) + SignalStep(Head(s))
<1>1. s \in Seq(Steps) /\ Fits(s)
  BY FitsAtOnce DEF WellNested
<1>2. /\ Head(s) \in Steps /\ Tail(s) \in Seq(Steps)
      /\ s = <<Head(s)>> \o Tail(s)
  BY <1>1, HeadAndTail
<1>3. WellNested(Tail(s)) /\ Fits(Tail(s))
  BY TailNested, FitsAtOnce
<1>4. Head(s) = s[1]
  BY <1>1
<1>7. Steady(Tail(s))
  <2>1. /\ Len(s) \in Nat /\ Len(Tail(s)) = Len(s) - 1
        /\ \A i \in 1..Len(Tail(s)) : Tail(s)[i] = s[i + 1]
    BY <1>1, HeadTailProperties, LenProperties
  <2>2. ASSUME Tail(s) # <<>> PROVE Len(s) >= 2 /\ Tail(s)[1] = s[1 + 1]
    <3>1. 1 \in 1..Len(Tail(s))
      BY <2>1, <2>2, <1>2, EmptySeq
    <3> QED
      BY <2>1, <3>1
  <2> QED
    BY <2>2, <1>1, <1>3 DEF Fits, Steady
<1> DEFINE c == <<Head(s)>> \o Tail(s)
<1>5. /\ Suspended(c) = Suspended(Tail(s)) + SuspendStep(Head(s))
      /\ Signalled(c) = Signalled(Tail(s)) + SignalStep(Head(s))
  BY <1>2, NestingPrepended
<1>6. c = s
  BY <1>2
<1> HIDE DEF c
<1> QED
  BY <1>1, <1>2, <1>3, <1>4, <1>5, <1>6, <1>7

\* SuspendThread() that has to wait, SignalThread() that has to, and the join.
LEMMA SwappedNested ==
  ASSUME NEW s, WellNested(s), s # <<>>, NEW x,
         \/ Head(s) \in {"suspend", "awaitStart"} /\ Suspended(s) = 0
            /\ x \in {"awaitStart", "lockSuspend"}
         \/ Head(s) \in {"interrupt", "interruptOrFail"} /\ Signalled(s) = 0
            /\ x = "lockSignal"
         \/ Head(s) = "join" /\ x = "await"
  PROVE  LET q == <<x>> \o Tail(s)
         IN  WellNested(q) /\ Suspended(q) = Suspended(s) /\ Signalled(q) = Signalled(s)
<1>1. /\ Head(s) \in Steps /\ Steady(Tail(s)) /\ Fits(s)
      /\ Suspended(s) = Suspended(Tail(s)) + SuspendStep(Head(s))
      /\ Signalled(s) = Signalled(Tail(s)) + SignalStep(Head(s))
  BY Ahead
<1>2. /\ x \in Steps /\ (x \in StopSteps => Stoppable)
      /\ x \notin {"change", "interruptOrFail", "dispatch"}
      /\ SuspendStep(x) = SuspendStep(Head(s)) /\ SignalStep(x) = SignalStep(Head(s))
  BY <1>1 DEF Steps, StopSteps, SuspendStep, SignalStep, Fits
<1>3. /\ Suspended(s) \in 0..3 /\ Signalled(s) \in 0..2 /\ Signalled(s) <= Suspended(s)
      /\ x \in InnerSteps => Suspended(s) >= 1
  BY <1>1 DEF Fits, InnerSteps
<1> DEFINE r == Tail(s)
<1> HIDE DEF r
<1>4. LET q == <<x>> \o r
      IN  /\ WellNested(q) /\ Suspended(q) = Suspended(r) + SuspendStep(x)
          /\ Signalled(q) = Signalled(r) + SignalStep(x)
  BY <1>1, <1>2, <1>3, AnyStepBefore DEF r
<1> QED
  BY <1>1, <1>2, <1>4 DEF r

\* A SetBreak() that fails: PromptThread() resumes the thread, and skips the rest.
LEMMA FailedNested ==
  ASSUME NEW s, WellNested(s), s # <<>>, Head(s) = "interruptOrFail"
  PROVE  LET q == Tail(Tail(s))
         IN  /\ <<"resume">> \o SubSeq(s, 4, Len(s)) = q
             /\ Len(s) >= 3 /\ Tail(s) # <<>> /\ Head(Tail(s)) = "unsignal"
             /\ WellNested(q) /\ Suspended(q) = Suspended(s) /\ Signalled(q) = Signalled(s)
<1> DEFINE r == Tail(s)
           q == Tail(r)
           v == SubSeq(s, 4, Len(s))
           c == <<"resume">> \o v
<1> SUFFICES /\ c = q /\ Len(s) >= 3 /\ r # <<>> /\ Head(r) = "unsignal"
             /\ WellNested(q) /\ Suspended(q) = Suspended(s) /\ Signalled(q) = Signalled(s)
  OBVIOUS
<1> HIDE DEF v, c
<1>1. /\ s \in Seq(Steps) /\ WellNested(r) /\ Len(s) >= 3 /\ s[2] = "unsignal" /\ s[3] = "resume"
      /\ Suspended(s) = Suspended(r) + 0 /\ Signalled(s) = Signalled(r) - 1
  BY Ahead DEF Fits, SuspendStep, SignalStep
<1>2. /\ r \in Seq(Steps) /\ Len(s) \in Nat /\ Len(r) = Len(s) - 1
      /\ \A i \in 1..Len(r) : r[i] = s[i + 1]
  BY <1>1, HeadTailProperties, LenProperties
<1> HIDE DEF r
<1>3. r # <<>> /\ Head(r) = r[1] /\ r[1] = "unsignal" /\ r[2] = "resume"
  <2>1. 1 \in 1..Len(r) /\ 2 \in 1..Len(r)
    BY <1>1, <1>2
  <2>2. r[1] = s[1 + 1] /\ r[2] = s[2 + 1]
    BY <2>1, <1>2
  <2>3. r # <<>>
    BY <2>1, <1>2, EmptySeq
  <2> QED
    BY <1>1, <1>2, <2>2, <2>3
<1>4. /\ WellNested(q) /\ Suspended(r) = Suspended(q) + 0 /\ Signalled(r) = Signalled(q) + 1
  BY <1>1, <1>3, Ahead DEF SuspendStep, SignalStep
<1>5. Suspended(q) \in 0..3 /\ Signalled(q) \in 0..2
  BY <1>4, FitsAtOnce DEF Fits
<1>6. /\ q \in Seq(Steps) /\ Len(q) = Len(s) - 2
      /\ \A i \in 1..Len(q) : q[i] = r[i + 1]
  BY <1>2, <1>3, HeadTailProperties
<1> HIDE DEF q
<1>7. /\ v \in Seq(Steps) /\ Len(v) = Len(s) - 3
      /\ \A i \in 1..Len(s) - 3 : v[i] = s[i + 3]
  <2>1. \A i \in 4..Len(s) : s[i] \in Steps
    BY <1>1, <1>2, ElementOfSeq
  <2>2. /\ v \in Seq(Steps) /\ Len(v) = IF 4 <= Len(s) THEN Len(s) - 4 + 1 ELSE 0
        /\ \A i \in 1..Len(s) - 4 + 1 : v[i] = s[4 + i - 1]
    BY <2>1, <1>2, SubSeqProperties DEF v
  <2>3. ASSUME NEW i \in 1..Len(s) - 3 PROVE v[i] = s[i + 3]
    <3>1. 4 + i - 1 = i + 3 /\ i \in 1..Len(s) - 4 + 1
      BY <1>2
    <3> QED  BY <3>1, <2>2
  <2> QED
    BY <1>1, <1>2, <2>2, <2>3
<1>8. /\ c \in Seq(Steps) /\ Len(c) = Len(s) - 2 /\ c[1] = "resume"
      /\ \A i \in 1..Len(v) : c[i + 1] = v[i]
  BY <1>2, <1>7, Prepended DEF Steps, c
<1>9. \A i \in 1..Len(c) : c[i] = q[i]
  <2> TAKE i \in 1..Len(c)
  <2>1. i \in 1..Len(q) /\ i + 1 \in 1..Len(r) /\ q[i] = r[i + 1] /\ r[i + 1] = s[i + 1 + 1]
    BY <1>2, <1>6, <1>8
  <2>2. CASE i = 1
    BY <2>1, <2>2, <1>1, <1>3, <1>8
  <2>3. CASE i # 1
    <3>1. i - 1 \in 1..Len(v) /\ (i - 1) + 1 = i /\ (i - 1) + 3 = i + 1 + 1
      BY <2>3, <1>2, <1>7, <1>8
    <3>2. c[(i - 1) + 1] = v[i - 1] /\ v[i - 1] = s[(i - 1) + 3]
      BY <3>1, <1>7, <1>8
    <3> QED  BY <2>1, <3>1, <3>2
  <2> QED  BY <2>2, <2>3
<1>10. c = q
  BY <1>6, <1>8, <1>9, SeqEqual
<1> QED
  BY <1>1, <1>3, <1>4, <1>5, <1>10

LEMMA TailPlain ==
  ASSUME NEW s \in Seq(Steps), s # <<>>, Plain(s)
  PROVE  Plain(Tail(s)) /\ Head(s) \notin CtlSteps
<1>1. /\ Len(Tail(s)) = Len(s) - 1 /\ Len(s) \in Nat \ {0}
      /\ \A i \in 1..Len(Tail(s)) : Tail(s)[i] = s[i + 1]
  BY HeadTailProperties, EmptySeq
<1>2. \A i \in 1..Len(s) - 1 : i + 1 \in 1..Len(s)
  BY <1>1
<1> QED
  BY <1>1, <1>2 DEF Plain

LEMMA PrependedPlain ==
  ASSUME NEW s \in Seq(Steps), Plain(s), NEW x \in Steps \ CtlSteps
  PROVE  Plain(<<x>> \o s)
<1> DEFINE c == <<x>> \o s
<1>1. /\ Len(c) = Len(s) + 1 /\ Len(s) \in Nat /\ c[1] = x
      /\ \A i \in 1..Len(s) : c[i + 1] = s[i]
  BY Prepended
<1> HIDE DEF c
<1>2. ASSUME NEW i \in 1..Len(c) PROVE c[i] \notin CtlSteps
  <2>1. CASE i = 1
    BY <2>1, <1>1
  <2>2. CASE i # 1
    <3>1. i - 1 \in 1..Len(s) /\ (i - 1) + 1 = i
      BY <2>2, <1>1
    <3> QED  BY <3>1, <1>1 DEF Plain
  <2> QED  BY <2>1, <2>2
<1> QED
  BY <1>2 DEF Plain, c

LEMMA TailHanding ==
  ASSUME NEW s \in Seq(Steps), Handing(s)
  PROVE  /\ s # <<>>
         /\ Head(s) # "hand" => Handing(Tail(s)) /\ Head(s) \notin CtlSteps \ {"dispatch"}
         /\ Head(s) = "hand" => Tail(s) = <<"resume">>
<1> DEFINE r == Tail(s)
<1>1. s # <<>>
  BY EmptySeq DEF Handing
<1>2. /\ r \in Seq(Steps) /\ Len(r) = Len(s) - 1 /\ Len(s) \in Nat /\ Head(s) = s[1]
      /\ \A i \in 1..Len(r) : r[i] = s[i + 1]
  BY <1>1, HeadTailProperties, LenProperties
<1> HIDE DEF r
<1>3. ASSUME Len(s) = 2 PROVE Head(s) = "hand" /\ r = <<"resume">>
  <2>1. Head(s) = "hand" /\ Len(r) = 1 /\ r[1] = s[1 + 1] /\ s[2] = "resume"
    BY <1>2, <1>3 DEF Handing
  <2>2. /\ <<"resume">> \in Seq(Steps) /\ Len(<<"resume">>) = 1 /\ <<"resume">>[1] = "resume"
    BY DEF Steps
  <2> DEFINE q == <<"resume">>
  <2> HIDE DEF q
  <2>3. r = q
    BY <2>1, <2>2, <1>2, SeqEqual DEF q
  <2> QED  BY <2>1, <2>3 DEF q
<1>4. ASSUME Len(s) >= 3 PROVE Handing(r) /\ Head(s) \notin CtlSteps \ {"dispatch"}
  <2>1. 1 \in 1..Len(s) - 2 /\ Len(s) - 1 \in 1..Len(r) /\ Len(s) - 2 \in 1..Len(r)
    BY <1>2, <1>4
  <2>2. r[Len(s) - 1] = s[(Len(s) - 1) + 1] /\ r[Len(s) - 2] = s[(Len(s) - 2) + 1]
    BY <2>1, <1>2
  <2>3. \A i \in 1..Len(r) - 2 : i \in 1..Len(r) /\ i + 1 \in 1..Len(s) - 2
    BY <1>2
  <2>4. s[Len(s) - 1] = "hand" /\ s[Len(s)] = "resume" /\ \A i \in 1..Len(s) - 2 : s[i] \notin CtlSteps \ {"dispatch"}
    BY DEF Handing
  <2>5. Head(s) \notin CtlSteps \ {"dispatch"}
    BY <1>2, <2>1, <2>4
  <2>6. r[Len(r)] = "resume" /\ r[Len(r) - 1] = "hand" /\ Len(r) >= 2
    <3>1. (Len(s) - 1) + 1 = Len(s) /\ (Len(s) - 2) + 1 = Len(s) - 1 /\ Len(r) - 1 = Len(s) - 2
      BY <1>2
    <3> QED  BY <1>2, <1>4, <2>2, <2>4, <3>1
  <2>7. \A i \in 1..Len(r) - 2 : r[i] \notin CtlSteps \ {"dispatch"}
    BY <1>2, <2>3, <2>4
  <2> QED
    BY <2>5, <2>6, <2>7 DEF Handing
<1>5. "hand" \in CtlSteps \ {"dispatch"}
  BY DEF CtlSteps
<1> QED
  BY <1>1, <1>2, <1>3, <1>4, <1>5 DEF r, Handing

LEMMA PrependedHanding ==
  ASSUME NEW s \in Seq(Steps), Handing(s), NEW x \in Steps, x \notin CtlSteps \ {"dispatch"}
  PROVE  Handing(<<x>> \o s)
<1> DEFINE c == <<x>> \o s
<1>1. /\ Len(c) = Len(s) + 1 /\ Len(s) \in Nat /\ c[1] = x
      /\ \A i \in 1..Len(s) : c[i + 1] = s[i]
  BY Prepended
<1> HIDE DEF c
<1>2. Len(c) >= 2 /\ c[Len(c) - 1] = "hand" /\ c[Len(c)] = "resume"
  <2>1. Len(s) - 1 \in 1..Len(s) /\ Len(s) \in 1..Len(s)
    BY <1>1 DEF Handing
  <2>2. c[(Len(s) - 1) + 1] = s[Len(s) - 1] /\ c[Len(s) + 1] = s[Len(s)]
    BY <2>1, <1>1
  <2> QED
    BY <1>1, <2>2 DEF Handing
<1>3. ASSUME NEW i \in 1..Len(c) - 2 PROVE c[i] \notin CtlSteps \ {"dispatch"}
  <2>1. CASE i = 1
    BY <2>1, <1>1
  <2>2. CASE i # 1
    <3>1. i - 1 \in 1..Len(s) /\ i - 1 \in 1..Len(s) - 2 /\ (i - 1) + 1 = i
      BY <2>2, <1>1
    <3> QED  BY <3>1, <1>1 DEF Handing
  <2> QED  BY <2>1, <2>2
<1>4. Handing(c)
  BY <1>2, <1>3 DEF Handing
<1> QED
  BY <1>4 DEF c

LEMMA ConcatPlain ==
  ASSUME NEW s \in Seq(Steps), NEW v \in Seq(Steps), Plain(s)
  PROVE  /\ Plain(v) => Plain(s \o v)
         /\ Handing(v) => Handing(s \o v)
<1> DEFINE c == s \o v
<1>1. /\ Len(c) = Len(s) + Len(v) /\ Len(s) \in Nat /\ Len(v) \in Nat
      /\ \A i \in 1..Len(s) + Len(v) : c[i] = IF i <= Len(s) THEN s[i] ELSE v[i - Len(s)]
  BY ConcatProperties, LenProperties
<1> HIDE DEF c
<1>2. ASSUME NEW i \in 1..Len(c) PROVE i <= Len(s) \/ i - Len(s) \in 1..Len(v)
  BY <1>1
<1>3. Plain(v) => Plain(c)
  BY <1>1, <1>2 DEF Plain
<1>4. ASSUME Handing(v) PROVE Handing(c)
  <2>1. Len(v) >= 2 /\ v[Len(v) - 1] = "hand" /\ v[Len(v)] = "resume"
    BY <1>4 DEF Handing
  <2>2. /\ c[Len(c) - 1] = v[(Len(c) - 1) - Len(s)] /\ c[Len(c)] = v[Len(c) - Len(s)]
        /\ (Len(c) - 1) - Len(s) = Len(v) - 1 /\ Len(c) - Len(s) = Len(v)
    <3>1. /\ Len(c) - 1 \in 1..Len(s) + Len(v) /\ Len(c) \in 1..Len(s) + Len(v)
          /\ ~(Len(c) - 1 <= Len(s)) /\ ~(Len(c) <= Len(s))
      BY <1>1, <2>1
    <3>2. c[Len(c) - 1] = v[(Len(c) - 1) - Len(s)] /\ c[Len(c)] = v[Len(c) - Len(s)]
      BY <1>1, <3>1
    <3>3. (Len(c) - 1) - Len(s) = Len(v) - 1 /\ Len(c) - Len(s) = Len(v)
      BY <1>1
    <3> QED  BY <3>2, <3>3
  <2>3. ASSUME NEW i \in 1..Len(c) - 2 PROVE c[i] \notin CtlSteps \ {"dispatch"}
    <3>1. CASE i <= Len(s)
      BY <3>1, <1>1 DEF Plain
    <3>2. CASE i > Len(s)
      <4>1. i - Len(s) \in 1..Len(v) - 2 /\ c[i] = v[i - Len(s)]
        BY <3>2, <1>1
      <4> QED  BY <4>1, <1>4 DEF Handing
    <3> QED  BY <3>1, <3>2, <1>1
  <2> QED
    BY <1>1, <2>1, <2>2, <2>3 DEF Handing
<1> QED
  BY <1>3, <1>4 DEF c

LEMMA BodyPlain ==
  ASSUME NEW call \in {"change", "guarded", "streams", "signalled", "prompt", "stop"}
  PROVE  Plain(Body(call)) /\ Body(call) \in Seq(Steps)
<1>1. /\ Signal \in Seq(Steps) /\ Unsignal \in Seq(Steps) /\ <<"resume">> \in Seq(Steps)
      /\ <<"suspend", "change">> \in Seq(Steps) /\ <<"suspend">> \in Seq(Steps)
      /\ <<"suspend", "prompt", "suspend", "interruptOrFail">> \in Seq(Steps)
      /\ <<"streams">> \in Seq(Steps) /\ <<"unhook">> \in Seq(Steps)
      /\ <<"halt">> \in Seq(Steps) /\ <<"join">> \in Seq(Steps)
  BY DEF Signal, Unsignal, Steps
<1>2. /\ Plain(Signal) /\ Plain(Unsignal) /\ Plain(<<"resume">>)
      /\ Plain(<<"suspend", "change">>) /\ Plain(<<"suspend">>)
      /\ Plain(<<"suspend", "prompt", "suspend", "interruptOrFail">>)
      /\ Plain(<<"streams">>) /\ Plain(<<"unhook">>) /\ Plain(<<"halt">>) /\ Plain(<<"join">>)
  BY DEF Plain, CtlSteps, Signal, Unsignal
<1> DEFINE both(s) == Plain(s) /\ s \in Seq(Steps)
<1>3. ASSUME NEW s, NEW v, both(s), both(v) PROVE both(s \o v)
  BY <1>3, ConcatPlain, ConcatProperties
<1>4. /\ both(Signal) /\ both(Unsignal) /\ both(<<"resume">>)
      /\ both(<<"suspend", "change">>) /\ both(<<"suspend">>) /\ both(<<"streams">>)
      /\ both(<<"suspend", "prompt", "suspend", "interruptOrFail">>)
      /\ both(<<"unhook">>) /\ both(<<"halt">>) /\ both(<<"join">>)
  BY <1>1, <1>2
<1> HIDE DEF both
<1>5. both(ChangeTimers) /\ both(PromptThread) /\ both(ChangeStreams) /\ both(Stop)
  BY <1>3, <1>4 DEF ChangeTimers, PromptThread, ChangeStreams, Stop
<1>6. both(Body(call))
  BY <1>3, <1>4, <1>5 DEF Body
<1> QED
  BY <1>6 DEF both

\* A caller's step, apart from those of the Controller's round, takes s to q.
Advances(s, q) ==
  /\ s # <<>> /\ Head(s) \notin CtlSteps
  /\ \/ q = Tail(s)
     \/ /\ Head(s) \in {"suspend", "awaitStart", "interrupt", "interruptOrFail", "join"}
        /\ \E x \in {"awaitStart", "lockSuspend", "lockSignal", "await"} : q = <<x>> \o Tail(s)
     \/ Head(s) = "interruptOrFail" /\ q = Tail(Tail(s))

LEMMA AdvancesKeeps ==
  ASSUME NEW s, WellNested(s), NEW q, Advances(s, q)
  PROVE  /\ Plain(s) => Plain(q)
         /\ Handing(s) => Handing(q)
         /\ s = <<"resume">> => q = <<>>
<1>1. /\ s \in Seq(Steps) /\ s # <<>> /\ Head(s) \notin CtlSteps /\ WellNested(Tail(s))
      /\ Tail(s) \in Seq(Steps)
  BY Ahead DEF Advances, WellNested
<1> DEFINE r == Tail(s)
<1>2. /\ Plain(s) => Plain(r)
      /\ Handing(s) => Handing(r)
  BY <1>1, TailPlain, TailHanding DEF CtlSteps
<1>3. s = <<"resume">> => Tail(s) = <<>> /\ Head(s) = "resume"
  OBVIOUS
<1>4. CASE q = r
  BY <1>2, <1>3, <1>4
<1>5. CASE /\ Head(s) \in {"suspend", "awaitStart", "interrupt", "interruptOrFail", "join"}
           /\ \E x \in {"awaitStart", "lockSuspend", "lockSignal", "await"} : q = <<x>> \o r
  <2> HIDE DEF r
  <2>1. PICK x \in {"awaitStart", "lockSuspend", "lockSignal", "await"} : q = <<x>> \o r
    BY <1>5
  <2>2. x \in Steps \ CtlSteps
    BY DEF Steps, CtlSteps
  <2>3. r \in Seq(Steps)
    BY <1>1 DEF r
  <2> QED
    BY <1>2, <1>3, <1>5, <2>1, <2>2, <2>3, PrependedPlain, PrependedHanding
<1>6. CASE Head(s) = "interruptOrFail" /\ q = Tail(r)
  <2>1. r # <<>> /\ Head(r) = "unsignal"
    BY <1>1, <1>6, FailedNested
  <2> HIDE DEF r
  <2>2. r \in Seq(Steps)
    BY <1>1 DEF r
  <2> QED
    BY <1>2, <1>3, <1>6, <2>1, <2>2, TailPlain, TailHanding
<1> QED
  BY <1>4, <1>5, <1>6 DEF Advances

-----------------------------------------------------------------------------
\* The steps of the callers.

\* The mutexes and the counts after a step of caller t, to which q is left.
OwnersAfter(t, q) ==
  /\ suspend' = suspend \/ {suspend, suspend'} \subseteq {t, None}
  /\ master' = master \/ {master, master'} \subseteq {t, None}
  /\ signal' = signal \/ {signal, signal'} \subseteq {t, None}
  /\ suspend' = t <=> Suspended(q) > 0
  /\ master' = t <=> Suspended(q) > 0
  /\ signal' = t <=> Signalled(q) > 0
  /\ master' = t => suspendCount' = Suspended(q) /\ signalCount' = Signalled(q)
  /\ master' # t => IF master = t THEN suspendCount' = 0 /\ signalCount' = 0
                                  ELSE UNCHANGED <<suspendCount, signalCount>>

LEMMA OwnersKept ==
  ASSUME Managed, TypeOK, OwnersInv, NEW t \in Callers, NEW q, WellNested(q),
         todo' = [todo EXCEPT ![t] = q], pc' = pc, OwnersAfter(t, q)
  PROVE  OwnersInv'
<1>1. t # None /\ t # Worker /\ None # Worker
  BY DEF Managed, ThreadAssumption
<1>2. todo'[t] = q /\ \A u \in Callers \ {t} : todo'[u] = todo[u]
  BY DEF TypeOK
<1>3. ASSUME NEW u \in Callers
      PROVE  /\ WellNested(todo'[u])
             /\ suspend' = u <=> Suspended(todo'[u]) > 0
             /\ master' = u <=> Suspended(todo'[u]) > 0
             /\ signal' = u <=> Signalled(todo'[u]) > 0
  <2>1. CASE u = t
    BY <2>1, <1>2 DEF OwnersAfter
  <2>2. CASE u # t
    <3>1. /\ WellNested(todo[u])
          /\ suspend = u <=> Suspended(todo[u]) > 0
          /\ master = u <=> Suspended(todo[u]) > 0
          /\ signal = u <=> Signalled(todo[u]) > 0
      BY DEF OwnersInv, Suspensions, Signals
    <3>2. u # None
      BY DEF Managed, ThreadAssumption
    <3>3. /\ suspend' = u <=> suspend = u
          /\ master' = u <=> master = u
          /\ signal' = u <=> signal = u
      BY <2>2, <3>2 DEF OwnersAfter
    <3> QED
      BY <2>2, <1>2, <3>1, <3>3
  <2> QED  BY <2>1, <2>2
<1>4. master' \in Callers \cup {None}
  BY DEF OwnersAfter, TypeOK
<1>5. ASSUME master' # None
      PROVE  suspendCount' = Suspended(todo'[master']) /\ signalCount' = Signalled(todo'[master'])
  <2>1. CASE master' = t
    BY <2>1, <1>2 DEF OwnersAfter
  <2>2. CASE master' # t
    <3>1. master' = master /\ master # t
      BY <2>2, <1>5 DEF OwnersAfter
    <3>2. suspendCount = Suspended(todo[master]) /\ signalCount = Signalled(todo[master])
      BY <3>1, <1>5 DEF OwnersInv, Suspensions, Signals
    <3> QED
      BY <3>1, <3>2, <2>2, <1>2, <1>4, <1>5 DEF OwnersAfter
  <2> QED  BY <2>1, <2>2
<1>6. ASSUME master' = None PROVE suspendCount' = 0 /\ signalCount' = 0
  BY <1>1, <1>6 DEF OwnersInv, OwnersAfter
<1>7. /\ suspend' = Worker <=> suspend = Worker
      /\ signal' = Worker <=> signal = Worker
  BY <1>1 DEF OwnersAfter
<1> QED
  BY <1>3, <1>5, <1>6, <1>7 DEF OwnersInv, Suspensions, Signals

\* The type invariant, variable by variable, before a step and after it.
LEMMA Typed ==
  ASSUME TypeOK
  PROVE  /\ threaded \in BOOLEAN /\ started \in BOOLEAN /\ run \in BOOLEAN
         /\ broken \in BOOLEAN /\ seen \in BOOLEAN
         /\ stale \in BOOLEAN /\ promptSet \in BOOLEAN
         /\ controller \in BOOLEAN /\ lockA \in BOOLEAN /\ lockB \in BOOLEAN
         /\ useLockA \in BOOLEAN /\ cue \in BOOLEAN
         /\ starts \in 0..MaxStarts
         /\ suspend \in Callers \cup {Worker, None} /\ signal \in Callers \cup {Worker, None}
         /\ master \in Callers \cup {None}
         /\ suspendCount \in 0..CountMax /\ signalCount \in 0..CountMax
         /\ todo \in [Callers -> Seq(Steps)]
  BY DEF TypeOK

LEMMA TypedAfter ==
  ASSUME threaded' \in BOOLEAN, started' \in BOOLEAN, run' \in BOOLEAN,
         broken' \in BOOLEAN, seen' \in BOOLEAN, stale' \in BOOLEAN, promptSet' \in BOOLEAN,
         controller' \in BOOLEAN, lockA' \in BOOLEAN, lockB' \in BOOLEAN,
         useLockA' \in BOOLEAN, cue' \in BOOLEAN,
         starts' \in 0..MaxStarts,
         suspend' \in Callers \cup {Worker, None}, signal' \in Callers \cup {Worker, None},
         master' \in Callers \cup {None},
         suspendCount' \in 0..CountMax, signalCount' \in 0..CountMax,
         UNCHANGED pc, TypeOK,
         todo' \in [Callers -> Seq(Steps)]
  PROVE  TypeOK'
  BY DEF TypeOK

LEMMA RoundsKept ==
  ASSUME Managed, TypeOK, OwnersInv, RoundsInv, NEW t \in Callers, NEW q,
         WellNested(q), Advances(todo[t], q),
         todo' = [todo EXCEPT ![t] = q], UNCHANGED <<turns, pc>>
  PROVE  RoundsInv'
<1>1. todo'[t] = q /\ \A u \in Callers \ {t} : todo'[u] = todo[u]
  BY DEF TypeOK
<1>2. /\ WellNested(todo[t]) /\ todo[t] # <<>> /\ Head(todo[t]) \notin CtlSteps
  BY DEF OwnersInv, Advances
<1>3. /\ Plain(todo[t]) => Plain(q)
      /\ Handing(todo[t]) => Handing(q)
      /\ todo[t] = <<"resume">> => q = <<>>
  BY <1>2, AdvancesKeeps
<1>4. \A u \in Callers : u # Ctl \/ ~controller' => Plain(todo'[u])
  BY <1>1, <1>3 DEF RoundsInv, turns
<1>5. ASSUME controller, t = Ctl
      PROVE  IF pc = "turn" THEN TurnInv' ELSE RestInv'
  <2>1. todo[Ctl] # Passing /\ todo[Ctl] # Tail(Passing) /\ todo[Ctl] # <<>>
    BY <1>2, <1>5 DEF Passing, CtlSteps
  <2>2. CASE pc = "turn"
    <3>1. TurnInv
      BY <1>5, <2>2 DEF RoundsInv
    <3> QED
      BY <3>1, <2>1, <2>2, <1>1, <1>3, <1>5 DEF TurnInv, Given, Awaited, turns
  <2>3. CASE pc # "turn"
    <3>1. RestInv
      BY <1>5, <2>3 DEF RoundsInv
    <3> QED
      BY <3>1, <2>1, <2>3, <1>1, <1>3, <1>5 DEF RestInv, Given, Awaited, turns
  <2> QED  BY <2>2, <2>3
<1>6. ASSUME controller, t # Ctl
      PROVE  IF pc = "turn" THEN TurnInv' ELSE RestInv'
  <2>1. Ctl \in Callers /\ todo'[Ctl] = todo[Ctl]
    BY <1>1, <1>6 DEF RoundsInv, Managed, ThreadAssumption
  <2> QED
    BY <2>1, <1>6 DEF RoundsInv, TurnInv, RestInv, Given, Awaited, Passing, turns
<1> QED
  BY <1>4, <1>5, <1>6 DEF RoundsInv, turns

LEMMA CallerKept ==
  ASSUME Managed, Running, NEW t \in Callers, NEW q, WellNested(q), Advances(todo[t], q),
         todo' = [todo EXCEPT ![t] = q], UNCHANGED <<threaded, started, starts, turns, pc, seen>>,
         run' \in {run, FALSE},
         stale' \in BOOLEAN, promptSet' \in BOOLEAN, broken' \in {broken, TRUE},
         OwnersAfter(t, q),
         pc \in {"open", "wait"} /\ stale' /\ ~broken' =>
           \/ stale /\ ~(Suspended(todo[t]) > 0 /\ Waking(todo[t]))
           \/ Suspended(q) > 0 /\ Waking(q)
  PROVE  Running'
<1> USE DEF Running
<1>1. OwnersInv'
  BY OwnersKept
<1>2. RoundsInv'
  BY RoundsKept
<1>3. todo'[t] = q /\ \A u \in Callers \ {t} : todo'[u] = todo[u]
  BY DEF TypeOK
<1>4. threaded' /\ SeenInv'
  BY DEF SeenInv
<1>5. TypeOK'
  <2>1. suspendCount' \in 0..3 /\ signalCount' \in 0..2
    <3>1. CASE master' = None
      BY <3>1, <1>1 DEF OwnersInv
    <3>2. CASE master' # None
      <4>1. master' \in Callers
        BY <3>2 DEF TypeOK, OwnersAfter
      <4>2. Fits(todo'[master'])
        BY <4>1, <1>1, FitsAtOnce DEF OwnersInv
      <4> QED
        BY <4>2, <3>2, <1>1 DEF OwnersInv, Fits, Suspensions, Signals
    <3> QED  BY <3>1, <3>2
  <2>2. suspendCount' \in 0..CountMax /\ signalCount' \in 0..CountMax
    BY <2>1 DEF Managed, ThreadAssumption
  <2>3. todo' \in [Callers -> Seq(Steps)]
    BY DEF TypeOK, WellNested
  <2>4. /\ suspend' \in Callers \cup {Worker, None} /\ signal' \in Callers \cup {Worker, None}
        /\ master' \in Callers \cup {None}
    BY Typed DEF OwnersAfter
  <2>5. broken' \in BOOLEAN /\ run' \in BOOLEAN
    BY Typed
  <2>6. /\ threaded' = threaded /\ started' = started /\ starts' = starts /\ seen' = seen
        /\ controller' = controller /\ lockA' = lockA /\ lockB' = lockB
        /\ useLockA' = useLockA /\ cue' = cue /\ UNCHANGED pc
    BY DEF turns
  <2> QED
    BY <2>2, <2>3, <2>4, <2>5, <2>6, Typed, TypedAfter
<1>6. ResetFinds'
  BY DEF ResetFinds
<1>7. WakingInv'
  <2> SUFFICES ASSUME pc \in {"open", "wait"}, stale', ~broken'
               PROVE  \E u \in Callers : Suspended(todo'[u]) > 0 /\ Waking(todo'[u])
    BY DEF WakingInv, Suspensions
  <2>1. CASE Suspended(q) > 0 /\ Waking(q)
    BY <2>1, <1>3
  <2>2. CASE stale /\ ~(Suspended(todo[t]) > 0 /\ Waking(todo[t]))
    <3>1. ~broken
      OBVIOUS
    <3>2. PICK u \in Callers : Suspended(todo[u]) > 0 /\ Waking(todo[u])
      BY <2>2, <3>1 DEF WakingInv, Suspensions
    <3> QED
      BY <2>2, <3>2, <1>3
  <2> QED  BY <2>1, <2>2
<1> QED
  BY <1>1, <1>2, <1>4, <1>5, <1>6, <1>7

\* What is known of a caller that is in a method, and of the mutexes.
LEMMA CallerFacts ==
  ASSUME Managed, Running, NEW t \in Callers, todo[t] # <<>>
  PROVE  LET s == todo[t]
             r == Tail(s)
         IN  /\ threaded /\ t # None /\ t # Worker /\ Worker # None
             /\ WellNested(s) /\ WellNested(r) /\ s \in Seq(Steps) /\ Head(s) = s[1]
             /\ Head(s) \in Steps
             /\ Suspended(s) = Suspended(r) + SuspendStep(Head(s))
             /\ Signalled(s) = Signalled(r) + SignalStep(Head(s))
             /\ Suspended(s) \in 0..3 /\ Signalled(s) \in 0..2
             /\ Suspended(r) \in 0..3 /\ Signalled(r) \in 0..2 /\ Signalled(s) <= Suspended(s)
             /\ Head(s) \in InnerSteps => Suspended(s) >= 1
             /\ suspend = t <=> Suspended(s) > 0
             /\ master = t <=> Suspended(s) > 0
             /\ signal = t <=> Signalled(s) > 0
             /\ master = t => suspendCount = Suspended(s) /\ signalCount = Signalled(s)
             /\ master = None => suspendCount = 0 /\ signalCount = 0
<1> USE DEF Running
<1>1. WellNested(todo[t])
  BY DEF OwnersInv
<1>2. threaded
  OBVIOUS
<1>3. t # None /\ t # Worker /\ Worker # None
  BY DEF Managed, ThreadAssumption
<1>4. /\ Fits(todo[t]) /\ Fits(Tail(todo[t])) /\ WellNested(Tail(todo[t]))
      /\ todo[t] \in Seq(Steps) /\ Head(todo[t]) = todo[t][1]
      /\ Head(todo[t]) \in Steps
      /\ Suspended(todo[t]) = Suspended(Tail(todo[t])) + SuspendStep(Head(todo[t]))
      /\ Signalled(todo[t]) = Signalled(Tail(todo[t])) + SignalStep(Head(todo[t]))
  BY <1>1, Ahead
<1> QED
  BY <1>1, <1>2, <1>3, <1>4 DEF Fits, OwnersInv, Suspensions, Signals

\* A step that is done leaves the rest.
LEMMA DoneLeaves ==
  ASSUME NEW t \in Callers, todo \in [Callers -> Seq(Steps)], todo[t] # <<>>, Done(t)
  PROVE  todo' = [todo EXCEPT ![t] = Tail(todo[t])]
<1>1. Tail(todo[t]) \in Seq(Steps)
  BY HeadTailProperties
<1>2. <<>> \o Tail(todo[t]) = Tail(todo[t])
  BY <1>1, ConcatEmptySeq
<1> QED
  BY <1>2 DEF Done, Replace

\* The first SuspendThread() of a caller waits for the thread to have started, any
\* other only counts.
LEMMA SuspendKeeps ==
  ASSUME Managed, Running, NEW t \in Callers, Suspend(t)
  PROVE  Running'
<1> DEFINE s == todo[t]
           r == Tail(s)
<1>1. s # <<>> /\ Head(s) = "suspend" /\ todo \in [Callers -> Seq(Steps)]
  BY DEF Suspend, At, Running, TypeOK
<1>2. /\ threaded /\ t # None /\ t # Worker /\ Worker # None
      /\ WellNested(s) /\ WellNested(r) /\ s \in Seq(Steps) /\ Head(s) = s[1]
      /\ Suspended(s) = Suspended(r) - 1 /\ Signalled(s) = Signalled(r) + 0
      /\ Suspended(s) \in 0..3 /\ Signalled(s) \in 0..2 /\ Signalled(s) <= Suspended(s)
      /\ Suspended(r) \in 0..3 /\ Signalled(r) \in 0..2
      /\ suspend = t <=> Suspended(s) > 0
      /\ master = t <=> Suspended(s) > 0
      /\ signal = t <=> Signalled(s) > 0
      /\ master = t => suspendCount = Suspended(s) /\ signalCount = Signalled(s)
  BY <1>1, CallerFacts DEF SuspendStep, SignalStep
<1>3. /\ stale \in BOOLEAN /\ promptSet \in BOOLEAN
  BY DEF Running, TypeOK
<1> HIDE DEF s
<1>4. CASE master # t
  <2> DEFINE q == <<"awaitStart">> \o r
  <2>1. WellNested(q) /\ Suspended(q) = Suspended(s) /\ Signalled(q) = Signalled(s)
    BY <1>1, <1>2, <1>4, SwappedNested
  <2>2. todo' = [todo EXCEPT ![t] = q] /\ UNCHANGED suspendCount
    BY <1>2, <1>4 DEF Suspend, Replace, s
  <2>3. Advances(s, q)
    BY <1>1 DEF Advances, CtlSteps
  <2> HIDE DEF q
  <2>4. OwnersAfter(t, q)
    BY <1>2, <1>4, <2>1, <2>2 DEF OwnersAfter, Suspend
  <2>5. ~(Suspended(s) > 0)
    BY <1>2, <1>4
  <2> QED
    BY <1>3, <2>1, <2>2, <2>3, <2>4, <2>5, CallerKept DEF thread, Suspend, work, wait, s
<1>5. CASE master = t
  <2>1. todo' = [todo EXCEPT ![t] = r] /\ suspendCount' = suspendCount + 1
    BY <1>1, <1>2, <1>5, DoneLeaves DEF Suspend, s
  <2>2. Advances(s, r)
    BY <1>1 DEF Advances, CtlSteps
  <2>3. OwnersAfter(t, r)
    <3> HIDE DEF r
    <3> QED
      BY <1>2, <1>5, <2>1 DEF OwnersAfter, Suspend
  <2>4. Waking(s) => Suspended(r) > 0 /\ Waking(r)
    <3>1. ASSUME Len(s) >= 2 PROVE r # <<>> /\ r[1] = s[2]
      <4>1. /\ Len(r) = Len(s) - 1 /\ Len(s) \in Nat /\ r \in Seq(Steps)
            /\ \A i \in 1..Len(r) : r[i] = s[i + 1]
        BY <1>1, <1>2, HeadTailProperties, LenProperties
      <4> HIDE DEF r
      <4>2. r # <<>> /\ 1 \in 1..Len(r)
        BY <3>1, <4>1, EmptySeq
      <4>3. r[1] = s[1 + 1]
        BY <4>1, <4>2
      <4> QED  BY <4>2, <4>3
    <3> HIDE DEF r
    <3> QED
      BY <1>1, <1>2, <3>1 DEF Waking
  <2> HIDE DEF r
  <2> QED
    BY <1>2, <1>3, <2>1, <2>2, <2>3, <2>4, CallerKept DEF thread, Suspend, work, wait, s
<1> QED
  BY <1>4, <1>5

LEMMA AwaitStartKeeps ==
  ASSUME Managed, Running, NEW t \in Callers, AwaitStart(t)
  PROVE  Running'
<1> DEFINE s == todo[t]
           q == <<"lockSuspend">> \o Tail(s)
<1>1. s # <<>> /\ Head(s) = "awaitStart"
  BY DEF AwaitStart, At
<1>2. /\ WellNested(s) /\ Suspended(s) = 0 /\ Signalled(s) = 0 /\ Head(s) = s[1]
      /\ master # t /\ suspend # t /\ signal # t
  <2>1. Fits(s)
    BY <1>1, FitsAtOnce DEF Running, OwnersInv
  <2> QED
    BY <1>1, <2>1, CallerFacts DEF Fits
<1>3. WellNested(q) /\ Suspended(q) = 0 /\ Signalled(q) = 0
  BY <1>1, <1>2, SwappedNested
<1>4. todo' = [todo EXCEPT ![t] = q]
  BY DEF AwaitStart, Replace
<1>5. Advances(s, q)
  BY <1>1 DEF Advances, CtlSteps
<1> HIDE DEF q, s
<1>6. OwnersAfter(t, q) /\ ~(Suspended(s) > 0)
  BY <1>2, <1>3 DEF OwnersAfter, AwaitStart, locks
<1>7. stale \in BOOLEAN /\ promptSet \in BOOLEAN
  BY DEF Running, TypeOK
<1> QED
  BY <1>2, <1>3, <1>4, <1>5, <1>6, <1>7, CallerKept DEF thread, AwaitStart, work, wait, s

\* The caller becomes the master, with one call to mirror.
LEMMA LockSuspendKeeps ==
  ASSUME Managed, Running, NEW t \in Callers, LockSuspend(t)
  PROVE  Running'
<1> DEFINE s == todo[t]
           r == Tail(s)
<1>1. s # <<>> /\ Head(s) = "lockSuspend" /\ todo \in [Callers -> Seq(Steps)]
  BY DEF LockSuspend, At, Running, TypeOK
<1>2. /\ WellNested(s) /\ WellNested(r) /\ Suspended(s) = 0 /\ Signalled(s) = 0
      /\ Suspended(r) = 1 /\ Signalled(r) = 0 /\ Head(s) = s[1]
      /\ master # t /\ signal # t /\ t # None
  <2>1. Fits(s)
    BY <1>1, FitsAtOnce DEF Running, OwnersInv
  <2> QED
    BY <1>1, <2>1, CallerFacts DEF Fits, SuspendStep, SignalStep
<1>3. master = None /\ suspendCount = 0 /\ signalCount = 0
  <2>1. \A u \in Callers : master = u => suspend = u
    BY DEF Running, OwnersInv
  <2> QED
    BY <2>1 DEF Running, OwnersInv, TypeOK, LockSuspend, Managed, ThreadAssumption
<1>4. todo' = [todo EXCEPT ![t] = r]
  BY <1>1, DoneLeaves DEF LockSuspend
<1>5. Advances(s, r)
  BY <1>1 DEF Advances, CtlSteps
<1> HIDE DEF r, s
<1>6. OwnersAfter(t, r) /\ ~(Suspended(s) > 0)
  BY <1>2, <1>3 DEF OwnersAfter, LockSuspend
<1>7. stale \in BOOLEAN /\ promptSet \in BOOLEAN
  BY DEF Running, TypeOK
<1> QED
  BY <1>2, <1>4, <1>5, <1>6, <1>7, CallerKept DEF thread, LockSuspend, work, wait, s

\* The last ResumeThread() releases the mutex, any other only counts.
LEMMA ResumeKeeps ==
  ASSUME Managed, Running, NEW t \in Callers, Resume(t)
  PROVE  Running'
<1> DEFINE s == todo[t]
           r == Tail(s)
<1>1. s # <<>> /\ Head(s) = "resume" /\ todo \in [Callers -> Seq(Steps)]
  BY DEF Resume, At, Running, TypeOK
<1>2. /\ threaded /\ t # None
      /\ WellNested(s) /\ WellNested(r) /\ Head(s) = s[1]
      /\ Suspended(s) = Suspended(r) + 1 /\ Signalled(s) = Signalled(r)
      /\ Suspended(r) \in 0..3 /\ Signalled(r) \in 0..2
      /\ master = t /\ suspend = t
      /\ signal = t <=> Signalled(s) > 0
      /\ suspendCount = Suspended(s) /\ signalCount = Signalled(s)
  BY <1>1, CallerFacts DEF SuspendStep, SignalStep, InnerSteps
<1>3. Signalled(r) <= Suspended(r)
  BY <1>2, FitsAtOnce DEF Fits
<1>4. todo' = [todo EXCEPT ![t] = r]
  BY <1>1, DoneLeaves DEF Resume
<1>5. Advances(s, r)
  BY <1>1 DEF Advances, CtlSteps
<1>6. ~Waking(s)
  BY <1>1, <1>2 DEF Waking
<1> HIDE DEF r, s
<1>7. OwnersAfter(t, r)
  <2>1. CASE Suspended(r) > 0
    BY <2>1, <1>2 DEF OwnersAfter, Resume, Nested, ResumeNested
  <2>2. CASE Suspended(r) = 0
    BY <2>2, <1>2, <1>3 DEF OwnersAfter, Resume, Nested, ResumeNested
  <2> QED
    BY <2>1, <2>2, <1>2
<1>8. stale \in BOOLEAN /\ promptSet \in BOOLEAN
  BY DEF Running, TypeOK
<1> QED
  BY <1>2, <1>4, <1>5, <1>6, <1>7, <1>8, CallerKept DEF thread, Resume, work, wait, s

\* SignalThread() counts if it is nested, else breaks the Wait(), and may fail to.
LEMMA InterruptKeeps ==
  ASSUME Managed, Running, NEW t \in Callers, Interrupt(t)
  PROVE  Running'
<1> DEFINE s == todo[t]
           r == Tail(s)
<1>1. /\ s # <<>> /\ Head(s) \in {"interrupt", "interruptOrFail"}
      /\ todo \in [Callers -> Seq(Steps)]
  BY DEF Interrupt, At, Running, TypeOK
<1>2. /\ threaded /\ t # None
      /\ WellNested(s) /\ WellNested(r) /\ Head(s) = s[1]
      /\ Suspended(s) = Suspended(r) /\ Signalled(s) = Signalled(r) - 1
      /\ Suspended(r) \in 0..3 /\ Signalled(r) \in 0..2 /\ Signalled(s) \in 0..2
      /\ master = t /\ suspend = t /\ Suspended(s) > 0
      /\ signal = t <=> Signalled(s) > 0
      /\ suspendCount = Suspended(s) /\ signalCount = Signalled(s)
  BY <1>1, CallerFacts DEF SuspendStep, SignalStep, InnerSteps
<1>3. stale \in BOOLEAN /\ promptSet \in BOOLEAN
  BY DEF Running, TypeOK
<1>4. CASE signalCount > 0 /\ signalCount' = (signalCount + 1) % (CountMax + 1)
           /\ Done(t) /\ UNCHANGED broken
  <2>1. todo' = [todo EXCEPT ![t] = r]
    BY <1>1, <1>4, DoneLeaves
  <2>2. Advances(s, r)
    BY <1>1 DEF Advances, CtlSteps
  <2>3. signalCount' = signalCount + 1
    <3>1. signalCount + 1 \in 0..CountMax /\ CountMax \in Nat
      BY <1>2 DEF Managed, ThreadAssumption
    <3> QED
      BY <3>1, <1>4
  <2> HIDE DEF r, s
  <2>4. OwnersAfter(t, r)
    BY <1>2, <1>4, <2>3 DEF OwnersAfter, Interrupt
  <2>5. pc \notin {"open", "wait"}
    BY <1>2, <1>4, CallerFacts DEF Running, OwnersInv, Managed, ThreadAssumption
  <2> QED
    BY <1>2, <1>3, <1>4, <2>1, <2>2, <2>4, <2>5, CallerKept DEF thread, Interrupt, work, s
<1>5. CASE signalCount = 0 /\ BreakWait(t)
  <2> DEFINE q == <<"lockSignal">> \o r
  <2>1. WellNested(q) /\ Suspended(q) = Suspended(s) /\ Signalled(q) = Signalled(s)
    BY <1>1, <1>2, <1>5, SwappedNested
  <2>2. todo' = [todo EXCEPT ![t] = q] /\ broken' = TRUE /\ UNCHANGED signalCount
    BY <1>5 DEF BreakWait, Replace
  <2>3. Advances(s, q)
    BY <1>1 DEF Advances, CtlSteps
  <2> HIDE DEF q
  <2>4. OwnersAfter(t, q)
    BY <1>2, <1>5, <2>1, <2>2 DEF OwnersAfter, Interrupt
  <2> QED
    BY <1>2, <1>3, <2>1, <2>2, <2>3, <2>4, CallerKept DEF thread, Interrupt, work
<1>6. CASE signalCount = 0 /\ Head(todo[t]) \in BreakFailures /\ BreakFailed(t)
  <2> DEFINE q == Tail(Tail(s))
  <2>1. Head(s) = "interruptOrFail"
    BY <1>1, <1>6 DEF Managed
  <2>2. /\ <<"resume">> \o SubSeq(s, 4, Len(s)) = q
        /\ WellNested(q) /\ Suspended(q) = Suspended(s) /\ Signalled(q) = Signalled(s)
    BY <1>1, <1>2, <2>1, FailedNested
  <2>3. todo' = [todo EXCEPT ![t] = q] /\ UNCHANGED <<signalCount, broken>>
    BY <1>6, <2>1, <2>2 DEF BreakFailed, At
  <2>4. Advances(s, q)
    BY <1>1, <2>1 DEF Advances, CtlSteps
  <2>5. ~Waking(s)
    BY <1>2, <2>1 DEF Waking
  <2> HIDE DEF q
  <2>6. OwnersAfter(t, q)
    BY <1>2, <1>6, <2>2, <2>3 DEF OwnersAfter, Interrupt
  <2> QED
    BY <1>2, <1>3, <2>2, <2>3, <2>4, <2>5, <2>6, CallerKept DEF thread, Interrupt, work
<1> QED
  BY <1>2, <1>4, <1>5, <1>6 DEF Interrupt

LEMMA LockSignalKeeps ==
  ASSUME Managed, Running, NEW t \in Callers, LockSignal(t)
  PROVE  Running'
<1> DEFINE s == todo[t]
           r == Tail(s)
<1>1. s # <<>> /\ Head(s) = "lockSignal" /\ todo \in [Callers -> Seq(Steps)]
  BY DEF LockSignal, At, Running, TypeOK
<1>2. /\ WellNested(s) /\ WellNested(r) /\ Signalled(s) = 0
      /\ Suspended(s) = Suspended(r) /\ Signalled(r) = 1 /\ Suspended(r) \in 0..3
      /\ Head(s) = s[1] /\ Suspended(s) > 0
      /\ master = t /\ suspend = t /\ t # None
      /\ suspendCount = Suspended(s) /\ signalCount = Signalled(s)
  <2>1. Fits(s)
    BY <1>1, FitsAtOnce DEF Running, OwnersInv
  <2> QED
    BY <1>1, <2>1, CallerFacts DEF Fits, SuspendStep, SignalStep, InnerSteps
<1>3. todo' = [todo EXCEPT ![t] = r]
  BY <1>1, DoneLeaves DEF LockSignal
<1>4. Advances(s, r)
  BY <1>1 DEF Advances, CtlSteps
<1>5. ~Waking(s)
  BY <1>1, <1>2 DEF Waking
<1> HIDE DEF r, s
<1>6. OwnersAfter(t, r)
  BY <1>2 DEF OwnersAfter, LockSignal
<1>7. stale \in BOOLEAN /\ promptSet \in BOOLEAN
  BY DEF Running, TypeOK
<1> QED
  BY <1>2, <1>3, <1>4, <1>5, <1>6, <1>7, CallerKept DEF thread, LockSignal, work, wait, s

\* The last UnsignalThread() releases the mutex, any other only counts.
LEMMA ReleaseSignalKeeps ==
  ASSUME Managed, Running, NEW t \in Callers, ReleaseSignal(t)
  PROVE  Running'
<1> DEFINE s == todo[t]
           r == Tail(s)
<1>1. s # <<>> /\ Head(s) = "unsignal" /\ todo \in [Callers -> Seq(Steps)]
  BY DEF ReleaseSignal, At, Running, TypeOK
<1>2. /\ threaded /\ t # None
      /\ WellNested(s) /\ WellNested(r) /\ Head(s) = s[1]
      /\ Suspended(s) = Suspended(r) /\ Signalled(s) = Signalled(r) + 1
      /\ Suspended(r) \in 0..3 /\ Signalled(r) \in 0..2 /\ Signalled(s) \in 0..2
      /\ master = t /\ suspend = t /\ Suspended(s) > 0 /\ signal = t
      /\ suspendCount = Suspended(s) /\ signalCount = Signalled(s)
  BY <1>1, CallerFacts DEF SuspendStep, SignalStep, InnerSteps
<1>3. signalCount' = signalCount - 1 /\ (signal' = IF signalCount' = 0 THEN None ELSE signal)
  <2>1. signalCount - 1 \in 0..CountMax /\ CountMax \in Nat
    BY <1>2 DEF Managed, ThreadAssumption
  <2> QED
    BY <2>1, <1>2 DEF ReleaseSignal
<1>4. todo' = [todo EXCEPT ![t] = r]
  BY <1>1, DoneLeaves DEF ReleaseSignal
<1>5. Advances(s, r)
  BY <1>1 DEF Advances, CtlSteps
<1>6. ~Waking(s)
  BY <1>1, <1>2 DEF Waking
<1> HIDE DEF r, s
<1>7. OwnersAfter(t, r)
  BY <1>2, <1>3 DEF OwnersAfter, ReleaseSignal
<1>8. stale \in BOOLEAN /\ promptSet \in BOOLEAN
  BY DEF Running, TypeOK
<1> QED
  BY <1>2, <1>4, <1>5, <1>6, <1>7, <1>8, CallerKept DEF thread, ReleaseSignal, work, wait, s

\* Who has changed a timer is about to break the Wait().
LEMMA ChangeTimerKeeps ==
  ASSUME Managed, Running, NEW t \in Callers, ChangeTimer(t)
  PROVE  Running'
<1> DEFINE s == todo[t]
           r == Tail(s)
<1>1. s # <<>> /\ Head(s) = "change" /\ todo \in [Callers -> Seq(Steps)]
  BY DEF ChangeTimer, At, Running, TypeOK
<1>2. /\ WellNested(s) /\ WellNested(r) /\ s \in Seq(Steps) /\ t # None
      /\ Suspended(s) = Suspended(r) /\ Signalled(s) = Signalled(r)
      /\ Suspended(s) > 0 /\ master = t /\ suspend = t
      /\ signal = t <=> Signalled(s) > 0
      /\ suspendCount = Suspended(s) /\ signalCount = Signalled(s)
      /\ Suspended(r) \in 0..3 /\ Signalled(r) \in 0..2
  BY <1>1, CallerFacts DEF SuspendStep, SignalStep, InnerSteps
<1>3. todo' = [todo EXCEPT ![t] = r]
  BY <1>1, DoneLeaves DEF ChangeTimer
<1>4. Advances(s, r)
  BY <1>1 DEF Advances, CtlSteps
<1>5. Waking(r)
  <2>1. Len(s) >= 3 /\ s[2] = "suspend" /\ s[3] = "interrupt"
    BY <1>1, <1>2, FitsAtOnce DEF Fits
  <2>2. /\ Len(r) = Len(s) - 1 /\ Len(s) \in Nat /\ \A i \in 1..Len(r) : r[i] = s[i + 1]
    BY <1>1, <1>2, HeadTailProperties, LenProperties
  <2> HIDE DEF r
  <2>3. 1 \in 1..Len(r) /\ 2 \in 1..Len(r)
    BY <2>1, <2>2
  <2>4. r[1] = s[1 + 1] /\ r[2] = s[2 + 1]
    BY <2>2, <2>3
  <2> QED
    BY <2>1, <2>2, <2>4 DEF Waking
<1> HIDE DEF r, s
<1>6. OwnersAfter(t, r)
  BY <1>2 DEF OwnersAfter, ChangeTimer, locks
<1>7. stale' \in BOOLEAN /\ promptSet \in BOOLEAN
  BY DEF Running, TypeOK, ChangeTimer
<1> QED
  BY <1>2, <1>3, <1>4, <1>5, <1>6, <1>7, CallerKept DEF thread, ChangeTimer, locks, wait, s

LEMMA ChangeStreamKeeps ==
  ASSUME Managed, Running, NEW t \in Callers, ChangeStream(t) \/ SetPrompt(t)
  PROVE  Running'
<1> DEFINE s == todo[t]
           r == Tail(s)
<1>1. s # <<>> /\ Head(s) \in {"streams", "prompt"} /\ todo \in [Callers -> Seq(Steps)]
  BY DEF ChangeStream, SetPrompt, At, Running, TypeOK
<1>2. /\ WellNested(s) /\ WellNested(r) /\ Head(s) = s[1]
      /\ Suspended(s) = Suspended(r) /\ Signalled(s) = Signalled(r)
      /\ suspend = t <=> Suspended(s) > 0
      /\ master = t <=> Suspended(s) > 0
      /\ signal = t <=> Signalled(s) > 0
      /\ master = t => suspendCount = Suspended(s) /\ signalCount = Signalled(s)
      /\ Suspended(r) \in 0..3 /\ Signalled(r) \in 0..2
  BY <1>1, CallerFacts DEF SuspendStep, SignalStep
<1>3. todo' = [todo EXCEPT ![t] = r]
  BY <1>1, DoneLeaves DEF ChangeStream, SetPrompt
<1>4. Advances(s, r)
  BY <1>1 DEF Advances, CtlSteps
<1>5. ~Waking(s)
  BY <1>1, <1>2 DEF Waking
<1> HIDE DEF r, s
<1>6. OwnersAfter(t, r)
  BY <1>2 DEF OwnersAfter, ChangeStream, SetPrompt, locks
<1>7. /\ stale' = stale /\ stale \in BOOLEAN /\ promptSet' \in BOOLEAN /\ broken' = broken
      /\ UNCHANGED <<thread, turns, pc, seen>>
  BY DEF Running, TypeOK, ChangeStream, SetPrompt, work, wait
<1> QED
  BY <1>2, <1>3, <1>4, <1>5, <1>6, <1>7, CallerKept DEF thread, s

\* Stop() tells a Controller, of which there is none, clears run and waits.
LEMMA StopStepKeeps ==
  ASSUME Managed, Running, NEW t \in Callers, Unhook(t) \/ Halt(t) \/ Join(t)
  PROVE  Running'
<1> DEFINE s == todo[t]
           q == IF Join(t) THEN <<"await">> \o Tail(s) ELSE Tail(s)
<1>1. /\ s # <<>> /\ Head(s) \in {"unhook", "halt", "join"}
      /\ Join(t) => Head(s) = "join"
      /\ todo \in [Callers -> Seq(Steps)]
  BY DEF Unhook, Halt, Join, At, Running, TypeOK
<1>2. /\ threaded /\ WellNested(s) /\ WellNested(Tail(s)) /\ Head(s) = s[1]
      /\ Suspended(s) = Suspended(Tail(s)) /\ Signalled(s) = Signalled(Tail(s))
      /\ suspend = t <=> Suspended(s) > 0
      /\ master = t <=> Suspended(s) > 0
      /\ signal = t <=> Signalled(s) > 0
      /\ master = t => suspendCount = Suspended(s) /\ signalCount = Signalled(s)
      /\ Suspended(Tail(s)) \in 0..3 /\ Signalled(Tail(s)) \in 0..2
  BY <1>1, CallerFacts DEF SuspendStep, SignalStep
<1>3. Ctl = None /\ ~controller
  <2>1. Stoppable
    BY <1>1, <1>2, FitsAtOnce DEF Fits, StopSteps
  <2> QED
    BY <2>1 DEF Managed, Running, RoundsInv
<1>4. /\ WellNested(q) /\ Suspended(q) = Suspended(s) /\ Signalled(q) = Signalled(s)
      /\ Advances(s, q)
  <2>1. CASE Join(t)
    <3>1. Head(s) = "join"
      BY <1>1, <2>1
    <3>2. Advances(s, <<"await">> \o Tail(s))
      BY <1>1, <3>1 DEF Advances, CtlSteps
    <3> QED
      BY <1>1, <1>2, <2>1, <3>1, <3>2, SwappedNested
  <2>2. CASE ~Join(t)
    <3>1. Advances(s, Tail(s))
      BY <1>1 DEF Advances, CtlSteps
    <3> QED
      BY <1>2, <2>2, <3>1
  <2> QED  BY <2>1, <2>2
<1>5. todo' = [todo EXCEPT ![t] = q]
  <2>1. CASE Join(t)
    BY <2>1, <1>2 DEF Join, Replace
  <2>2. CASE ~Join(t)
    BY <2>2, <1>1, DoneLeaves DEF Unhook, Halt
  <2> QED  BY <2>1, <2>2
<1>6. ~Waking(s)
  BY <1>1, <1>2 DEF Waking
<1>7. /\ UNCHANGED <<locks, threaded, started, starts, turns, pc, seen, stale, promptSet, broken>>
      /\ run' \in {run, FALSE}
  BY <1>2, <1>3 DEF Unhook, Halt, Join, OnThreadStop, Running, TypeOK, locks, turns, work, wait, thread
<1> HIDE DEF q, s
<1>8. OwnersAfter(t, q)
  BY <1>2, <1>4, <1>7 DEF OwnersAfter, locks
<1>9. stale \in BOOLEAN /\ promptSet \in BOOLEAN
  BY DEF Running, TypeOK
<1> QED
  BY <1>4, <1>5, <1>6, <1>7, <1>8, <1>9, CallerKept DEF s

\* When Stop() returns the thread is off, and no caller is about to take signal_mutex
\* that does not hold suspend_mutex.
LEMMA AwaitHalts ==
  ASSUME Managed, Running, NEW t \in Callers, Await(t)
  PROVE  Halted'
<1> DEFINE s == todo[t]
           r == Tail(s)
<1>1. s # <<>> /\ Head(s) = "await" /\ pc = "off" /\ todo \in [Callers -> Seq(Steps)]
  BY DEF Await, At, Running, TypeOK
<1>2. WellNested(s) /\ WellNested(r) /\ Steady(r)
  BY <1>1, CallerFacts, Ahead DEF Running, OwnersInv
<1>3. Stoppable
  BY <1>1, <1>2, FitsAtOnce DEF Fits, StopSteps
<1>4. Ctl = None /\ ~controller /\ ~cue /\ ~seen
  BY <1>1, <1>3 DEF Managed, Running, RoundsInv, SeenInv
<1>5. todo' = [todo EXCEPT ![t] = r]
  BY <1>1, DoneLeaves DEF Await
<1>6. todo'[t] = r /\ \A u \in Callers \ {t} : todo'[u] = todo[u]
  BY <1>1, <1>5
<1>7. UNCHANGED <<suspend, signal, master, suspendCount, signalCount, run, starts, controller, lockA,
                  lockB, useLockA, cue, stale, promptSet, seen, pc>>
  BY DEF Await, locks, turns, work
<1>8. ASSUME NEW u \in Callers
      PROVE  WellNested(todo'[u]) /\ (todo'[u] # <<>> /\ Head(todo'[u]) = "lockSignal" => master' = u)
  <2>1. CASE u = t
    <3>1. r # <<>> => Head(r) # "lockSignal"
      BY <1>2, HeadAndTail DEF Steady, WellNested
    <3> QED
      BY <2>1, <3>1, <1>2, <1>6
  <2>2. CASE u # t
    <3>1. todo[u] # <<>> /\ Head(todo[u]) = "lockSignal" => master = u
      BY CallerFacts DEF InnerSteps
    <3> QED
      BY <2>2, <3>1, <1>6, <1>7 DEF Running, OwnersInv
  <2> QED  BY <2>1, <2>2
<1>9. TypeOK'
  <2>1. todo' \in [Callers -> Seq(Steps)]
    BY <1>1, <1>2, <1>5 DEF WellNested
  <2>2. TypeOK /\ threaded' \in BOOLEAN /\ started' \in BOOLEAN /\ broken' \in BOOLEAN
    BY DEF Await, Running
  <2>3. /\ suspend' = suspend /\ signal' = signal /\ master' = master
        /\ suspendCount' = suspendCount /\ signalCount' = signalCount
        /\ run' = run /\ starts' = starts /\ controller' = controller /\ lockA' = lockA
        /\ lockB' = lockB /\ useLockA' = useLockA /\ cue' = cue /\ stale' = stale
        /\ promptSet' = promptSet /\ seen' = seen /\ UNCHANGED pc
    BY <1>7
  <2> HIDE DEF r, s
  <2> QED
    BY <2>1, <2>2, <2>3, Typed, TypedAfter
<1>10. /\ master' # None => suspend' = master'
       /\ master' = None => suspendCount' = 0 /\ signalCount' = 0
  BY <1>7 DEF Running, OwnersInv, TypeOK
<1> HIDE DEF r, s
<1> QED
  BY <1>1, <1>3, <1>4, <1>7, <1>8, <1>9, <1>10 DEF Await, Halted, At

LEMMA CallerStepKeeps ==
  ASSUME Managed, Running, NEW t \in Callers, CallerStep(t)
  PROVE  Running' \/ Halted'
<1> QED
  BY SuspendKeeps, AwaitStartKeeps, LockSuspendKeeps, ResumeKeeps, InterruptKeeps,
     LockSignalKeeps, ReleaseSignalKeeps, ChangeTimerKeeps, ChangeStreamKeeps,
     StopStepKeeps, AwaitHalts
     DEF CallerStep

-----------------------------------------------------------------------------
\* The steps of the dispatcher's thread.

LEMMA InitKeeps == Managed /\ Init => Halted
<1> SUFFICES ASSUME Managed, Init PROVE Halted
  OBVIOUS
<1>1. \A t \in Callers : todo[t] = <<>> /\ WellNested(todo[t])
  BY NothingNested DEF Init, Steady
<1>2. None \notin Callers /\ Worker \notin Callers /\ None # Worker
  BY DEF Managed, ThreadAssumption
<1>3. TypeOK
  <2>1. todo \in [Callers -> Seq(Steps)]
    <3>1. <<>> \in Seq(Steps)
      BY EmptySeq
    <3> HIDE DEF Steps
    <3> QED
      BY <3>1 DEF Init
  <2>2. /\ starts \in 0..MaxStarts
        /\ suspendCount \in 0..CountMax /\ signalCount \in 0..CountMax
    BY DEF Init, Managed, ThreadAssumption
  <2> QED
    BY <2>1, <2>2 DEF Init, TypeOK
<1>4. \A t \in Callers : ~At(t, "lockSignal") /\ Idle(t)
  BY <1>1 DEF At, Idle
<1> QED
  BY <1>1, <1>3, <1>4 DEF Init, Halted

\* A step that leaves the callers where they are and takes or releases the mutexes
\* for the dispatcher's thread only.
WorkerOnly ==
  /\ UNCHANGED <<todo, master, suspendCount, signalCount, threaded, starts, controller>>
  /\ suspend' = suspend \/ {suspend, suspend'} \subseteq {Worker, None}
  /\ signal' = signal \/ {signal, signal'} \subseteq {Worker, None}
  /\ suspend' = Worker <=> pc' \in {"latch", "open", "dispatch", "exit"}
  /\ signal' = Worker <=> pc' \in {"open", "wait", "close"}
  /\ pc' \in {"off", "begin", "enter", "latch", "open", "wait", "close", "awake", "dispatch",
              "exit", "yield", "cue", "turn", "relock"}
  /\ {started', run', broken', seen', stale', promptSet', lockA', lockB', useLockA', cue'}
       \subseteq BOOLEAN

LEMMA WorkerKept ==
  ASSUME Managed, Running, WorkerOnly
  PROVE  TypeOK' /\ OwnersInv' /\ threaded'
<1>1. None \notin Callers /\ Worker \notin Callers /\ None # Worker
  BY DEF Managed, ThreadAssumption
<1>2. threaded /\ threaded'
  BY DEF Running, WorkerOnly
<1>3. /\ {suspend, suspend'} \subseteq Callers \cup {Worker, None}
      /\ {signal, signal'} \subseteq Callers \cup {Worker, None}
  BY DEF Running, TypeOK, WorkerOnly
<1>4. TypeOK'
  BY <1>3 DEF Running, TypeOK, WorkerOnly
<1>5. \A t \in Callers : (suspend' = t <=> suspend = t) /\ (signal' = t <=> signal = t)
  BY <1>1 DEF WorkerOnly
<1>6. OwnersInv'
  BY <1>5 DEF Running, OwnersInv, Suspensions, Signals, WorkerOnly
<1> QED
  BY <1>2, <1>4, <1>6

\* The rounds, as long as the thread neither yields nor takes a turn.
LEMMA AwayKept ==
  ASSUME RoundsInv, pc # "turn", UNCHANGED <<todo, turns>>,
         pc' \notin {"cue", "turn"}, pc' = "yield" => controller
  PROVE  RoundsInv'
  BY DEF RoundsInv, RestInv, Awaited, Given, turns

LEMMA BeginKeeps == ASSUME Managed, Running, Begin PROVE Running'
<1>1. TypeOK' /\ OwnersInv' /\ threaded'
  <2>1. WorkerOnly
    BY DEF Begin, WorkerOnly, Running, TypeOK, OwnersInv, locks, thread, work, wait
  <2> QED
    BY <2>1, WorkerKept DEF Begin
<1>2. WakingInv' /\ ResetFinds' /\ SeenInv'
  BY DEF Begin, Running, WakingInv, ResetFinds, SeenInv, wait
<1>3. RoundsInv'
  BY DEF Begin, Running, RoundsInv, RestInv, Given, Awaited, TypeOK
<1> QED
  BY <1>1, <1>2, <1>3 DEF Running

LEMMA EnterKeeps == ASSUME Managed, Running, Enter PROVE Running'
<1>1. TypeOK' /\ OwnersInv' /\ threaded'
  <2>1. WorkerOnly
    BY DEF Enter, WorkerOnly, Running, TypeOK, OwnersInv, turns, work, wait
  <2> QED
    BY <2>1, WorkerKept DEF Enter
<1>2. WakingInv' /\ ResetFinds' /\ SeenInv'
  BY DEF Enter, Running, WakingInv, ResetFinds, SeenInv, wait
<1>3. RoundsInv'
  BY AwayKept DEF Enter, Running
<1> QED
  BY <1>1, <1>2, <1>3 DEF Running

\* From here on a change of a timer is one behind the back of the Wait().
LEMMA LatchKeeps == ASSUME Managed, Running, Latch PROVE Running'
<1>1. TypeOK' /\ OwnersInv' /\ threaded'
  <2>1. WorkerOnly
    BY DEF Latch, WorkerOnly, Running, TypeOK, OwnersInv, turns, wait, thread
  <2> QED
    BY <2>1, WorkerKept DEF Latch
<1>2. WakingInv' /\ ResetFinds' /\ SeenInv'
  BY DEF Latch, Running, WakingInv, ResetFinds, SeenInv, wait
<1>3. RoundsInv'
  BY AwayKept DEF Latch, Running
<1> QED
  BY <1>1, <1>2, <1>3 DEF Running

LEMMA OpenWindowKeeps == ASSUME Managed, Running, OpenWindow PROVE Running'
<1>1. TypeOK' /\ OwnersInv' /\ threaded'
  <2>1. WorkerOnly
    BY DEF OpenWindow, WorkerOnly, Running, TypeOK, OwnersInv, turns, wait, thread, work,
           Managed, ThreadAssumption
  <2> QED
    BY <2>1, WorkerKept DEF OpenWindow
<1>2. WakingInv' /\ ResetFinds' /\ SeenInv'
  BY DEF OpenWindow, Running, WakingInv, ResetFinds, SeenInv, wait, work, Suspensions
<1>3. RoundsInv'
  BY AwayKept DEF OpenWindow, Running
<1> QED
  BY <1>1, <1>2, <1>3 DEF Running

LEMMA WakeKeeps == ASSUME Managed, Running, WakeOnBreak \/ WakeOtherwise PROVE Running'
<1>1. TypeOK' /\ OwnersInv' /\ threaded'
  <2>1. WorkerOnly
    BY DEF WakeOnBreak, WakeOtherwise, WorkerOnly, Running, TypeOK, OwnersInv, turns, thread, work,
           locks
  <2> QED
    BY <2>1, WorkerKept DEF WakeOnBreak, WakeOtherwise
<1>2. WakingInv' /\ ResetFinds' /\ SeenInv'
  BY DEF WakeOnBreak, WakeOtherwise, Running, WakingInv, ResetFinds, SeenInv
<1>3. RoundsInv'
  BY AwayKept DEF WakeOnBreak, WakeOtherwise, Running
<1> QED
  BY <1>1, <1>2, <1>3 DEF Running

LEMMA CloseWindowKeeps == ASSUME Managed, Running, CloseWindow PROVE Running'
<1>1. TypeOK' /\ OwnersInv' /\ threaded'
  <2>1. WorkerOnly
    BY DEF CloseWindow, WorkerOnly, Running, TypeOK, OwnersInv, turns, thread, work, wait,
           Managed, ThreadAssumption
  <2> QED
    BY <2>1, WorkerKept DEF CloseWindow
<1>2. WakingInv' /\ ResetFinds' /\ SeenInv'
  BY DEF CloseWindow, Running, WakingInv, ResetFinds, SeenInv, wait
<1>3. RoundsInv'
  BY AwayKept DEF CloseWindow, Running
<1> QED
  BY <1>1, <1>2, <1>3 DEF Running

LEMMA AwakeKeeps == ASSUME Managed, Running, Awake PROVE Running'
<1>1. TypeOK' /\ OwnersInv' /\ threaded'
  <2>1. WorkerOnly
    <3>1. UNCHANGED <<todo, master, suspendCount, signalCount, threaded, starts, controller, signal>>
      BY DEF Awake, turns, thread
    <3>2. /\ suspend' = suspend \/ {suspend, suspend'} \subseteq {Worker, None}
          /\ pc' \in {"yield", "dispatch"} /\ (suspend' = Worker <=> pc' = "dispatch")
      BY DEF Awake, Managed, ThreadAssumption
    <3>3. signal # Worker
      BY DEF Awake, Running, OwnersInv
    <3>4. {started', run', broken', seen', stale', promptSet', lockA', lockB', useLockA', cue'}
            \subseteq BOOLEAN
      BY Typed DEF Awake, Running, turns, thread, wait
    <3> QED  BY <3>1, <3>2, <3>3, <3>4 DEF WorkerOnly
  <2> QED
    BY <2>1, WorkerKept DEF Awake
<1>2. WakingInv' /\ ResetFinds' /\ SeenInv'
  BY DEF Awake, Running, WakingInv, ResetFinds, SeenInv, RoundsInv,
         wait
<1>3. RoundsInv'
  BY AwayKept DEF Awake, Running
<1> QED
  BY <1>1, <1>2, <1>3 DEF Running

LEMMA OwnResetKeeps == ASSUME Managed, Running, OwnReset PROVE Running'
<1>1. TypeOK' /\ OwnersInv' /\ threaded'
  <2>1. WorkerOnly
    BY DEF OwnReset, ResetBreak, WorkerOnly, Running, TypeOK, OwnersInv, turns, thread, work, locks
  <2> QED
    BY <2>1, WorkerKept DEF OwnReset
<1>2. WakingInv' /\ ResetFinds' /\ SeenInv'
  BY DEF OwnReset, ResetBreak, Running, WakingInv, ResetFinds, SeenInv
<1>3. RoundsInv'
  BY AwayKept DEF OwnReset, Running
<1> QED
  BY <1>1, <1>2, <1>3 DEF Running

\* The events may change the timers and prompt, or stop the dispatcher.
LEMMA OwnChangeKeeps == ASSUME Managed, Running, OwnCall, threaded' PROVE Running'
<1>1. /\ UNCHANGED <<locks, pc, todo, thread, turns, wait>> /\ pc = "dispatch"
      /\ stale' \in BOOLEAN /\ promptSet' \in BOOLEAN
  BY DEF OwnCall, Running, TypeOK
<1>2. TypeOK' /\ OwnersInv' /\ threaded'
  <2>1. WorkerOnly
    BY <1>1 DEF WorkerOnly, Running, TypeOK, OwnersInv, turns, thread, locks, wait
  <2> QED
    BY <2>1, WorkerKept
<1>3. WakingInv' /\ ResetFinds' /\ SeenInv'
  BY <1>1 DEF Running, WakingInv, ResetFinds, SeenInv, wait
<1>4. RoundsInv'
  BY <1>1, AwayKept DEF Running
<1> QED
  BY <1>2, <1>3, <1>4 DEF Running

LEMMA OwnStopHalts == ASSUME Managed, Running, OwnCall, ~threaded' PROVE Halted'
<1>1. /\ "stop" \in Callbacks /\ pc = "dispatch" /\ OnThreadStop
      /\ ~run' /\ ~threaded' /\ ~started' /\ ~broken' /\ ~seen'
      /\ UNCHANGED <<locks, pc, todo, starts, useLockA, cue, work>>
      /\ {threaded', run', started', broken', seen'} \subseteq BOOLEAN
  BY DEF OwnCall, Running, thread
<1>2. Stoppable /\ Ctl = None /\ ~controller /\ ~cue
  BY <1>1 DEF Stoppable, Managed, Running, RoundsInv
<1>3. UNCHANGED <<suspend, signal, master, suspendCount, signalCount, lockA, lockB, controller,
                  stale, promptSet>>
  BY <1>1, <1>2 DEF OnThreadStop, locks, work
<1>4. TypeOK'
  BY <1>1, <1>3 DEF Running, TypeOK, locks, work
<1>5. ASSUME NEW t \in Callers
      PROVE  WellNested(todo'[t]) /\ (todo'[t] # <<>> /\ Head(todo'[t]) = "lockSignal" => master' = t)
  <2>1. todo[t] # <<>> /\ Head(todo[t]) = "lockSignal" => master = t
    BY CallerFacts DEF InnerSteps
  <2> QED
    BY <1>1, <1>3, <2>1 DEF Running, OwnersInv
<1>6. /\ master' # None => suspend' = master'
      /\ master' = None => suspendCount' = 0 /\ signalCount' = 0
  BY <1>3 DEF Running, OwnersInv, TypeOK
<1> QED
  BY <1>1, <1>2, <1>3, <1>4, <1>5, <1>6 DEF Halted, At

LEMMA DispatchKeeps == ASSUME Managed, Running, Dispatch PROVE Running'
<1>1. TypeOK' /\ OwnersInv' /\ threaded'
  <2>1. WorkerOnly
    BY DEF Dispatch, WorkerOnly, Running, TypeOK, OwnersInv, turns, thread, work, locks, wait
  <2> QED
    BY <2>1, WorkerKept DEF Dispatch
<1>2. WakingInv' /\ ResetFinds' /\ SeenInv'
  BY DEF Dispatch, Running, WakingInv, ResetFinds, SeenInv, wait
<1>3. RoundsInv'
  BY AwayKept DEF Dispatch, Running
<1> QED
  BY <1>1, <1>2, <1>3 DEF Running

LEMMA ExitKeeps == ASSUME Managed, Running, Exit PROVE Running'
<1>1. TypeOK' /\ OwnersInv' /\ threaded'
  <2>1. WorkerOnly
    BY DEF Exit, WorkerOnly, Running, TypeOK, OwnersInv, turns, thread, work, wait,
           Managed, ThreadAssumption
  <2> QED
    BY <2>1, WorkerKept DEF Exit
<1>2. WakingInv' /\ ResetFinds' /\ SeenInv'
  BY DEF Exit, Running, WakingInv, ResetFinds, SeenInv, wait
<1>3. RoundsInv'
  BY AwayKept DEF Exit, Running
<1> QED
  BY <1>1, <1>2, <1>3 DEF Running

\* The thread gives its lock to the controller's,
LEMMA YieldKeeps == ASSUME Managed, Running, Yield PROVE Running'
<1>1. TypeOK' /\ OwnersInv' /\ threaded'
  <2>1. WorkerOnly
    BY DEF Yield, WorkerOnly, Running, TypeOK, OwnersInv, thread, work, wait, locks
  <2> QED
    BY <2>1, WorkerKept DEF Yield
<1>2. WakingInv' /\ ResetFinds' /\ SeenInv'
  BY DEF Yield, Running, WakingInv, ResetFinds, SeenInv, wait
<1>3. RoundsInv'
  BY DEF Yield, Running, RoundsInv, RestInv, Given, Awaited, TypeOK
<1> QED
  BY <1>1, <1>2, <1>3 DEF Running

\* cues it, or fails to,
LEMMA CueKeeps == ASSUME Managed, Running, Cue PROVE Running'
<1>1. TypeOK' /\ OwnersInv' /\ threaded'
  <2>1. WorkerOnly
    BY DEF Cue, WorkerOnly, Running, TypeOK, OwnersInv, thread, work, wait, locks,
           Managed, ThreadAssumption
  <2> QED
    BY <2>1, WorkerKept DEF Cue
<1>2. WakingInv' /\ ResetFinds' /\ SeenInv'
  BY DEF Cue, Running, WakingInv, ResetFinds, SeenInv, wait
<1>3. RoundsInv'
  <2>1. PICK done \in CueOutcomes :
          cue' = (cue \/ done) /\ pc' = IF done THEN "turn" ELSE "relock"
    BY DEF Cue
  <2>2. controller /\ RestInv /\ ~Given
    BY DEF Cue, Running, RoundsInv, RestInv
  <2>3. done \in BOOLEAN
    BY DEF Managed, ThreadAssumption
  <2> QED
    BY <2>1, <2>2, <2>3 DEF Cue, Running, RoundsInv, RestInv, TurnInv, Given, Awaited
<1> QED
  BY <1>1, <1>2, <1>3 DEF Running

\* and takes the other lock, by which the roles of the two are swapped.
LEMMA TakeTurnKeeps == ASSUME Managed, Running, TakeTurn PROVE Running'
<1>1. TypeOK' /\ OwnersInv' /\ threaded'
  <2>1. WorkerOnly
    <3>1. /\ UNCHANGED <<todo, master, suspendCount, signalCount, threaded, starts, controller>>
          /\ UNCHANGED <<suspend, signal>> /\ pc' = "relock"
      BY DEF TakeTurn, thread, locks
    <3>2. suspend # Worker /\ signal # Worker
      BY DEF TakeTurn, Running, OwnersInv
    <3>3. {started', run', broken', seen', stale', promptSet', lockA', lockB', useLockA', cue'}
            \subseteq BOOLEAN
      BY Typed DEF TakeTurn, Running, thread, work, wait
    <3> QED  BY <3>1, <3>2, <3>3 DEF WorkerOnly
  <2> QED
    BY <2>1, WorkerKept DEF TakeTurn
<1>2. WakingInv' /\ ResetFinds' /\ SeenInv'
  BY DEF TakeTurn, Running, WakingInv, ResetFinds, SeenInv, wait
<1>3. RoundsInv'
  <2>1. controller /\ TurnInv
    BY DEF TakeTurn, Running, RoundsInv
  <2>2. ~cue /\ todo[Ctl] \in {<<"resume">>, <<>>} /\ Given /\ ~Awaited
    BY <2>1 DEF TakeTurn, TurnInv, Awaited
  <2> QED
    BY <2>1, <2>2 DEF TakeTurn, Running, RoundsInv, RestInv, Given, Awaited, TypeOK
<1> QED
  BY <1>1, <1>2, <1>3 DEF Running

LEMMA RelockKeeps == ASSUME Managed, Running, Relock PROVE Running'
<1>1. TypeOK' /\ OwnersInv' /\ threaded'
  <2>1. WorkerOnly
    BY DEF Relock, WorkerOnly, Running, TypeOK, OwnersInv, thread, work, wait, turns,
           Managed, ThreadAssumption
  <2> QED
    BY <2>1, WorkerKept DEF Relock
<1>2. WakingInv' /\ ResetFinds' /\ SeenInv'
  BY DEF Relock, Running, WakingInv, ResetFinds, SeenInv, wait
<1>3. RoundsInv'
  BY AwayKept DEF Relock, Running
<1> QED
  BY <1>1, <1>2, <1>3 DEF Running

-----------------------------------------------------------------------------
\* The steps of the controller's thread, and those that begin something.

LEMMA StartThreadKeeps == ASSUME Managed, Halted, StartThread PROVE Running'
<1>1. /\ \A t \in Callers : todo[t] = <<>> /\ Suspensions(t) = 0 /\ Signals(t) = 0
      /\ ~cue /\ ~seen /\ (Ctl # None => useLockA /\ lockA)
  BY NestingEmpty DEF StartThread, Halted, Idle, Suspensions, Signals
<1>2. \A t \in Callers : t # None
  BY DEF Managed, ThreadAssumption
<1>3. master = None /\ suspendCount = 0 /\ signalCount = 0
  BY DEF StartThread, Halted, Managed
<1>4. Worker # None /\ Worker \notin Callers
  BY DEF Managed, ThreadAssumption
<1>5. TypeOK'
  <2>1. starts' \in 0..MaxStarts /\ MaxStarts \in Nat
    BY DEF StartThread, Halted, TypeOK, Managed, ThreadAssumption
  <2>2. controller' \in BOOLEAN
    BY DEF StartThread
  <2> QED
    BY <2>1, <2>2 DEF StartThread, Halted, TypeOK, wait, work
<1>6. OwnersInv'
  BY <1>1, <1>2, <1>3, <1>4 DEF StartThread, Halted, OwnersInv, Suspensions, Signals
<1>7. threaded' /\ SeenInv' /\ WakingInv' /\ ResetFinds'
  BY <1>1 DEF StartThread, SeenInv, WakingInv, ResetFinds, wait
<1>8. RoundsInv'
  <2>1. \A t \in Callers : Plain(todo'[t])
    BY <1>1, EmptySeq DEF StartThread, Plain
  <2>2. controller' => Ctl \in Callers
    BY DEF StartThread, Managed, ThreadAssumption
  <2> QED
    BY <1>1, <2>1, <2>2, <1>2 DEF StartThread, RoundsInv, RestInv, Awaited
<1> QED
  BY <1>5, <1>6, <1>7, <1>8 DEF Running

\* Every call is of a method that mirrors what it does.
LEMMA CallKeeps ==
  ASSUME Managed, Running, NEW t \in Callers, Call(t)
  PROVE  Running'
<1>1. PICK call \in Calls : todo' = [todo EXCEPT ![t] = Body(call)]
  BY DEF Call
<1> DEFINE q == Body(call)
<1>2. /\ call \in {"change", "guarded", "streams", "signalled", "prompt", "stop"}
      /\ call = "stop" => Stoppable
  BY DEF Managed, ThreadAssumption, Stoppable
<1>3. WellNested(q) /\ Suspended(q) = 0 /\ Signalled(q) = 0 /\ q \in Seq(Steps)
  BY <1>2, BodyNested DEF Steady, WellNested
<1>4. Plain(q)
  BY <1>2, BodyPlain
<1> HIDE DEF q
<1>5. /\ todo[t] = <<>> /\ threaded /\ (t = Ctl => ~controller)
      /\ Suspended(todo[t]) = 0 /\ Signalled(todo[t]) = 0
  BY NestingEmpty DEF Call, Idle
<1>6. /\ todo'[t] = q /\ \A u \in Callers \ {t} : todo'[u] = todo[u]
      /\ todo' \in [Callers -> Seq(Steps)]
  BY <1>1, <1>3 DEF Running, TypeOK, q
<1>7. UNCHANGED <<suspend, signal, master, suspendCount, signalCount, threaded, started, run,
                  starts, controller, lockA, lockB, useLockA, cue, stale, promptSet, broken, seen, pc>>
  BY DEF Call, locks, thread, turns, work, wait
<1>8. \A u \in Callers : /\ WellNested(todo'[u])
                         /\ Suspended(todo'[u]) = Suspended(todo[u])
                         /\ Signalled(todo'[u]) = Signalled(todo[u])
  BY <1>3, <1>5, <1>6 DEF Running, OwnersInv
<1>9. TypeOK'
  BY <1>6, <1>7 DEF Running, TypeOK
<1>10. OwnersInv'
  <2>1. \A u \in Callers :
          /\ suspend = u <=> Suspended(todo'[u]) > 0
          /\ master = u <=> Suspended(todo'[u]) > 0
          /\ signal = u <=> Signalled(todo'[u]) > 0
    BY <1>8 DEF Running, OwnersInv, Suspensions, Signals
  <2>2. master # None => suspendCount = Suspended(todo'[master]) /\ signalCount = Signalled(todo'[master])
    BY <1>8 DEF Running, OwnersInv, Suspensions, Signals, TypeOK
  <2> QED
    BY <2>1, <2>2, <1>7, <1>8 DEF Running, OwnersInv, Suspensions, Signals
<1>11. threaded' /\ SeenInv'
  BY <1>5, <1>7 DEF Running, SeenInv
<1>12. ResetFinds'
  BY <1>7 DEF Running, ResetFinds
<1>13. WakingInv'
  <2> SUFFICES ASSUME pc \in {"open", "wait"}, stale, ~broken
               PROVE  \E u \in Callers : Suspended(todo'[u]) > 0 /\ Waking(todo'[u])
    BY <1>7 DEF WakingInv, Suspensions
  <2>1. PICK u \in Callers : Suspended(todo[u]) > 0 /\ Waking(todo[u])
    BY DEF Running, WakingInv, Suspensions
  <2>2. u # t
    BY <2>1, <1>5
  <2> QED
    BY <2>1, <2>2, <1>6
<1>14. RoundsInv'
  <2>1. \A u \in Callers : u # Ctl \/ ~controller => Plain(todo'[u])
    BY <1>4, <1>6 DEF Running, RoundsInv
  <2>2. ASSUME controller PROVE todo'[Ctl] = todo[Ctl]
    BY <2>2, <1>5, <1>6 DEF Running, RoundsInv, Managed, ThreadAssumption
  <2> QED
    BY <2>1, <2>2, <1>7 DEF Running, RoundsInv, TurnInv, RestInv, Given, Awaited, Passing
<1> QED
  BY <1>9, <1>10, <1>11, <1>12, <1>13, <1>14 DEF Running

\* A step of the controller's thread that leaves the mutexes of the dispatcher alone.
LEMMA CtlKept ==
  ASSUME Managed, Running, threaded, Ctl \in Callers, NEW q, WellNested(q),
         todo' = [todo EXCEPT ![Ctl] = q],
         Suspended(q) = Suspended(todo[Ctl]), Signalled(q) = Signalled(todo[Ctl]),
         ~Waking(todo[Ctl]), UNCHANGED <<locks, thread, controller, useLockA, pc, work, wait>>,
         {lockA', lockB', cue'} \subseteq BOOLEAN
  PROVE  TypeOK' /\ OwnersInv' /\ threaded' /\ SeenInv' /\ WakingInv' /\ ResetFinds'
<1>1. /\ todo'[Ctl] = q /\ \A u \in Callers \ {Ctl} : todo'[u] = todo[u]
      /\ todo' \in [Callers -> Seq(Steps)]
  BY DEF Running, TypeOK, WellNested
<1>2. UNCHANGED <<suspend, signal, master, suspendCount, signalCount, threaded, started, run,
                  starts, controller, useLockA, stale, promptSet, broken, seen, pc>>
  BY DEF locks, thread, work, wait
<1>3. \A u \in Callers : /\ WellNested(todo'[u])
                         /\ Suspended(todo'[u]) = Suspended(todo[u])
                         /\ Signalled(todo'[u]) = Signalled(todo[u])
  BY <1>1 DEF Running, OwnersInv
<1>4. TypeOK'
  BY <1>1, <1>2 DEF Running, TypeOK
<1>5. OwnersInv'
  <2>1. \A u \in Callers :
          /\ suspend = u <=> Suspended(todo'[u]) > 0
          /\ master = u <=> Suspended(todo'[u]) > 0
          /\ signal = u <=> Signalled(todo'[u]) > 0
    BY <1>3 DEF Running, OwnersInv, Suspensions, Signals
  <2>2. master # None => suspendCount = Suspended(todo'[master]) /\ signalCount = Signalled(todo'[master])
    BY <1>3 DEF Running, OwnersInv, Suspensions, Signals, TypeOK
  <2> QED
    BY <2>1, <2>2, <1>2, <1>3 DEF Running, OwnersInv, Suspensions, Signals
<1>6. threaded' /\ SeenInv' /\ ResetFinds'
  BY <1>2 DEF Running, SeenInv, ResetFinds
<1>7. WakingInv'
  <2> SUFFICES ASSUME pc \in {"open", "wait"}, stale, ~broken
               PROVE  \E u \in Callers : Suspended(todo'[u]) > 0 /\ Waking(todo'[u])
    BY <1>2 DEF WakingInv, Suspensions
  <2>1. PICK u \in Callers : Suspended(todo[u]) > 0 /\ Waking(todo[u])
    BY DEF Running, WakingInv, Suspensions
  <2> QED
    BY <2>1, <1>1
<1> QED
  BY <1>4, <1>5, <1>6, <1>7

\* The controller's thread is in a round only while the dispatcher's waits.
LEMMA InRound ==
  ASSUME Managed, Running, Ctl # None, todo[Ctl] # <<>>, Head(todo[Ctl]) \in CtlSteps
  PROVE  /\ Ctl \in Callers /\ threaded /\ controller /\ pc = "turn" /\ TurnInv
         /\ WellNested(todo[Ctl]) /\ ~Waking(todo[Ctl]) /\ ~cue
<1>1. Ctl \in Callers
  BY DEF Managed, ThreadAssumption
<1>2. threaded /\ WellNested(todo[Ctl]) /\ todo[Ctl] \in Seq(Steps) /\ Head(todo[Ctl]) = todo[Ctl][1]
  BY <1>1, CallerFacts
<1>3. ~Waking(todo[Ctl])
  BY <1>2 DEF Waking, CtlSteps
<1>4. controller
  BY <1>1, <1>2, TailPlain DEF Running, RoundsInv
<1>5. pc = "turn" /\ TurnInv /\ ~cue
  BY <1>4 DEF Running, RoundsInv, RestInv, TurnInv, CtlSteps
<1> QED
  BY <1>1, <1>2, <1>3, <1>4, <1>5

\* The steps that pass on the locks.
LEMMA PassingSteps ==
  ASSUME NEW x \in {"lockA", "lockB"}, NEW y \in {"unlockA", "unlockB"}
  PROVE  /\ <<x, y>> \o <<"resume">> = <<x, y, "resume">>
         /\ <<x, y, "resume">> = <<x>> \o <<y, "resume">>
         /\ <<y, "resume">> = <<y>> \o <<"resume">>
         /\ <<y, "resume">> \in Seq(Steps) /\ <<"resume">> \in Seq(Steps)
<1> DEFINE p == <<x, y, "resume">>
           q == <<y, "resume">>
           r == <<"resume">>
           w == <<x, y>>
<1>1. /\ p \in Seq(Steps) /\ q \in Seq(Steps) /\ r \in Seq(Steps) /\ w \in Seq(Steps)
      /\ Len(p) = 3 /\ p[1] = x /\ p[2] = y /\ p[3] = "resume"
      /\ Len(q) = 2 /\ q[1] = y /\ q[2] = "resume"
      /\ Len(r) = 1 /\ r[1] = "resume"
      /\ Len(w) = 2 /\ w[1] = x /\ w[2] = y
  BY DEF Steps
<1>2. x \in Steps /\ y \in Steps
  BY DEF Steps
<1> SUFFICES w \o r = p /\ p = <<x>> \o q /\ q = <<y>> \o r /\ q \in Seq(Steps) /\ r \in Seq(Steps)
  OBVIOUS
<1> HIDE DEF p, q, r, w
<1> DEFINE c1 == <<x>> \o q
           c2 == <<y>> \o r
           c3 == w \o r
<1>3. /\ c1 \in Seq(Steps) /\ Len(c1) = 3 /\ c1[1] = x /\ \A i \in 1..2 : c1[i + 1] = q[i]
      /\ c2 \in Seq(Steps) /\ Len(c2) = 2 /\ c2[1] = y /\ \A i \in 1..1 : c2[i + 1] = r[i]
      /\ c3 \in Seq(Steps) /\ Len(c3) = 3
      /\ \A i \in 1..3 : c3[i] = IF i <= 2 THEN w[i] ELSE r[i - 2]
  <2>1. /\ c1 \in Seq(Steps) /\ Len(c1) = Len(q) + 1 /\ c1[1] = x
        /\ \A i \in 1..Len(q) : c1[i + 1] = q[i]
    BY <1>1, <1>2, Prepended
  <2>2. /\ c2 \in Seq(Steps) /\ Len(c2) = Len(r) + 1 /\ c2[1] = y
        /\ \A i \in 1..Len(r) : c2[i + 1] = r[i]
    BY <1>1, <1>2, Prepended
  <2>3. /\ c3 \in Seq(Steps) /\ Len(c3) = Len(w) + Len(r)
        /\ \A i \in 1..Len(w) + Len(r) : c3[i] = IF i <= Len(w) THEN w[i] ELSE r[i - Len(w)]
    <3>1. w \in Seq(Steps) /\ r \in Seq(Steps)
      BY <1>1
    <3> QED  BY <3>1, ConcatProperties
  <2> HIDE DEF c1, c2, c3
  <2> QED
    BY <2>1, <2>2, <2>3, <1>1
<1> HIDE DEF c1, c2, c3
<1>4. c1[1 + 1] = q[1] /\ c1[2 + 1] = q[2] /\ c2[1 + 1] = r[1]
  BY <1>3
<1>5. \A i \in 1..3 : c1[i] = p[i] /\ c3[i] = p[i]
  BY <1>1, <1>3, <1>4
<1>6. \A i \in 1..2 : c2[i] = q[i]
  BY <1>1, <1>3, <1>4
<1>7. c1 = p
  <2>1. /\ c1 \in Seq(Steps) /\ p \in Seq(Steps) /\ Len(c1) = Len(p)
        /\ \A i \in 1..Len(c1) : c1[i] = p[i]
    BY <1>1, <1>3, <1>5
  <2> QED  BY <2>1, SeqEqual
<1>8. c2 = q
  <2>1. /\ c2 \in Seq(Steps) /\ q \in Seq(Steps) /\ Len(c2) = Len(q)
        /\ \A i \in 1..Len(c2) : c2[i] = q[i]
    BY <1>1, <1>3, <1>6
  <2> QED  BY <2>1, SeqEqual
<1>9. c3 = p
  <2>1. /\ c3 \in Seq(Steps) /\ p \in Seq(Steps) /\ Len(c3) = Len(p)
        /\ \A i \in 1..Len(c3) : c3[i] = p[i]
    BY <1>1, <1>3, <1>5
  <2> QED  BY <2>1, SeqEqual
<1> QED
  BY <1>1, <1>7, <1>8, <1>9 DEF c1, c2, c3

LEMMA PassingNested ==
  ASSUME NEW x \in {"lockA", "lockB"}, NEW y \in {"unlockA", "unlockB"}
  PROVE  /\ WellNested(<<x, y, "resume">>)
         /\ Suspended(<<x, y, "resume">>) = 1 /\ Signalled(<<x, y, "resume">>) = 0
         /\ WellNested(<<y, "resume">>)
         /\ Suspended(<<y, "resume">>) = 1 /\ Signalled(<<y, "resume">>) = 0
         /\ Tail(<<x, y, "resume">>) = <<y, "resume">> /\ Tail(<<y, "resume">>) = <<"resume">>
<1> DEFINE p == <<x, y, "resume">>
           q == <<y, "resume">>
           r == <<"resume">>
<1>1. p = <<x>> \o q /\ q = <<y>> \o r /\ q \in Seq(Steps) /\ r \in Seq(Steps)
  BY PassingSteps
<1>2. Steady(r) /\ Suspended(r) = 1 /\ Signalled(r) = 0
  BY ResumeAlone
<1> SUFFICES /\ WellNested(p) /\ Suspended(p) = 1 /\ Signalled(p) = 0
             /\ WellNested(q) /\ Suspended(q) = 1 /\ Signalled(q) = 0
             /\ Tail(p) = q /\ Tail(q) = r
  OBVIOUS
<1> HIDE DEF p, q, r
<1> USE DEF Steps, StopSteps, InnerSteps, SuspendStep, SignalStep
<1>3. Steady(q) /\ Suspended(q) = 1 /\ Signalled(q) = 0
  <2>1. /\ y \in Steps \ StopSteps /\ SuspendStep(y) = 0 /\ SignalStep(y) = 0
        /\ y \notin {"awaitStart", "lockSuspend", "lockSignal", "dispatch", "change", "interruptOrFail"}
    OBVIOUS
  <2> HIDE DEF Steps, StopSteps, InnerSteps, SuspendStep, SignalStep
  <2>2. Suspended(r) + SuspendStep(y) = 1 /\ Signalled(r) + SignalStep(y) = 0
    BY <1>2, <2>1
  <2>3. /\ Steady(<<y>> \o r)
        /\ Suspended(<<y>> \o r) = 1 /\ Signalled(<<y>> \o r) = 0
    BY <1>2, <2>1, <2>2, StepBefore
  <2> QED  BY <1>1, <2>3
<1>4. Steady(p) /\ Suspended(p) = 1 /\ Signalled(p) = 0
  <2>1. /\ x \in Steps \ StopSteps /\ SuspendStep(x) = 0 /\ SignalStep(x) = 0
        /\ x \notin {"awaitStart", "lockSuspend", "lockSignal", "dispatch", "change", "interruptOrFail"}
    OBVIOUS
  <2> HIDE DEF Steps, StopSteps, InnerSteps, SuspendStep, SignalStep
  <2>2. Suspended(q) + SuspendStep(x) = 1 /\ Signalled(q) + SignalStep(x) = 0
    BY <1>3, <2>1
  <2>3. /\ Steady(<<x>> \o q)
        /\ Suspended(<<x>> \o q) = 1 /\ Signalled(<<x>> \o q) = 0
    BY <1>3, <2>1, <2>2, StepBefore
  <2> QED  BY <1>1, <2>3
<1>5. Tail(p) = q /\ Tail(q) = r
  BY <1>1, Prepended
<1> QED
  BY <1>3, <1>4, <1>5 DEF Steady

LEMMA OnCueKeeps == ASSUME Managed, Running, Ctl # None, OnCue PROVE Running'
<1>1. Ctl \in Callers /\ todo[Ctl] = <<>> /\ cue
  BY DEF OnCue, Idle, Managed, ThreadAssumption
<1>2. threaded /\ controller
  BY <1>1 DEF Running, RoundsInv
<1>3. pc = "turn" /\ ~Given /\ Awaited
  BY <1>1, <1>2 DEF Running, RoundsInv, RestInv, TurnInv
<1>4. /\ WellNested(OnDispatch) /\ Suspended(OnDispatch) = 0 /\ Signalled(OnDispatch) = 0
      /\ Handing(OnDispatch)
  BY OnDispatchNested DEF Steady
<1>5. Suspended(todo[Ctl]) = 0 /\ Signalled(todo[Ctl]) = 0 /\ ~Waking(todo[Ctl])
  BY <1>1, NestingEmpty, EmptySeq DEF Waking
<1>6. TypeOK' /\ OwnersInv' /\ threaded' /\ SeenInv' /\ WakingInv' /\ ResetFinds'
  <2>1. lockA' \in BOOLEAN /\ lockB' \in BOOLEAN /\ cue' \in BOOLEAN
    BY DEF OnCue, Running, TypeOK
  <2> QED
    BY <1>1, <1>2, <1>4, <1>5, <2>1, CtlKept DEF OnCue
<1>7. RoundsInv'
  <2>1. todo'[Ctl] = OnDispatch /\ \A u \in Callers \ {Ctl} : todo'[u] = todo[u]
    BY <1>1 DEF OnCue, Running, TypeOK
  <2> QED
    BY <1>2, <1>3, <1>4, <2>1 DEF OnCue, Running, RoundsInv, TurnInv, Given, Awaited
<1> QED
  BY <1>6, <1>7 DEF Running

\* The round is in the phase that its next step tells.
LEMMA DispatchHands ==
  ASSUME Managed, Running, Ctl # None, todo[Ctl] # <<>>, Head(todo[Ctl]) \in {"dispatch", "hand"}
  PROVE  Handing(todo[Ctl]) /\ ~Given /\ Awaited
<1>1. TurnInv
  BY InRound DEF CtlSteps
<1>2. todo[Ctl] # Passing /\ todo[Ctl] # Tail(Passing) /\ todo[Ctl] # <<"resume">>
  <2>1. Head(Passing) \in {"lockA", "lockB"} /\ Head(<<"resume">>) = "resume"
    BY DEF Passing
  <2>2. Head(Tail(Passing)) \in {"unlockA", "unlockB"}
    BY DEF Passing
  <2> QED
    BY <2>1, <2>2
<1> QED
  BY <1>1, <1>2 DEF TurnInv

\* A step in a round that leaves the controller's thread in it.
LEMMA StillInRound ==
  ASSUME Managed, Running, Ctl # None, At(Ctl, "dispatch"), NEW q, WellNested(q), Handing(q),
         todo' = [todo EXCEPT ![Ctl] = q], Suspended(q) = 1, Signalled(q) = 0,
         UNCHANGED <<locks, thread, turns, pc, work, wait>>
  PROVE  Running'
<1>1. /\ Ctl \in Callers /\ threaded /\ controller /\ pc = "turn" /\ TurnInv
      /\ WellNested(todo[Ctl]) /\ ~Waking(todo[Ctl]) /\ ~cue
  BY InRound DEF At, CtlSteps
<1>2. Suspended(todo[Ctl]) = 1 /\ Signalled(todo[Ctl]) = 0
  BY <1>1, FitsAtOnce DEF Fits, At
<1>3. ~Given /\ Awaited
  BY DispatchHands DEF At
<1>4. TypeOK' /\ OwnersInv' /\ threaded' /\ SeenInv' /\ WakingInv' /\ ResetFinds'
  <2>1. lockA' \in BOOLEAN /\ lockB' \in BOOLEAN /\ cue' \in BOOLEAN /\ UNCHANGED <<controller, useLockA>>
    BY DEF turns, Running, TypeOK
  <2> QED
    BY <1>1, <1>2, <2>1, CtlKept
<1>5. RoundsInv'
  <2>1. todo'[Ctl] = q /\ \A u \in Callers \ {Ctl} : todo'[u] = todo[u]
    BY <1>1 DEF Running, TypeOK
  <2> QED
    BY <1>1, <1>3, <2>1 DEF turns, Running, RoundsInv, TurnInv, Given, Awaited
<1> QED
  BY <1>4, <1>5 DEF Running

LEMMA CtlCallKeeps == ASSUME Managed, Running, Ctl # None, CtlCall PROVE Running'
<1> DEFINE s == todo[Ctl]
<1>1. s # <<>> /\ Head(s) = "dispatch"
  BY DEF CtlCall, At
<1>2. Ctl \in Callers /\ WellNested(s) /\ s \in Seq(Steps) /\ Handing(s)
  BY <1>1, InRound, DispatchHands DEF CtlSteps, WellNested
<1>3. Suspended(s) = 1 /\ Signalled(s) = 0
  BY <1>1, <1>2, FitsAtOnce DEF Fits
<1>4. PICK call \in Callbacks : Replace(Ctl, Body(call) \o <<"dispatch">>)
  BY DEF CtlCall
<1>5. call \in {"change", "prompt"}
  BY DEF Managed, ThreadAssumption, Stoppable
<1> DEFINE b == Body(call)
           q == b \o s
<1>6. Plain(b) /\ b \in Seq(Steps)
  BY <1>5, BodyPlain
<1>7. (b \o <<"dispatch">>) \o Tail(s) = q
  <2>1. /\ <<"dispatch">> \in Seq(Steps) /\ Tail(s) \in Seq(Steps)
        /\ s = <<"dispatch">> \o Tail(s)
    BY <1>1, <1>2, HeadAndTail DEF Steps
  <2> DEFINE d == <<"dispatch">>
             v == Tail(s)
  <2>2. b \in Seq(Steps) /\ d \in Seq(Steps) /\ v \in Seq(Steps) /\ s = d \o v
    BY <1>6, <2>1
  <2> HIDE DEF b, d, v
  <2>3. (b \o d) \o v = b \o (d \o v)
    BY <2>2, ConcatAssociative
  <2>4. (b \o d) \o v = b \o s
    BY <2>2, <2>3
  <2> QED
    BY <2>4 DEF d, v
<1>8. todo' = [todo EXCEPT ![Ctl] = q]
  BY <1>4, <1>7 DEF Replace
<1>9. WellNested(q) /\ Suspended(q) = 1 /\ Signalled(q) = 0
  <2>1. CASE call = "change"
    BY <2>1, <1>1, <1>2, <1>3, ChangeTimersNested DEF Body, Steady
  <2>2. CASE call = "prompt"
    BY <2>2, <1>1, <1>2, <1>3, PromptThreadNested DEF Body, Steady
  <2> QED  BY <2>1, <2>2, <1>5
<1>10. Handing(q)
  BY <1>2, <1>6, ConcatPlain
<1> HIDE DEF q
<1> QED
  BY <1>8, <1>9, <1>10, StillInRound DEF CtlCall

LEMMA CtlDispatchKeeps == ASSUME Managed, Running, Ctl # None, CtlDispatch PROVE Running'
<1> DEFINE s == todo[Ctl]
           r == Tail(s)
<1>1. s # <<>> /\ Head(s) = "dispatch" /\ todo \in [Callers -> Seq(Steps)]
  BY DEF CtlDispatch, At, Running, TypeOK
<1>2. Ctl \in Callers /\ WellNested(s) /\ s \in Seq(Steps) /\ Handing(s)
  BY <1>1, InRound, DispatchHands DEF CtlSteps, WellNested
<1>3. Suspended(s) = 1 /\ Signalled(s) = 0
  BY <1>1, <1>2, FitsAtOnce DEF Fits
<1>4. /\ WellNested(r) /\ Suspended(s) = Suspended(r) + 0 /\ Signalled(s) = Signalled(r) + 0
      /\ Suspended(r) \in 0..3 /\ Signalled(r) \in 0..2
  BY <1>1, <1>2, Ahead DEF SuspendStep, SignalStep, Fits
<1>5. Handing(r)
  BY <1>1, <1>2, TailHanding
<1>6. todo' = [todo EXCEPT ![Ctl] = r]
  BY <1>1, <1>2, DoneLeaves DEF CtlDispatch
<1>7. At(Ctl, "dispatch") /\ UNCHANGED <<locks, thread, turns, pc, work, wait>>
  BY DEF CtlDispatch
<1> HIDE DEF r, s
<1>8. Suspended(r) = 1 /\ Signalled(r) = 0
  BY <1>3, <1>4
<1> QED
  BY <1>4, <1>5, <1>6, <1>7, <1>8, StillInRound

LEMMA CtlResetKeeps == ASSUME Managed, Running, Ctl # None, CtlReset PROVE Running'
<1>1. pc = "turn"
  BY InRound DEF CtlReset, At, CtlSteps
<1>2. TypeOK'
  <2>1. /\ broken' \in BOOLEAN /\ seen' \in BOOLEAN /\ todo' \in [Callers -> Seq(Steps)]
    BY DEF CtlReset, ResetBreak, Running, TypeOK
  <2>2. /\ suspend' = suspend /\ signal' = signal /\ master' = master
        /\ suspendCount' = suspendCount /\ signalCount' = signalCount
        /\ threaded' = threaded /\ started' = started /\ run' = run /\ starts' = starts
        /\ controller' = controller /\ lockA' = lockA /\ lockB' = lockB
        /\ useLockA' = useLockA /\ cue' = cue
        /\ stale' = stale /\ promptSet' = promptSet /\ UNCHANGED pc
    BY DEF CtlReset, locks, thread, turns, work
  <2> QED
    BY <2>1, <2>2, Typed, TypedAfter DEF Running
<1>3. OwnersInv'
  BY DEF CtlReset, Running, OwnersInv, locks, Suspensions, Signals
<1>4. threaded' /\ SeenInv' /\ ResetFinds' /\ WakingInv'
  BY <1>1 DEF CtlReset, ResetBreak, Running, SeenInv, ResetFinds, WakingInv, thread, turns
<1>5. RoundsInv'
  BY DEF CtlReset, Running, RoundsInv, TurnInv, RestInv, Given, Awaited, Passing, turns
<1> QED
  BY <1>2, <1>3, <1>4, <1>5 DEF Running

LEMMA CtlHandKeeps == ASSUME Managed, Running, Ctl # None, CtlHand PROVE Running'
<1> DEFINE s == todo[Ctl]
<1>1. s # <<>> /\ Head(s) = "hand"
  BY DEF CtlHand, At
<1>2. /\ Ctl \in Callers /\ threaded /\ controller /\ pc = "turn" /\ ~cue
      /\ WellNested(s) /\ s \in Seq(Steps) /\ ~Waking(s) /\ Handing(s) /\ ~Given /\ Awaited
  BY <1>1, InRound, DispatchHands DEF CtlSteps, WellNested
<1>3. Tail(s) = <<"resume">>
  BY <1>1, <1>2, TailHanding
<1>4. Suspended(s) = 1 /\ Signalled(s) = 0
  <2>1. /\ Suspended(s) = Suspended(Tail(s)) + SuspendStep("hand")
        /\ Signalled(s) = Signalled(Tail(s)) + SignalStep("hand")
    BY <1>1, <1>2, Ahead
  <2>2. Suspended(Tail(s)) = 1 /\ Signalled(Tail(s)) = 0
    BY <1>3, ResumeAlone
  <2>3. SuspendStep("hand") = 0 /\ SignalStep("hand") = 0
    BY DEF SuspendStep, SignalStep
  <2> HIDE DEF s
  <2> QED
    BY <2>1, <2>2, <2>3
<1>5. todo' = [todo EXCEPT ![Ctl] = Passing]
  BY <1>3, PassingSteps DEF CtlHand, Replace, Passing
<1>6. WellNested(Passing) /\ Suspended(Passing) = 1 /\ Signalled(Passing) = 0
  BY PassingNested DEF Passing
<1>7. TypeOK' /\ OwnersInv' /\ threaded' /\ SeenInv' /\ WakingInv' /\ ResetFinds'
  <2>1. lockA' \in BOOLEAN /\ lockB' \in BOOLEAN /\ cue' \in BOOLEAN /\ UNCHANGED <<controller, useLockA>>
    BY DEF CtlHand, turns, Running, TypeOK
  <2> QED
    BY <1>2, <1>4, <1>5, <1>6, <2>1, CtlKept DEF CtlHand
<1>8. RoundsInv'
  <2>1. todo'[Ctl] = Passing /\ \A u \in Callers \ {Ctl} : todo'[u] = todo[u]
    BY <1>2, <1>5 DEF Running, TypeOK
  <2>2. Passing' = Passing
    BY DEF CtlHand, turns, Passing
  <2> QED
    BY <1>2, <2>1, <2>2 DEF CtlHand, turns, Running, RoundsInv, TurnInv, Given, Awaited
<1> QED
  BY <1>7, <1>8 DEF Running

\* What is known of the steps that pass on the locks.
LEMMA PassingFacts ==
  /\ WellNested(Passing) /\ Suspended(Passing) = 1 /\ Signalled(Passing) = 0
  /\ WellNested(Tail(Passing)) /\ Suspended(Tail(Passing)) = 1 /\ Signalled(Tail(Passing)) = 0
  /\ Tail(Tail(Passing)) = <<"resume">>
  /\ Head(Passing) = IF useLockA THEN "lockB" ELSE "lockA"
  /\ Head(Tail(Passing)) = IF useLockA THEN "unlockA" ELSE "unlockB"
<1>1. CASE useLockA
  <2> DEFINE p == <<"lockB", "unlockA", "resume">>
             q == <<"unlockA", "resume">>
  <2>1. /\ WellNested(p) /\ Suspended(p) = 1 /\ Signalled(p) = 0
        /\ WellNested(q) /\ Suspended(q) = 1 /\ Signalled(q) = 0
        /\ Tail(p) = q /\ Tail(q) = <<"resume">>
    BY PassingNested
  <2>2. Passing = p /\ Head(p) = "lockB" /\ Head(q) = "unlockA"
    BY <1>1 DEF Passing
  <2> HIDE DEF p, q
  <2> QED
    BY <1>1, <2>1, <2>2
<1>2. CASE ~useLockA
  <2> DEFINE p == <<"lockA", "unlockB", "resume">>
             q == <<"unlockB", "resume">>
  <2>1. /\ WellNested(p) /\ Suspended(p) = 1 /\ Signalled(p) = 0
        /\ WellNested(q) /\ Suspended(q) = 1 /\ Signalled(q) = 0
        /\ Tail(p) = q /\ Tail(q) = <<"resume">>
    BY PassingNested
  <2>2. Passing = p /\ Head(p) = "lockA" /\ Head(q) = "unlockB"
    BY <1>2 DEF Passing
  <2> HIDE DEF p, q
  <2> QED
    BY <1>2, <2>1, <2>2
<1> QED
  BY <1>1, <1>2

LEMMA PassesOn ==
  ASSUME Managed, Running, Ctl # None, todo[Ctl] # <<>>,
         Head(todo[Ctl]) \in {"lockA", "lockB", "unlockA", "unlockB"}
  PROVE  /\ Awaited /\ ~cue
         /\ Head(todo[Ctl]) \in {"lockA", "lockB"} =>
              todo[Ctl] = Passing /\ ~Given /\ Head(todo[Ctl]) = IF useLockA THEN "lockB" ELSE "lockA"
         /\ Head(todo[Ctl]) \in {"unlockA", "unlockB"} =>
              /\ todo[Ctl] = Tail(Passing) /\ Given
              /\ Head(todo[Ctl]) = IF useLockA THEN "unlockA" ELSE "unlockB"
<1>1. TurnInv /\ WellNested(todo[Ctl]) /\ todo[Ctl] \in Seq(Steps)
  BY InRound DEF CtlSteps, WellNested
<1>2. todo[Ctl] # <<"resume">>
  <2>1. Head(<<"resume">>) = "resume"
    OBVIOUS
  <2> QED
    BY <2>1
<1>3. ~Handing(todo[Ctl])
  BY <1>1, TailHanding DEF CtlSteps
<1>4. \/ todo[Ctl] = Passing /\ ~Given /\ Awaited /\ ~cue
      \/ todo[Ctl] = Tail(Passing) /\ Given /\ Awaited /\ ~cue
  BY <1>1, <1>2, <1>3 DEF TurnInv
<1>5. /\ Head(Passing) = IF useLockA THEN "lockB" ELSE "lockA"
      /\ Head(Tail(Passing)) = IF useLockA THEN "unlockA" ELSE "unlockB"
  BY PassingFacts
<1> QED
  BY <1>4, <1>5

LEMMA CtlLockKeeps == ASSUME Managed, Running, Ctl # None, CtlLock PROVE Running'
<1> DEFINE s == todo[Ctl]
           r == Tail(s)
<1>1. s # <<>> /\ Head(s) \in {"lockA", "lockB"} /\ todo \in [Callers -> Seq(Steps)]
  BY DEF CtlLock, At, Running, TypeOK
<1>2. /\ Ctl \in Callers /\ threaded /\ controller /\ pc = "turn" /\ ~cue /\ ~Waking(s)
      /\ s = Passing /\ ~Given /\ Awaited
      /\ Head(s) = IF useLockA THEN "lockB" ELSE "lockA"
  BY <1>1, InRound, PassesOn DEF CtlSteps
<1>3. /\ WellNested(s) /\ Suspended(s) = 1 /\ Signalled(s) = 0
      /\ WellNested(r) /\ Suspended(r) = 1 /\ Signalled(r) = 0
  BY <1>2, PassingFacts
<1>4. todo' = [todo EXCEPT ![Ctl] = r]
  BY <1>1, <1>2, DoneLeaves DEF CtlLock
<1>5. UNCHANGED <<locks, thread, controller, useLockA, cue, work, wait, pc>>
  BY DEF CtlLock
<1>6. /\ IF useLockA THEN lockB' = TRUE /\ lockA' = lockA ELSE lockA' = TRUE /\ lockB' = lockB
      /\ lockA' \in BOOLEAN /\ lockB' \in BOOLEAN /\ cue' \in BOOLEAN
  BY <1>2, <1>5 DEF CtlLock, At, Running, TypeOK
<1>7. r = Tail(Passing) /\ Passing' = Passing
  BY <1>2, <1>5 DEF Passing
<1> HIDE DEF r, s
<1>8. TypeOK' /\ OwnersInv' /\ threaded' /\ SeenInv' /\ WakingInv' /\ ResetFinds'
  <2>1. Suspended(r) = Suspended(todo[Ctl]) /\ Signalled(r) = Signalled(todo[Ctl])
    BY <1>3 DEF s
  <2>2. ~Waking(todo[Ctl])
    BY <1>2 DEF s
  <2> QED
    BY <1>2, <1>3, <1>4, <1>5, <1>6, <2>1, <2>2, CtlKept
<1>9. RoundsInv'
  <2>1. todo'[Ctl] = r /\ \A u \in Callers \ {Ctl} : todo'[u] = todo[u]
    BY <1>1, <1>2, <1>4
  <2>2. Given' /\ Awaited'
    BY <1>2, <1>5, <1>6 DEF Given, Awaited
  <2>3. TurnInv'
    BY <1>2, <1>5, <1>7, <2>1, <2>2 DEF TurnInv
  <2> QED
    BY <1>2, <1>5, <2>1, <2>3 DEF Running, RoundsInv
<1> QED
  BY <1>8, <1>9 DEF Running

LEMMA CtlUnlockKeeps == ASSUME Managed, Running, Ctl # None, CtlUnlock PROVE Running'
<1> DEFINE s == todo[Ctl]
           r == Tail(s)
<1>1. s # <<>> /\ Head(s) \in {"unlockA", "unlockB"} /\ todo \in [Callers -> Seq(Steps)]
  BY DEF CtlUnlock, At, Running, TypeOK
<1>2. /\ Ctl \in Callers /\ threaded /\ controller /\ pc = "turn" /\ ~cue /\ ~Waking(s)
      /\ s = Tail(Passing) /\ Given /\ Awaited
      /\ Head(s) = IF useLockA THEN "unlockA" ELSE "unlockB"
  BY <1>1, InRound, PassesOn DEF CtlSteps
<1>3. r = <<"resume">>
  BY <1>2, PassingFacts
<1>4. /\ WellNested(s) /\ Suspended(s) = 1 /\ Signalled(s) = 0
      /\ WellNested(r) /\ Suspended(r) = 1 /\ Signalled(r) = 0
  BY <1>2, <1>3, PassingFacts, ResumeAlone DEF Steady
<1>5. todo' = [todo EXCEPT ![Ctl] = r]
  BY <1>1, <1>2, DoneLeaves DEF CtlUnlock
<1>6. UNCHANGED <<locks, thread, controller, useLockA, cue, work, wait, pc>>
  BY DEF CtlUnlock
<1>7. /\ IF useLockA THEN lockA' = FALSE /\ lockB' = lockB ELSE lockB' = FALSE /\ lockA' = lockA
      /\ lockA' \in BOOLEAN /\ lockB' \in BOOLEAN /\ cue' \in BOOLEAN
  BY <1>2, <1>6 DEF CtlUnlock, At, Running, TypeOK
<1> HIDE DEF r, s
<1>8. TypeOK' /\ OwnersInv' /\ threaded' /\ SeenInv' /\ WakingInv' /\ ResetFinds'
  <2>1. Suspended(r) = Suspended(todo[Ctl]) /\ Signalled(r) = Signalled(todo[Ctl])
    BY <1>4 DEF s
  <2>2. ~Waking(todo[Ctl])
    BY <1>2 DEF s
  <2> QED
    BY <1>2, <1>4, <1>5, <1>6, <1>7, <2>1, <2>2, CtlKept
<1>9. RoundsInv'
  <2>1. todo'[Ctl] = r /\ \A u \in Callers \ {Ctl} : todo'[u] = todo[u]
    BY <1>1, <1>2, <1>5
  <2>2. Given' /\ ~Awaited'
    BY <1>2, <1>6, <1>7 DEF Given, Awaited
  <2>3. TurnInv'
    BY <1>2, <1>3, <1>6, <2>1, <2>2 DEF TurnInv
  <2> QED
    BY <1>2, <1>6, <2>1, <2>3 DEF Running, RoundsInv
<1> QED
  BY <1>8, <1>9 DEF Running

\* While the dispatcher is stopped.

\* What is common to the steps that Stop() has overtaken: they keep the counts of no
\* caller, and whoever takes suspend_mutex keeps it until the thread is started.
LEMMA StillHalted ==
  ASSUME Managed, Halted, NEW t \in Callers, todo[t] # <<>>,
         todo' = [todo EXCEPT ![t] = Tail(todo[t])],
         UNCHANGED <<threaded, started, starts, controller, lockA, lockB, useLockA, cue, seen, pc>>,
         run' \in {run, FALSE}, broken' \in {broken, FALSE},
         stale' \in BOOLEAN, promptSet' \in BOOLEAN,
         {suspend', signal'} \subseteq Callers \cup {Worker, None},
         suspendCount' \in 0..CountMax, signalCount' \in 0..CountMax,
         \/ UNCHANGED <<suspend, master, suspendCount, signalCount>>
         \/ master' = t /\ suspend' = t /\ master \in {None, t}
  PROVE  Halted'
<1> DEFINE s == todo[t]
           r == Tail(s)
<1>1. /\ WellNested(r) /\ (r # <<>> => Head(r) # "lockSignal") /\ r \in Seq(Steps)
  <2>1. WellNested(s)
    BY DEF Halted
  <2>2. Steady(r)
    BY <2>1, Ahead
  <2> HIDE DEF r
  <2> QED
    BY <2>2 DEF Steady, WellNested
<1>2. /\ todo'[t] = r /\ \A u \in Callers \ {t} : todo'[u] = todo[u]
      /\ todo' \in [Callers -> Seq(Steps)]
  BY <1>1 DEF Halted, TypeOK
<1>3. Stoppable /\ Ctl = None
  BY DEF Halted, Idle, Managed
<1> HIDE DEF r, s
<1>4. TypeOK'
  <2>1. TypeOK
    BY DEF Halted
  <2>2. run' \in BOOLEAN /\ broken' \in BOOLEAN /\ master' \in Callers \cup {None}
    BY <2>1, Typed
  <2>3. suspend' \in Callers \cup {Worker, None} /\ signal' \in Callers \cup {Worker, None}
    OBVIOUS
  <2> QED
    BY <1>2, <2>1, <2>2, <2>3, Typed, TypedAfter
<1>5. ASSUME NEW u \in Callers
      PROVE  WellNested(todo'[u]) /\ (todo'[u] # <<>> /\ Head(todo'[u]) = "lockSignal" => master' = u)
  <2>1. CASE u = t
    BY <2>1, <1>1, <1>2
  <2>2. CASE u # t
    <3>1. WellNested(todo[u]) /\ (todo[u] # <<>> /\ Head(todo[u]) = "lockSignal" => master = u)
      BY DEF Halted, At
    <3>2. master = u => master' = u
      BY <2>2 DEF Managed, ThreadAssumption
    <3> QED
      BY <2>2, <1>2, <3>1, <3>2
  <2> QED  BY <2>1, <2>2
<1>6. /\ master' # None => suspend' = master'
      /\ master' = None => suspendCount' = 0 /\ signalCount' = 0
  BY DEF Halted, Managed, ThreadAssumption
<1>7. /\ ~threaded' /\ ~started' /\ ~controller' /\ ~cue' /\ ~seen'
      /\ pc' \in {"off", "dispatch", "exit"} /\ (pc' = "dispatch" => ~run')
  <2>1. ~run => ~run'
    OBVIOUS
  <2> QED
    BY <2>1 DEF Halted
<1> QED
  BY <1>3, <1>4, <1>5, <1>6, <1>7 DEF Halted, At

\* A step of SuspendThread() and its likes finds thread_id NULL, or takes a mutex.
LEMMA LockStepHalted ==
  ASSUME Managed, Halted, NEW t \in Callers,
         \/ Suspend(t) \/ AwaitStart(t) \/ LockSuspend(t) \/ Resume(t)
         \/ Interrupt(t) \/ LockSignal(t) \/ ReleaseSignal(t)
  PROVE  Halted'
<1> USE DEF locks, thread, turns, work, wait
<1>1. ~threaded /\ ~started /\ TypeOK /\ CountMax \in Nat /\ CountMax >= 3
  BY DEF Halted, Managed, ThreadAssumption
<1>2. todo \in [Callers -> Seq(Steps)] /\ stale \in BOOLEAN /\ promptSet \in BOOLEAN
  BY <1>1 DEF TypeOK
<1>3. /\ {suspend, signal} \subseteq Callers \cup {Worker, None}
      /\ suspendCount \in 0..CountMax /\ signalCount \in 0..CountMax /\ 1 \in 0..CountMax
  BY <1>1 DEF TypeOK
<1>4. CASE Suspend(t) \/ Resume(t) \/ Interrupt(t) \/ ReleaseSignal(t)
  <2>1. /\ todo[t] # <<>> /\ Done(t)
        /\ UNCHANGED <<suspend, signal, master, suspendCount, signalCount, threaded, started, run,
                       starts, controller, lockA, lockB, useLockA, cue, stale, promptSet, broken, seen, pc>>
    BY <1>1, <1>4 DEF Suspend, Resume, Interrupt, ReleaseSignal, At
  <2>2. todo' = [todo EXCEPT ![t] = Tail(todo[t])]
    BY <2>1, <1>2, DoneLeaves
  <2> QED
    BY <1>2, <1>3, <2>1, <2>2, StillHalted
<1>5. CASE AwaitStart(t)
  BY <1>1, <1>5 DEF AwaitStart
<1>6. CASE LockSuspend(t)
  <2>1. /\ todo[t] # <<>> /\ Done(t) /\ suspend = None
        /\ suspend' = t /\ master' = t /\ suspendCount' = 1
        /\ UNCHANGED <<signal, signalCount, threaded, started, run,
                       starts, controller, lockA, lockB, useLockA, cue, stale, promptSet, broken, seen, pc>>
    BY <1>6 DEF LockSuspend, At
  <2>2. todo' = [todo EXCEPT ![t] = Tail(todo[t])]
    BY <2>1, <1>2, DoneLeaves
  <2>3. master = None /\ signalCount = 0
    BY <2>1 DEF Halted
  <2> QED
    BY <1>2, <1>3, <2>1, <2>2, <2>3, StillHalted
<1>7. CASE LockSignal(t)
  <2>1. /\ todo[t] # <<>> /\ Done(t) /\ At(t, "lockSignal")
        /\ signal' = t /\ signalCount' = 1
        /\ UNCHANGED <<suspend, master, suspendCount, threaded, started, run,
                       starts, controller, lockA, lockB, useLockA, cue, stale, promptSet, broken, seen, pc>>
    BY <1>7 DEF LockSignal, At
  <2>2. todo' = [todo EXCEPT ![t] = Tail(todo[t])]
    BY <2>1, <1>2, DoneLeaves
  <2>3. master = t /\ suspend = t
    BY <2>1 DEF Halted, Managed, ThreadAssumption
  <2> QED
    BY <1>2, <1>3, <2>1, <2>2, <2>3, StillHalted
<1> QED
  BY <1>4, <1>5, <1>6, <1>7

LEMMA OtherStepHalted ==
  ASSUME Managed, Halted, NEW t \in Callers,
         \/ ChangeTimer(t) \/ ChangeStream(t) \/ SetPrompt(t)
         \/ Unhook(t) \/ Halt(t) \/ Join(t) \/ Await(t)
  PROVE  Halted'
<1>1. ~threaded /\ ~started /\ ~controller /\ TypeOK
  BY DEF Halted
<1>2. todo \in [Callers -> Seq(Steps)] /\ stale \in BOOLEAN /\ promptSet \in BOOLEAN
  BY <1>1 DEF TypeOK
<1>3. /\ {suspend, signal} \subseteq Callers \cup {Worker, None}
      /\ suspendCount \in 0..CountMax /\ signalCount \in 0..CountMax
  BY <1>1 DEF TypeOK
<1>4. todo[t] # <<>> /\ Done(t)
  BY <1>1 DEF ChangeTimer, ChangeStream, SetPrompt, Unhook, Halt, Join, Await, At, Done
<1>5. UNCHANGED <<suspend, signal, master, suspendCount, signalCount, starts, lockA, lockB,
                  useLockA, cue, seen, pc>>
  BY <1>1 DEF ChangeTimer, ChangeStream, SetPrompt, Unhook, Halt, Join, Await, OnThreadStop,
              locks, thread, turns, work, wait
<1>6. /\ UNCHANGED <<threaded, started, controller>>
      /\ run' \in {run, FALSE} /\ broken' \in {broken, FALSE}
      /\ stale' \in BOOLEAN /\ promptSet' \in BOOLEAN
  BY <1>1, <1>2 DEF ChangeTimer, ChangeStream, SetPrompt, Unhook, Halt, Join, Await, OnThreadStop,
                    TypeOK, locks, thread, turns, work, wait
<1>7. todo' = [todo EXCEPT ![t] = Tail(todo[t])]
  BY <1>2, <1>4, DoneLeaves
<1> QED
  BY <1>2, <1>3, <1>4, <1>5, <1>6, <1>7, StillHalted

\* The thread ends the round in which Stop() was called, and nobody is in another.
LEMMA OthersHalted ==
  ASSUME Managed, Halted,
         \/ Ctl # None /\ (CtlStep \/ CtlCall \/ CtlReset \/ CtlDispatch)
         \/ WorkerStep \/ WakeOtherwise \/ OwnCall
  PROVE  Halted'
<1>1. ~threaded /\ ~seen /\ ~cue /\ ~controller /\ pc \in {"off", "dispatch", "exit"}
  BY DEF Halted
<1>2. ASSUME Ctl # None, CtlStep \/ CtlCall \/ CtlReset \/ CtlDispatch PROVE FALSE
  <2>1. Ctl \in Callers /\ todo[Ctl] = <<>>
    BY <1>2 DEF Halted, Idle, Managed, ThreadAssumption
  <2> QED
    BY <1>1, <1>2, <2>1 DEF CtlStep, OnCue, CtlHand, CtlLock, CtlUnlock, CtlCall, CtlReset,
       CtlDispatch, At
<1>3. CASE Dispatch
  <2>1. /\ pc' = "exit" /\ UNCHANGED <<locks, thread, turns, work, wait, todo>>
        /\ pc = "dispatch"
    BY <1>3 DEF Dispatch, Halted
  <2> QED
    BY <2>1 DEF Halted, TypeOK, Idle, At, locks, thread, turns, work, wait
<1>4. CASE Exit
  <2>1. /\ pc = "exit" /\ pc' = "off" /\ suspend' \in {suspend, None}
        /\ suspend # Worker => UNCHANGED suspend
        /\ UNCHANGED <<signal, master, suspendCount, signalCount, thread, turns, work, wait, todo>>
    BY <1>4 DEF Exit
  <2>2. master # None => suspend' = master
    BY <2>1 DEF Halted, TypeOK, Managed, ThreadAssumption
  <2> QED
    BY <2>1, <2>2 DEF Halted, TypeOK, Idle, At, thread, turns, work, wait
<1>5. CASE OwnCall
  <2>1. /\ UNCHANGED <<locks, thread, turns, wait, pc, todo>>
        /\ stale' \in BOOLEAN /\ promptSet' \in BOOLEAN
    BY <1>1, <1>5 DEF OwnCall, Halted, TypeOK
  <2> QED
    BY <2>1 DEF Halted, TypeOK, Idle, At, locks, thread, turns, wait
<1> QED
  BY <1>1, <1>2, <1>3, <1>4, <1>5 DEF WorkerStep, Begin, Enter, Latch, OpenWindow, WakeOnBreak,
     CloseWindow, Awake, OwnReset, ResetBreak, Yield, Cue, TakeTurn, Relock, WakeOtherwise

-----------------------------------------------------------------------------
LEMMA NextKeeps == ASSUME Managed, IInv, [Next]_vars PROVE IInv'
<1>1. ASSUME Running, Next PROVE IInv'
  <2>1. CASE StartThread
    BY <1>1, <2>1 DEF StartThread, Running
  <2>2. CASE \E t \in Callers : Call(t) \/ CallerStep(t)
    BY <1>1, <2>2, CallKeeps, CallerStepKeeps DEF IInv
  <2>3. CASE Ctl # None /\ CtlStep
    BY <1>1, <2>3, OnCueKeeps, CtlHandKeeps, CtlLockKeeps, CtlUnlockKeeps DEF CtlStep, IInv
  <2>4. CASE Ctl # None /\ (CtlCall \/ CtlReset \/ CtlDispatch)
    BY <1>1, <2>4, CtlCallKeeps, CtlResetKeeps, CtlDispatchKeeps DEF IInv
  <2>5. CASE WorkerStep
    BY <1>1, <2>5, BeginKeeps, EnterKeeps, LatchKeeps, OpenWindowKeeps, WakeKeeps,
       CloseWindowKeeps, AwakeKeeps, OwnResetKeeps, DispatchKeeps, ExitKeeps, YieldKeeps, CueKeeps,
       TakeTurnKeeps, RelockKeeps DEF WorkerStep, IInv
  <2>6. CASE WakeOtherwise \/ OwnCall
    BY <1>1, <2>6, WakeKeeps, OwnChangeKeeps, OwnStopHalts DEF IInv
  <2> QED
    BY <1>1, <2>1, <2>2, <2>3, <2>4, <2>5, <2>6 DEF Next
<1>2. ASSUME Halted, Next PROVE IInv'
  <2>1. CASE StartThread
    BY <1>2, <2>1, StartThreadKeeps DEF IInv
  <2>2. CASE \E t \in Callers : Call(t) \/ CallerStep(t)
    BY <1>2, <2>2, LockStepHalted, OtherStepHalted DEF CallerStep, Call, Halted, IInv
  <2> QED
    BY <1>2, <2>1, <2>2, OthersHalted DEF Next, IInv
<1>3. CASE UNCHANGED vars
  BY <1>3 DEF vars, locks, thread, turns, work, wait, IInv, Running, Halted, TypeOK, OwnersInv,
     SeenInv, WakingInv, ResetFinds, RoundsInv, TurnInv, RestInv, Given, Awaited, Passing, Idle, At,
     Suspensions, Signals
<1> QED
  BY <1>1, <1>2, <1>3 DEF IInv

-----------------------------------------------------------------------------
\* The invariant and what it says.

\* As long as the thread runs, the mutexes, thread_master and the counts are what the
\* calls in progress tell, the Controller's mutexes what its round tells, and whoever has
\* changed a timer is about to break the Wait(); and once Stop() is through, whatever it
\* has overtaken in SuspendThread() and its likes leaves the dispatcher fit for the next
\* StartThread(), or the thread_master set.
THEOREM DispatcherInvariant == Managed => (Spec => []IInv)
<1> SUFFICES ASSUME Managed PROVE Spec => []IInv
  OBVIOUS
<1>1. Init => IInv
  BY InitKeeps DEF IInv
<1>2. IInv /\ [Next]_vars => IInv'
  BY NextKeeps
<1> QED
  BY <1>1, <1>2, PTL DEF Spec

\* A count that is not zero counts something.
LEMMA CountWitness ==
  ASSUME NEW s \in Seq(Steps), NEW S
  PROVE  CountOf(s, S) > 0 <=> \E i \in 1..Len(s) : s[i] \in S
<1>1. /\ IsFiniteSet({i \in 1..Len(s) : s[i] \in S})
      /\ CountOf(s, S) = Cardinality({i \in 1..Len(s) : s[i] \in S})
  BY CountType DEF CountOf
<1>2. CountOf(s, S) = 0 <=> {i \in 1..Len(s) : s[i] \in S} = {}
  BY <1>1, FS_EmptySet
<1>3. CountOf(s, S) \in Nat
  BY CountType
<1> QED
  BY <1>2, <1>3

\* SuspendThread() and SignalThread() exclude what they are called to exclude: the
\* Dispatch() of the dispatcher's thread and the calls of every other thread until
\* ResumeThread(), its Wait() until UnsignalThread(), with the thread stopped and started
\* as often as you please.  Of a call that Stop() overtakes nothing is said until then.
THEOREM CallersExclude == Managed => (Spec => [](threaded \/ ~Stoppable => Exclusion))
<1> SUFFICES ASSUME Managed PROVE Spec => [](threaded \/ ~Stoppable => Exclusion)
  OBVIOUS
<1>1. ASSUME Running PROVE Exclusion
  <2>1. \A t \in Callers : t # Worker
    BY <1>1 DEF Managed, ThreadAssumption
  <2>2. \A t \in Callers : Suspensions(t) \in 0..3 /\ Signals(t) \in 0..2
    BY <1>1, FitsAtOnce DEF Running, OwnersInv, Fits, Suspensions, Signals
  <2> QED
    BY <1>1, <2>1, <2>2 DEF Running, OwnersInv, Exclusion
<1>2. IInv => (threaded \/ ~Stoppable => Exclusion)
  <2>1. ASSUME Halted, ~Stoppable PROVE Exclusion
    BY <2>1, NestingEmpty DEF Halted, Idle, Exclusion, Suspensions, Signals
  <2> QED
    BY <1>1, <2>1 DEF IInv, Halted
<1>3. Spec => []IInv
  BY DispatcherInvariant
<1> QED
  BY <1>2, <1>3, PTL

\* suspend_count and signal_count are the calls that thread_master has yet to mirror:
\* ResumeThread() and UnsignalThread() release the mutexes at the last one.
THEOREM CountsAreKept == Managed => (Spec => [](threaded \/ ~Stoppable => CountsMatch))
<1> SUFFICES ASSUME Managed PROVE Spec => [](threaded \/ ~Stoppable => CountsMatch)
  OBVIOUS
<1>1. ASSUME Running PROVE CountsMatch
  BY <1>1 DEF Running, OwnersInv, CountsMatch
<1>2. IInv => (threaded \/ ~Stoppable => CountsMatch)
  <2>1. ASSUME Halted, ~Stoppable PROVE CountsMatch
    BY <2>1 DEF Halted, CountsMatch, Managed, ThreadAssumption
  <2> QED
    BY <1>1, <2>1 DEF IInv, Halted
<1>3. Spec => []IInv
  BY DispatcherInvariant
<1> QED
  BY <1>2, <1>3, PTL

\* The rounds of events of a Controller's thread and the Wait() of the dispatcher's
\* take turns: DoDispatch() does not return while OnDispatch() is dispatching.
THEOREM RoundsTakeTurns == Managed => (Spec => []RoundsApart)
<1> SUFFICES ASSUME Managed PROVE Spec => []RoundsApart
  OBVIOUS
<1>1. ASSUME Running PROVE RoundsApart
  <2> SUFFICES ASSUME Ctl # None, cue \/ LeftOf(Ctl, {"dispatch"}) > 0
               PROVE  pc = "turn"
    BY DEF RoundsApart
  <2>1. Ctl \in Callers /\ todo[Ctl] \in Seq(Steps)
    BY <1>1 DEF Managed, ThreadAssumption, Running, TypeOK
  <2>2. CASE cue
    BY <1>1, <2>2 DEF Running, RoundsInv, RestInv
  <2>3. CASE LeftOf(Ctl, {"dispatch"}) > 0
    <3>1. PICK i \in 1..Len(todo[Ctl]) : todo[Ctl][i] = "dispatch"
      BY <2>1, <2>3, CountWitness DEF LeftOf
    <3>2. ~Plain(todo[Ctl])
      BY <3>1 DEF Plain, CtlSteps
    <3>3. controller
      BY <1>1, <2>1, <3>2 DEF Running, RoundsInv
    <3>4. todo[Ctl] # <<>> /\ todo[Ctl] # <<"resume">>
      <4>1. \A j \in 1..Len(<<"resume">>) : <<"resume">>[j] = "resume"
        OBVIOUS
      <4>2. Len(<<>>) = 0
        OBVIOUS
      <4> QED
        BY <3>1, <4>1, <4>2
    <3> QED
      BY <1>1, <3>3, <3>4 DEF Running, RoundsInv, RestInv
  <2> QED
    BY <2>2, <2>3
<1>2. IInv => RoundsApart
  BY <1>1 DEF IInv, Halted, RoundsApart
<1>3. Spec => []IInv
  BY DispatcherInvariant
<1> QED
  BY <1>2, <1>3, PTL

\* The thread does not sleep through a change of the timers: whoever has made one
\* has yet to break the Wait() in SignalThread().
THEOREM ChangesWake == Managed => (Spec => []NoMissedChange)
<1> SUFFICES ASSUME Managed PROVE Spec => []NoMissedChange
  OBVIOUS
<1>1. ASSUME Running PROVE NoMissedChange
  <2> SUFFICES ASSUME pc = "wait", stale, ~broken
               PROVE  \E t \in Callers : Suspensions(t) > 0 /\ LeftOf(t, {"interrupt"}) > 0
    BY DEF NoMissedChange
  <2>1. PICK t \in Callers : Suspensions(t) > 0 /\ Waking(todo[t])
    BY <1>1 DEF Running, WakingInv
  <2>2. todo[t] \in Seq(Steps) /\ Len(todo[t]) \in Nat
    BY <1>1, LenProperties DEF Running, TypeOK
  <2>3. \E i \in 1..Len(todo[t]) : todo[t][i] \in {"interrupt"}
    <3>1. CASE todo[t] # <<>> /\ todo[t][1] = "interrupt"
      <4>1. 1 \in 1..Len(todo[t])
        BY <2>2, <3>1, EmptySeq
      <4> QED
        BY <3>1, <4>1
    <3>2. CASE Len(todo[t]) >= 2 /\ todo[t][2] = "interrupt"
      <4>1. 2 \in 1..Len(todo[t])
        BY <2>2, <3>2
      <4> QED
        BY <3>2, <4>1
    <3> QED
      BY <2>1, <3>1, <3>2 DEF Waking
  <2> QED
    BY <2>1, <2>2, <2>3, CountWitness DEF LeftOf
<1>2. IInv => NoMissedChange
  BY <1>1 DEF IInv, Halted, NoMissedChange
<1>3. Spec => []IInv
  BY DispatcherInvariant
<1> QED
  BY <1>2, <1>3, PTL

\* The read() that resets break_event finds it set.
THEOREM ResetsFind == Managed => (Spec => []ResetFinds)
<1> SUFFICES ASSUME Managed PROVE Spec => []ResetFinds
  OBVIOUS
<1>1. ASSUME Running PROVE ResetFinds
  BY <1>1 DEF Running
<1>2. IInv => ResetFinds
  BY <1>1 DEF IInv, Halted, ResetFinds
<1>3. Spec => []IInv
  BY DispatcherInvariant
<1> QED
  BY <1>2, <1>3, PTL

\* A caller about to unsignal has signalled.
LEMMA RunningCounts == ASSUME Managed, Running PROVE SignalCounted
<1> SUFFICES ASSUME NEW t \in Callers, At(t, "unsignal"), master = t PROVE signalCount # 0
  BY DEF SignalCounted
<1>1. todo[t] # <<>> /\ Head(todo[t]) = "unsignal"
  BY DEF At
<1>2. /\ Signalled(todo[t]) = Signalled(Tail(todo[t])) + SignalStep("unsignal")
      /\ Signalled(Tail(todo[t])) \in 0..2 /\ signalCount = Signalled(todo[t])
  BY <1>1, CallerFacts
<1>3. SignalStep("unsignal") = 1
  BY DEF SignalStep
<1> QED
  BY <1>2, <1>3

\* UnsignalThread() finds a signal_count to take one from, as its ASSERT() says.
THEOREM UnsignalsCount == Managed => (Spec => []SignalCounted)
<1> SUFFICES ASSUME Managed PROVE Spec => []SignalCounted
  OBVIOUS
<1>1. IInv => SignalCounted
  BY RunningCounts DEF IInv, Halted, SignalCounted
<1>2. Spec => []IInv
  BY DispatcherInvariant
<1> QED
  BY <1>1, <1>2, PTL

-----------------------------------------------------------------------------
\* The refinement of ThreadLock.

\* The counts and thread_master tell all that a ThreadLock knows of the callers, the
\* mutexes what it knows of the thread.
Told ==
  /\ threaded /\ master \in Callers \cup {None}
  /\ Holds = [t \in Callers |-> IF master = t THEN suspendCount ELSE 0]
  /\ Hushes = [t \in Callers |-> IF master = t THEN signalCount ELSE 0]
  /\ suspendCount \in 0..3 /\ signalCount \in 0..2 /\ signalCount <= suspendCount
  /\ IF master = None THEN suspendCount = 0 ELSE suspendCount >= 1 /\ suspend = master
  /\ signalCount > 0 => signal = master
  /\ suspend = Worker <=> Working
  /\ signal = Worker <=> Waiting

LEMMA RunningTells == ASSUME Managed PROVE (Running => Told) /\ (Running' => Told')
<1>1. ASSUME Running PROVE Told
  <2>1. ASSUME NEW t \in Callers
        PROVE  /\ Suspended(todo[t]) \in 0..3 /\ Signalled(todo[t]) \in 0..2
               /\ Signalled(todo[t]) <= Suspended(todo[t])
               /\ master = t <=> Suspended(todo[t]) > 0
               /\ suspend = t <=> Suspended(todo[t]) > 0
               /\ signal = t <=> Signalled(todo[t]) > 0
    BY <1>1, FitsAtOnce DEF Running, OwnersInv, Fits, Suspensions, Signals
  <2>2. /\ threaded /\ master \in Callers \cup {None} /\ None \notin Callers
        /\ master # None => suspendCount = Suspended(todo[master]) /\ signalCount = Signalled(todo[master])
        /\ master = None => suspendCount = 0 /\ signalCount = 0
        /\ suspend = Worker <=> pc \in {"latch", "open", "dispatch", "exit"}
        /\ signal = Worker <=> pc \in {"open", "wait", "close"}
    BY <1>1 DEF Running, TypeOK, OwnersInv, Suspensions, Signals, Managed, ThreadAssumption
  <2>3. ASSUME NEW t \in Callers
        PROVE  /\ Suspended(todo[t]) = IF master = t THEN suspendCount ELSE 0
               /\ Signalled(todo[t]) = IF master = t THEN signalCount ELSE 0
    BY <2>1, <2>2
  <2>4. /\ Holds = [t \in Callers |-> IF master = t THEN suspendCount ELSE 0]
        /\ Hushes = [t \in Callers |-> IF master = t THEN signalCount ELSE 0]
    BY <2>2, <2>3 DEF Holds, Hushes, Suspensions, Signals
  <2>5. (suspend = Worker <=> Working) /\ (signal = Worker <=> Waiting)
    BY <2>2 DEF Working, Waiting
  <2>6. CASE master = None
    BY <2>2, <2>4, <2>5, <2>6 DEF Told
  <2>7. CASE master # None
    <3>1. /\ suspendCount \in 0..3 /\ signalCount \in 0..2 /\ signalCount <= suspendCount
          /\ suspendCount >= 1 /\ suspend = master /\ (signalCount > 0 => signal = master)
      BY <2>1, <2>2, <2>7
    <3> QED
      BY <2>2, <2>4, <2>5, <2>7, <3>1 DEF Told
  <2> QED
    BY <2>6, <2>7
<1>2. ASSUME Running' PROVE Told'
  <2>1. ASSUME NEW t \in Callers
        PROVE  /\ Suspended(todo'[t]) \in 0..3 /\ Signalled(todo'[t]) \in 0..2
               /\ Signalled(todo'[t]) <= Suspended(todo'[t])
               /\ master' = t <=> Suspended(todo'[t]) > 0
               /\ suspend' = t <=> Suspended(todo'[t]) > 0
               /\ signal' = t <=> Signalled(todo'[t]) > 0
    BY <1>2, FitsAtOnce DEF Running, OwnersInv, Fits, Suspensions, Signals
  <2>2. /\ threaded' /\ master' \in Callers \cup {None} /\ None \notin Callers
        /\ master' # None => suspendCount' = Suspended(todo'[master']) /\ signalCount' = Signalled(todo'[master'])
        /\ master' = None => suspendCount' = 0 /\ signalCount' = 0
        /\ suspend' = Worker <=> pc' \in {"latch", "open", "dispatch", "exit"}
        /\ signal' = Worker <=> pc' \in {"open", "wait", "close"}
    BY <1>2 DEF Running, TypeOK, OwnersInv, Suspensions, Signals, Managed, ThreadAssumption
  <2>3. ASSUME NEW t \in Callers
        PROVE  /\ Suspended(todo'[t]) = IF master' = t THEN suspendCount' ELSE 0
               /\ Signalled(todo'[t]) = IF master' = t THEN signalCount' ELSE 0
    BY <2>1, <2>2
  <2>4. /\ Holds' = [t \in Callers |-> IF master' = t THEN suspendCount' ELSE 0]
        /\ Hushes' = [t \in Callers |-> IF master' = t THEN signalCount' ELSE 0]
    BY <2>2, <2>3 DEF Holds, Hushes, Suspensions, Signals
  <2>5. (suspend' = Worker <=> Working') /\ (signal' = Worker <=> Waiting')
    BY <2>2 DEF Working, Waiting
  <2>6. CASE master' = None
    BY <2>2, <2>4, <2>5, <2>6 DEF Told
  <2>7. CASE master' # None
    <3>1. /\ suspendCount' \in 0..3 /\ signalCount' \in 0..2 /\ signalCount' <= suspendCount'
          /\ suspendCount' >= 1 /\ suspend' = master' /\ (signalCount' > 0 => signal' = master')
      BY <2>1, <2>2, <2>7
    <3> QED
      BY <2>2, <2>4, <2>5, <2>7, <3>1 DEF Told
  <2> QED
    BY <2>6, <2>7
<1> QED
  BY <1>1, <1>2

\* The mutexes and the counts are taken and released in the order a ThreadLock has.
LEMMA CallerMaps ==
  ASSUME Managed, Running, Running', NEW t \in Callers, CallerStep(t)
  PROVE  [Lock!Next]_(Lock!vars)
<1>1. Told /\ Told' /\ None \notin Callers /\ Worker \notin Callers /\ None # Worker
  BY RunningTells DEF Managed, ThreadAssumption
<1>2. UNCHANGED pc /\ UNCHANGED <<threaded, Working, Waiting>>
  BY <1>1 DEF CallerStep, Suspend, AwaitStart, LockSuspend, Resume, Interrupt, LockSignal,
     ReleaseSignal, ChangeTimer, ChangeStream, SetPrompt, Unhook, Halt, Join, Await, Told,
     Working, Waiting
<1>3. ASSUME UNCHANGED <<master, suspendCount, signalCount>> PROVE UNCHANGED Lock!vars
  BY <1>1, <1>2, <1>3 DEF Told, Lock!vars
<1>4. ASSUME NEW u \in Callers, master \in {None, u}, master' = u, suspend \in {None, u},
             suspendCount' = suspendCount + 1, UNCHANGED signalCount
      PROVE  Lock!Suspend(u)
  <2>1. Holds' = [Holds EXCEPT ![u] = @ + 1] /\ UNCHANGED Hushes
    BY <1>1, <1>4 DEF Told
  <2>2. ~Working /\ \A v \in Callers \ {u} : Holds[v] = 0
    BY <1>1, <1>4 DEF Told
  <2> QED
    BY <1>1, <1>2, <2>1, <2>2 DEF Told, Lock!Suspend
<1>5. CASE Suspend(t)
  BY <1>1, <1>3, <1>4, <1>5 DEF Suspend, Told, Lock!Next
<1>6. CASE LockSuspend(t)
  BY <1>1, <1>4, <1>6 DEF LockSuspend, Told, Lock!Next
<1>7. CASE Resume(t)
  <2>1. ASSUME master = t, suspendCount' = suspendCount - 1, UNCHANGED signalCount, master' \in {t, None}
        PROVE  Lock!Resume(t)
    <3>1. Holds' = [Holds EXCEPT ![t] = @ - 1] /\ UNCHANGED Hushes
      BY <1>1, <2>1 DEF Told
    <3>2. Holds[t] > Hushes[t]
      BY <1>1, <2>1 DEF Told
    <3> QED
      BY <1>1, <1>2, <3>1, <3>2 DEF Told, Lock!Resume
  <2>2. suspendCount \in Nat /\ (master = t => suspendCount >= 1)
    BY <1>1 DEF Told
  <2> QED
    BY <1>3, <1>7, <2>1, <2>2 DEF Resume, Nested, ResumeNested, Lock!Next
<1>8. ASSUME signal \in {None, master}, signalCount' = signalCount + 1, UNCHANGED <<master, suspendCount>>
      PROVE  \E u \in Callers : Lock!Signal(u)
  <2>1. master \in Callers /\ ~Waiting
    BY <1>1, <1>8 DEF Told
  <2>2. Hushes' = [Hushes EXCEPT ![master] = @ + 1] /\ UNCHANGED Holds
    BY <1>1, <1>8, <2>1 DEF Told
  <2>3. Holds[master] > Hushes[master]
    BY <1>1, <1>8, <2>1 DEF Told
  <2> QED
    BY <1>1, <1>2, <2>1, <2>2, <2>3 DEF Told, Lock!Signal
<1>9. CASE Interrupt(t)
  <2>1. CASE signalCount > 0 /\ signalCount' = (signalCount + 1) % (CountMax + 1)
    <3>1. signalCount + 1 \in 0..CountMax /\ CountMax \in Nat
      BY <1>1 DEF Told, Managed, ThreadAssumption
    <3>2. signalCount' = signalCount + 1
      BY <2>1, <3>1
    <3> QED
      BY <1>1, <1>8, <1>9, <2>1, <3>2 DEF Interrupt, Told, Lock!Next
  <2>2. CASE UNCHANGED signalCount
    BY <1>3, <1>9, <2>2 DEF Interrupt
  <2> QED
    BY <1>1, <1>9, <2>1, <2>2 DEF Interrupt, BreakWait, BreakFailed, Told
<1>10. CASE LockSignal(t)
  BY <1>1, <1>8, <1>10 DEF LockSignal, Told, Lock!Next
<1>11. CASE ReleaseSignal(t)
  <2>1. CASE master = t
    <3>1. signalCount # 0 /\ signalCount - 1 \in 0..CountMax /\ CountMax \in Nat
      BY <1>1, <1>11, <2>1, RunningCounts DEF Told, SignalCounted, ReleaseSignal, Managed, ThreadAssumption
    <3>2. signalCount' = signalCount - 1 /\ UNCHANGED <<master, suspendCount>>
      BY <1>1, <1>11, <2>1, <3>1 DEF ReleaseSignal, Told
    <3>3. Hushes' = [Hushes EXCEPT ![t] = @ - 1] /\ UNCHANGED Holds /\ Hushes[t] > 0
      BY <1>1, <2>1, <3>1, <3>2 DEF Told
    <3> QED
      BY <1>1, <1>2, <3>3 DEF Told, Lock!Unsignal, Lock!Next
  <2>2. CASE master # t
    BY <1>3, <1>11, <2>2 DEF ReleaseSignal
  <2> QED  BY <2>1, <2>2
<1>12. CASE AwaitStart(t) \/ ChangeTimer(t) \/ ChangeStream(t) \/ SetPrompt(t)
            \/ Unhook(t) \/ Halt(t) \/ Join(t) \/ Await(t)
  BY <1>3, <1>12 DEF AwaitStart, ChangeTimer, ChangeStream, SetPrompt, Unhook, Halt, Join, Await, locks
<1> QED
  BY <1>5, <1>6, <1>7, <1>9, <1>10, <1>11, <1>12 DEF CallerStep

\* So does the dispatcher's thread, which takes each mutex when nobody holds it.
LEMMA WorkerMaps ==
  ASSUME Managed, Running, Running', WorkerStep \/ WakeOtherwise \/ OwnCall
  PROVE  [Lock!Next]_(Lock!vars)
<1>1. Told /\ Told' /\ None \notin Callers /\ Worker \notin Callers /\ None # Worker
  BY RunningTells DEF Managed, ThreadAssumption
<1>2. UNCHANGED <<master, suspendCount, signalCount, todo>>
  BY DEF WorkerStep, WakeOtherwise, OwnCall, Begin, Enter, Latch, OpenWindow, WakeOnBreak,
     CloseWindow, Awake, OwnReset, Dispatch, Exit, Yield, Cue, TakeTurn, Relock, locks
<1>3. UNCHANGED <<threaded, Holds, Hushes>> /\ threaded
  BY <1>1, <1>2 DEF Told
<1>4. ASSUME suspend = None PROVE Holds = Lock!Nobody
  BY <1>1, <1>4 DEF Told, Lock!Nobody
<1>5. ASSUME signal = None PROVE Hushes = Lock!Nobody
  <2>1. signalCount = 0
    BY <1>1, <1>5 DEF Told
  <2> QED
    BY <1>1, <2>1 DEF Told, Lock!Nobody
<1>6. CASE Enter \/ (Awake /\ ~controller) \/ Relock
  BY <1>3, <1>4, <1>6 DEF Enter, Awake, Relock, Working, Waiting, Lock!BeginWork, Lock!Next
<1>7. CASE Latch
  BY <1>3, <1>5, <1>7 DEF Latch, Working, Waiting, Lock!BeginWait, Lock!Next
<1>8. CASE OpenWindow \/ Exit
  BY <1>3, <1>8 DEF OpenWindow, Exit, Working, Waiting, Lock!EndWork, Lock!Next
<1>9. CASE CloseWindow
  BY <1>3, <1>9 DEF CloseWindow, Working, Waiting, Lock!EndWait, Lock!Next
<1>10. CASE Begin \/ WakeOnBreak \/ WakeOtherwise \/ (Awake /\ controller) \/ OwnReset
            \/ OwnCall \/ Dispatch \/ Yield \/ Cue \/ TakeTurn
  <2>1. UNCHANGED <<Working, Waiting>>
    BY <1>3, <1>10 DEF Begin, WakeOnBreak, WakeOtherwise, Awake, OwnReset, OwnCall, Dispatch, Yield,
       Cue, TakeTurn, Working, Waiting
  <2> QED
    BY <1>3, <2>1 DEF Lock!vars
<1> QED
  BY <1>6, <1>7, <1>8, <1>9, <1>10 DEF WorkerStep

LEMMA NextMaps == ASSUME Managed, IInv, [Next]_vars PROVE [Lock!Next]_(Lock!vars)
<1>1. IInv'
  BY NextKeeps
<1>2. CASE UNCHANGED vars
  BY <1>2 DEF vars, thread, Lock!vars, Holds, Hushes, Working, Waiting, Suspensions, Signals
<1>3. ASSUME Halted, Halted' PROVE UNCHANGED Lock!vars
  <2>1. ~threaded /\ ~threaded' /\ threaded' = threaded
    BY <1>3 DEF Halted, TypeOK
  <2>2. UNCHANGED <<Holds, Hushes>>
    BY <2>1 DEF Holds, Hushes
  <2>3. UNCHANGED <<Working, Waiting>>
    BY <2>1 DEF Working, Waiting
  <2> QED
    BY <2>1, <2>2, <2>3 DEF Lock!vars
<1>4. ASSUME Running, Halted' PROVE Lock!Stop
  BY <1>4 DEF Running, Halted, Lock!Stop, Lock!Nobody, Holds, Hushes, Working, Waiting
<1>5. ASSUME Halted, Running', Next PROVE Lock!Start
  <2>1. StartThread
    <3>1. ~threaded /\ threaded'
      BY <1>5 DEF Halted, Running
    <3>2. ASSUME NEW t \in Callers, Call(t) \/ CallerStep(t) PROVE Halted'
      BY <1>5, <3>1, <3>2, LockStepHalted, OtherStepHalted DEF CallerStep, Call
    <3> QED
      BY <1>5, <3>1, <3>2, OthersHalted DEF Next, Halted
  <2>2. \A t \in Callers : Suspensions(t) = 0 /\ Signals(t) = 0
    BY <2>1, NestingEmpty DEF StartThread, Idle, Suspensions, Signals
  <2>3. UNCHANGED <<Holds, Hushes, Working, Waiting>>
    BY <2>1, <2>2 DEF StartThread, Holds, Hushes, Working, Waiting, Suspensions, Signals
  <2> QED
    BY <2>1, <2>3 DEF StartThread, Lock!Start
<1>6. ASSUME Running, Running', Next PROVE [Lock!Next]_(Lock!vars)
  <2>1. ASSUME UNCHANGED locks, UNCHANGED pc PROVE UNCHANGED Lock!vars
    BY <1>6, <2>1, RunningTells DEF Told, Working, Waiting, locks, Lock!vars
  <2>2. CASE \E t \in Callers : Call(t)
    BY <2>1, <2>2 DEF Call
  <2>3. CASE \E t \in Callers : CallerStep(t)
    BY <1>6, <2>3, CallerMaps
  <2>4. CASE Ctl # None /\ (CtlStep \/ CtlCall \/ CtlReset \/ CtlDispatch)
    BY <2>1, <2>4 DEF CtlStep, OnCue, CtlHand, CtlLock, CtlUnlock, CtlCall, CtlReset, CtlDispatch
  <2>5. CASE WorkerStep \/ WakeOtherwise \/ OwnCall
    BY <1>6, <2>5, WorkerMaps
  <2>6. ~StartThread
    BY <1>6 DEF StartThread, Running
  <2> QED
    BY <1>6, <2>2, <2>3, <2>4, <2>5, <2>6 DEF Next
<1> QED
  BY <1>1, <1>2, <1>3, <1>4, <1>5, <1>6 DEF IInv, Lock!Next

\* SuspendThread(), SignalThread() and their mirrors are the lock that ThreadLock
\* describes, for any number of callers and through every Stop() and StartThread().
THEOREM LockKeptAlways == Managed => (Spec => LockKept)
<1> SUFFICES ASSUME Managed PROVE Spec => LockKept
  OBVIOUS
<1>1. Init => Lock!Init
  BY DEF Init, Lock!Init, Lock!Nobody, Holds, Hushes, Working, Waiting
<1>2. IInv /\ [Next]_vars => [Lock!Next]_(Lock!vars)
  BY NextMaps
<1>3. Spec => []IInv
  BY DispatcherInvariant
<1> QED
  BY <1>1, <1>2, <1>3, PTL DEF Spec, LockKept, Lock!Spec
=============================================================================
