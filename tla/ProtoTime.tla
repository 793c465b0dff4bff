------------------------------- MODULE ProtoTime -------------------------------
(***************************************************************************)
(* ProtoTime (include/protoTime.h, src/common/protoTime.cpp): an instant   *)
(* or a duration as whole seconds and microseconds, to which doubles are   *)
(* added.  A double is taken to be exact: whole seconds and tenths of a    *)
(* microsecond, which is enough to tell where it is cut off or rounded.    *)
(***************************************************************************)
EXTENDS Integers

CONSTANTS Micros,  \* microseconds of a second: 1000000
          Fore,    \* the doubles that are added
          Back,    \* the doubles that are subtracted
          MaxSec,  \* bound on the seconds
          MaxSlack \* bound on the deviation that may have summed up

Doubles == [whole : Nat, tenths : 0..(10 * Micros - 1)]

ASSUME TimeAssumption ==
  /\ Micros \in Nat \ {0}
  /\ Fore \subseteq Doubles /\ Back \subseteq Doubles
  /\ MaxSec \in Nat /\ MaxSlack \in Nat

VARIABLES time,       \* a ProtoTime: [sec, usec]
          mark,       \* another one, a former value of time
          ideal,      \* history: what time would be if nothing was rounded, in
                      \* tenths of a microsecond, and the deviation allowed for
          idealMark   \* likewise for mark

vars == <<time, mark, ideal, idealMark>>

-------------------------------------------------------------------------------
Zero == [sec |-> 0, usec |-> 0]

\* ProtoTime(double) cuts off what operator+=(double) rounds.
Cut(d) == d.tenths \div 10
Rounded(d) == (d.tenths + 5) \div 10

FromDouble(d) == [sec |-> d.whole, usec |-> Cut(d)]

Carry(sec, usec) ==
  IF usec >= Micros THEN [sec |-> sec + 1, usec |-> usec - Micros]
  ELSE [sec |-> sec, usec |-> usec]

\* Mutant: the seconds of the double are lost.
SumOfMicros(t, d) == Carry(t.sec, t.usec + Rounded(d))
Sum(t, d) == Carry(t.sec + d.whole, t.usec + Rounded(d))

SumOfTimes(t, u) == Carry(t.sec + u.sec, t.usec + u.usec)

\* operator+=() of a negative double, and operator-=().
\* Mutant: a second is borrowed for equal microseconds.
BorrowEqual(t, d) ==
  LET sec == t.sec - d.whole
      usec == Rounded(d)
  IN  IF sec >= 0 /\ t.usec > usec THEN [sec |-> sec, usec |-> t.usec - usec]
      ELSE IF sec > 0 THEN [sec |-> sec - 1, usec |-> usec - t.usec]
      ELSE Zero
Difference(t, d) ==
  LET sec == t.sec - d.whole
      usec == Rounded(d)
  IN  IF sec >= 0 /\ t.usec >= usec THEN [sec |-> sec, usec |-> t.usec - usec]
      ELSE IF sec > 0 THEN [sec |-> sec - 1, usec |-> usec - t.usec]
      ELSE Zero

\* Delta(t1, t2), in microseconds: the seconds and the microseconds are
\* compared first, being unsigned.
Delta(t1, t2) ==
  (IF t1.sec >= t2.sec THEN (t1.sec - t2.sec) * Micros ELSE -((t2.sec - t1.sec) * Micros))
  + (IF t1.usec > t2.usec THEN t1.usec - t2.usec ELSE -(t2.usec - t1.usec))

\* operator<(), and the order of the keys of the sorted timer table, which have
\* the seconds before the microseconds, the high bytes first.
Before(t1, t2) == t1.sec < t2.sec \/ (t1.sec = t2.sec /\ t1.usec < t2.usec)

-------------------------------------------------------------------------------
Tenths(d) == d.whole * (10 * Micros) + d.tenths
InTenths(t) == 10 * (t.sec * Micros + t.usec)

Init ==
  /\ time = Zero /\ mark = Zero
  /\ ideal = [value |-> 0, slack |-> 0] /\ idealMark = ideal

Set(d) ==
  /\ time' = FromDouble(d)
  /\ ideal' = [value |-> Tenths(d), slack |-> 9]
  /\ UNCHANGED <<mark, idealMark>>

Add(d) ==
  /\ time.sec + d.whole < MaxSec /\ ideal.slack + 5 <= MaxSlack
  /\ time' = Sum(time, d)
  /\ ideal' = [value |-> ideal.value + Tenths(d), slack |-> ideal.slack + 5]
  /\ UNCHANGED <<mark, idealMark>>

AddTime ==
  /\ time.sec + mark.sec < MaxSec /\ ideal.slack + idealMark.slack <= MaxSlack
  /\ time' = SumOfTimes(time, mark)
  /\ ideal' = [value |-> ideal.value + idealMark.value,
               slack |-> ideal.slack + idealMark.slack]
  /\ UNCHANGED <<mark, idealMark>>

Subtract(d) ==
  /\ ideal.slack + 5 <= MaxSlack
  /\ time' = Difference(time, d)
  /\ ideal' = [value |-> IF ideal.value < Tenths(d) THEN 0 ELSE ideal.value - Tenths(d),
               slack |-> ideal.slack + 5]
  /\ UNCHANGED <<mark, idealMark>>

Copy == mark' = time /\ idealMark' = ideal /\ UNCHANGED <<time, ideal>>

Next ==
  \/ \E d \in Fore : Set(d) \/ Add(d)
  \/ \E d \in Back : Subtract(d)
  \/ AddTime
  \/ Copy

Spec == Init /\ [][Next]_vars

-------------------------------------------------------------------------------
\* Properties.

\* A ProtoTime is normalised whatever is added to it: no microseconds are left
\* uncarried, and the key made of it is never taken for an invalid one, which
\* has Micros microseconds.
TypeOK ==
  /\ {time, mark} \subseteq [sec : Nat, usec : 0..Micros - 1]
  /\ {ideal, idealMark} \subseteq [value : Nat, slack : Nat]

\* However many doubles are added or subtracted, every one of them adds at most
\* half a microsecond to the deviation from the exact sum.
Drift(t, i) == InTenths(t) - i.value \in -i.slack..i.slack
DriftBounded == Drift(time, ideal) /\ Drift(mark, idealMark)

\* operator<() and the keys, which order the timers, agree with the sign of
\* Delta(), by which OnSystemTimeout() finds a timer to be due.
OrderAgrees ==
  /\ Delta(time, mark) > 0 <=> Before(mark, time)
  /\ Delta(time, mark) = 0 <=> time = mark

\* "Computes (t1 - t2)": Delta() of a time and the same time less a double is
\* that double, rounded, if the time is not less than that.
SubtractIsDelta ==
  \A d \in Back : InTenths(time) >= Tenths(d) + 10 =>
    10 * Delta(time, Difference(time, d)) - Tenths(d) \in -5..5
===============================================================================
