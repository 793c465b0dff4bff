--------------------------- MODULE TimerMgrProofs ---------------------------
(***************************************************************************)
(* Proofs about TimerMgr, for every set of timers, every pulse interval,   *)
(* threshold and tolerance, every request and a clock without bound.       *)
(***************************************************************************)
EXTENDS TimerMgr, TLAPS

\* What the pools are worth at instant now, apart from invoked_timer.
Pools ==
  [short : SUBSET All, long : SUBSET Timers, timeout : [All -> Nat],
   mark : Nat, invoked : Timers \cup {None}]

Sound(m, now) ==
  /\ m \in Pools
  /\ Pulse \in m.short <=> m.long # {}
  /\ Pulse \in m.short => m.timeout[Pulse] <= now + PulseInterval
  /\ m.short \cap m.long = {}
  /\ \A t \in m.long : m.timeout[t] - m.mark >= Threshold

\* On a host that is never late the pulses come exactly one interval apart and
\* no timer of the short pool is overdue.
Exact(m, now) ==
  /\ Pulse \in m.short => m.timeout[Pulse] = m.mark + PulseInterval
  /\ \A t \in m.short : m.timeout[t] >= now

\* From m to n, nothing changes for the user's timers other than t.
Others(m, n, t) ==
  \A u \in Timers \ {t} :
    /\ u \in n.short <=> u \in m.short
    /\ u \in n.long <=> u \in m.long
    /\ n.timeout[u] = m.timeout[u]

-----------------------------------------------------------------------------
\* The operators on the pools keep them sound.

\* ActivateTimer() of a short timer: InsertShortTimer() leaves sound pools sound
\* and changes nothing but the inserted timer.
LEMMA InsertShortSound ==
  ASSUME NEW m, Sound(m, clock), NEW t \in Timers, ~Active(m, t), NEW at \in Nat
  PROVE  LET n == InsertShortTimer(m, t, at)
         IN  /\ Sound(n, clock)
             /\ n.short = m.short \cup {t} /\ n.long = m.long
             /\ n.invoked = m.invoked /\ n.mark = m.mark
             /\ n.timeout = [m.timeout EXCEPT ![t] = at]
<1> DEFINE n == InsertShortTimer(m, t, at)
<1>1. /\ n.short = m.short \cup {t} /\ n.long = m.long
      /\ n.invoked = m.invoked /\ n.mark = m.mark
      /\ n.timeout = [m.timeout EXCEPT ![t] = at]
  BY DEF Sound, Pools, InsertShortTimer
<1>2. n \in Pools
  BY DEF Sound, Pools, InsertShortTimer, All
<1>3. t \in All /\ t # Pulse /\ t \notin m.long
  BY PoolAssumption DEF All, Active
<1>4. \A u \in All \ {t} : n.timeout[u] = m.timeout[u]
  BY <1>1 DEF Sound, Pools
<1>5. Pulse \in All \ {t} /\ m.long \subseteq All \ {t}
  BY <1>3 DEF Sound, Pools, All
<1> HIDE DEF n
<1>6. Sound(n, clock)
  BY <1>1, <1>2, <1>3, <1>4, <1>5 DEF Sound
<1> QED
  BY <1>1, <1>6 DEF n

\* ActivateTimer() of a long timer first starts the pulse timer if it is not
\* running, one pulse interval from now; a running one is left as it is.
LEMMA StartPulseSound ==
  ASSUME NEW m, m \in Pools, clock \in Nat,
         Pulse \in m.short => m.timeout[Pulse] <= clock + PulseInterval,
         NEW p, p = StartPulse(m)
  PROVE  /\ p \in Pools
         /\ p.short = m.short \cup {Pulse} /\ p.long = m.long
         /\ p.invoked = m.invoked
         /\ Pulse \in m.short => p = m
         /\ p.timeout[Pulse] <= clock + PulseInterval
         /\ \A t \in Timers : p.timeout[t] = m.timeout[t]
         /\ Pulse \notin m.short => /\ p.mark = clock
                                 /\ p.timeout[Pulse] = clock + PulseInterval
<1>1. Active(m, Pulse) <=> Pulse \in m.short
  BY PoolAssumption DEF Pools, Active
<1>2. CASE Pulse \in m.short
  BY <1>1, <1>2 DEF StartPulse, Pools
<1>3. CASE Pulse \notin m.short
  <2>1. p = [m EXCEPT !.short = @ \cup {Pulse}, !.timeout[Pulse] = clock + PulseInterval,
                      !.mark = clock]
    BY <1>1, <1>3 DEF StartPulse, InsertShortTimer, Pools
  <2>2. clock + PulseInterval \in Nat
    BY PoolAssumption
  <2>3. /\ p.short = m.short \cup {Pulse} /\ p.long = m.long
        /\ p.timeout = [m.timeout EXCEPT ![Pulse] = clock + PulseInterval]
        /\ p.mark = clock /\ p.invoked = m.invoked
    BY <2>1 DEF Pools
  <2>4. p.timeout \in [All -> Nat]
    BY <2>2, <2>3 DEF Pools
  <2>5. p \in Pools
    BY <2>1, <2>3, <2>4 DEF Pools, All
  <2>6. p.timeout[Pulse] <= clock + PulseInterval
    BY <2>2, <2>3 DEF Pools, All
  <2>7. \A t \in Timers : p.timeout[t] = m.timeout[t]
    BY <2>3, PoolAssumption DEF Pools, All
  <2> QED
    BY <1>3, <2>2, <2>3, <2>5, <2>6, <2>7 DEF Pools, All
<1> QED
  BY <1>2, <1>3

\* ActivateTimer() and ReactivateTimer() of a long timer leave the pools sound: in
\* pulse time it is not yet within the threshold.
LEMMA LengthySound ==
  ASSUME NEW m, Sound(m, clock), clock \in Nat,
         NEW t \in Timers, ~Active(m, t), NEW d \in Nat, Threshold <= d,
         NEW n, n = Lengthy(m, t, d)
  PROVE  /\ Sound(n, clock)
         /\ n.short = m.short \cup {Pulse} /\ n.long = m.long \cup {t}
         /\ n.invoked = m.invoked
         /\ Others(m, n, t)
         /\ Exact(m, clock) => Exact(n, clock) /\ n.timeout[t] = clock + d
<1> DEFINE p == StartPulse(m)
           at == GetPulseTime(p) + d
<1>1. /\ p \in Pools
      /\ p.short = m.short \cup {Pulse} /\ p.long = m.long
      /\ p.invoked = m.invoked
      /\ Pulse \in m.short => p = m
      /\ p.timeout[Pulse] <= clock + PulseInterval
      /\ \A u \in Timers : p.timeout[u] = m.timeout[u]
      /\ Pulse \notin m.short => p.mark = clock /\ p.timeout[Pulse] = clock + PulseInterval
  BY StartPulseSound DEF Sound
<1>2. p.timeout[Pulse] \in Nat /\ p.mark \in Nat /\ PulseInterval \in Nat
  BY <1>1, PoolAssumption DEF Pools, All
<1>3. GetPulseTime(p) \in Nat /\ GetPulseTime(p) >= p.mark
  BY <1>1, <1>2 DEF GetPulseTime, Remaining, Later
<1>4. at \in Nat /\ at - p.mark >= Threshold
  BY <1>2, <1>3, PoolAssumption
<1>5. n = [p EXCEPT !.long = @ \cup {t}, !.timeout[t] = at]
  BY DEF Lengthy, InsertLongTimer
<1> HIDE DEF p, at
<1>6. /\ n.short = p.short /\ n.long = p.long \cup {t} /\ n.invoked = p.invoked
      /\ n.mark = p.mark /\ n.timeout = [p.timeout EXCEPT ![t] = at]
  BY <1>1, <1>5 DEF Pools
<1>7. n.timeout \in [All -> Nat] /\ n.timeout[t] = at
      /\ \A u \in All \ {t} : n.timeout[u] = p.timeout[u]
  BY <1>1, <1>4, <1>6 DEF Pools, All
<1>8. n \in Pools
  BY <1>1, <1>5, <1>6, <1>7 DEF Pools
<1>9. \A u \in m.long : n.timeout[u] - n.mark >= Threshold
  <2> SUFFICES ASSUME NEW u \in m.long
               PROVE  n.timeout[u] - n.mark >= Threshold
    OBVIOUS
  <2>1. u \in Timers /\ u \in All \ {t} /\ Pulse \in m.short
    BY DEF Sound, Pools, Active, All
  <2>2. p = m /\ n.timeout[u] = m.timeout[u] /\ n.mark = m.mark
    BY <1>1, <1>6, <1>7, <2>1
  <2> QED
    BY <2>2 DEF Sound
<1>10. t # Pulse /\ n.timeout[Pulse] = p.timeout[Pulse]
  BY <1>7, PoolAssumption DEF All
<1>11. Sound(n, clock)
  <2>1. \A u \in n.long : n.timeout[u] - n.mark >= Threshold
    BY <1>1, <1>4, <1>6, <1>7, <1>9
  <2>2. n.short \cap n.long = {}
    BY <1>1, <1>6, PoolAssumption DEF Sound, Pools, Active
  <2> QED
    BY <1>1, <1>6, <1>8, <1>10, <2>1, <2>2 DEF Sound
<1>12. ASSUME Exact(m, clock)
       PROVE  Exact(n, clock) /\ n.timeout[t] = clock + d
  <2>1. p.timeout[Pulse] = p.mark + PulseInterval /\ p.timeout[Pulse] >= clock
    BY <1>1, <1>2, <1>12, PoolAssumption DEF Exact
  <2>2. GetPulseTime(p) = clock
    BY <1>1, <1>2, <2>1 DEF GetPulseTime, Remaining, Later
  <2>3. n.timeout[t] = clock + d
    BY <1>7, <2>2 DEF at
  <2>4. ASSUME NEW u \in n.short PROVE n.timeout[u] >= clock
    BY <1>1, <1>6, <1>7, <1>10, <1>12, <2>1, PoolAssumption DEF Exact, Sound, Pools, All, Active
  <2> QED
    BY <1>6, <1>10, <2>1, <2>3, <2>4 DEF Exact
<1>13. Others(m, n, t)
  <2> SUFFICES ASSUME NEW u \in Timers \ {t}
               PROVE  /\ u \in n.short <=> u \in m.short
                      /\ u \in n.long <=> u \in m.long
                      /\ n.timeout[u] = m.timeout[u]
    BY DEF Others
  <2>1. u # Pulse /\ u \in All
    BY PoolAssumption DEF All
  <2> QED
    BY <1>1, <1>6, <1>7, <2>1
<1> QED
  BY <1>1, <1>6, <1>11, <1>12, <1>13

\* ActivateTimer(), short or long: the pools stay sound, no other timer changes,
\* and while the pools are exact the timer gets its whole interval.
LEMMA ActivatedSound ==
  ASSUME NEW m, Sound(m, clock), clock \in Nat,
         NEW t \in Timers, ~Active(m, t), NEW d \in Nat,
         NEW n, n = Activated(m, t, d)
  PROVE  /\ Sound(n, clock)
         /\ Active(n, t)
         /\ n.invoked = m.invoked
         /\ Others(m, n, t)
         /\ Exact(m, clock) => Exact(n, clock) /\ n.timeout[t] = clock + d
<1>1. CASE d < Threshold
  <2>1. n = InsertShortTimer(m, t, clock + d) /\ clock + d \in Nat
    BY <1>1 DEF Activated
  <2>2. /\ Sound(n, clock)
        /\ n.short = m.short \cup {t} /\ n.long = m.long
        /\ n.invoked = m.invoked /\ n.mark = m.mark
        /\ n.timeout = [m.timeout EXCEPT ![t] = clock + d]
    BY <2>1, InsertShortSound
  <2>3. n.timeout[t] = clock + d /\ \A u \in All \ {t} : n.timeout[u] = m.timeout[u]
    BY <2>2 DEF Sound, Pools, All
  <2>4. Others(m, n, t)
    BY <2>2, <2>3, PoolAssumption DEF Others, All
  <2>5. Exact(m, clock) => Exact(n, clock)
    BY <2>2, <2>3, PoolAssumption DEF Exact, Sound, Pools, All
  <2> QED
    BY <2>2, <2>3, <2>4, <2>5 DEF Active
<1>2. CASE Threshold <= d
  <2>1. n = Lengthy(m, t, d)
    BY <1>2, PoolAssumption DEF Activated
  <2> QED
    BY <1>2, <2>1, LengthySound DEF Active
<1> QED
  BY <1>1, <1>2, PoolAssumption

\* DeactivateTimer() of a short timer, or OnSystemTimeout() done with it, leaves
\* the pools sound.
LEMMA RemoveShortSound ==
  ASSUME NEW m, Sound(m, clock), NEW t \in Timers, NEW n,
         n = DeactivatedShort(m, t) \/ n = Served(m, t)
  PROVE  /\ Sound(n, clock)
         /\ n.short = m.short \ {t} /\ n.long = m.long
         /\ n.timeout = m.timeout /\ n.mark = m.mark
         /\ n = Served(m, t) => n.invoked = None
         /\ Exact(m, clock) => Exact(n, clock)
<1>1. PICK i \in Timers \cup {None} : n = [m EXCEPT !.short = @ \ {t}, !.invoked = i]
  BY DEF Sound, Pools, DeactivatedShort, Served, RemoveShortTimer
<1>2. /\ n \in Pools /\ n.short = m.short \ {t} /\ n.long = m.long
      /\ n.timeout = m.timeout /\ n.mark = m.mark
  BY <1>1 DEF Sound, Pools
<1>3. Sound(n, clock)
  BY <1>2, PoolAssumption DEF Sound
<1>4. n = Served(m, t) => n.invoked = None
  BY DEF Sound, Pools, RemoveShortTimer, Served
<1> QED
  BY <1>2, <1>3, <1>4 DEF Exact

\* Stopping the pulse with the last long timer restores the first conjunct of
\* Sound after long timers have left.
LEMMA StopPulseSound ==
  ASSUME NEW m, m \in Pools,
         Pulse \in m.short,
         m.timeout[Pulse] <= clock + PulseInterval,
         m.short \cap m.long = {},
         \A t \in m.long : m.timeout[t] - m.mark >= Threshold,
         NEW n, n = StopPulse(m)
  PROVE  /\ Sound(n, clock)
         /\ n.short = IF m.long = {} THEN m.short \ {Pulse} ELSE m.short
         /\ n.long = m.long /\ n.timeout = m.timeout /\ n.mark = m.mark
         /\ n.invoked = m.invoked
<1>1. CASE m.long # {}
  BY <1>1 DEF StopPulse, Sound
<1>2. CASE m.long = {}
  <2>1. n = [m EXCEPT !.short = @ \ {Pulse}]
    BY <1>2, PoolAssumption DEF StopPulse, DeactivatedShort, RemoveShortTimer, Pools
  <2>2. /\ n \in Pools /\ n.short = m.short \ {Pulse} /\ n.long = m.long
        /\ n.timeout = m.timeout /\ n.mark = m.mark /\ n.invoked = m.invoked
    BY <2>1 DEF Pools
  <2> QED
    BY <1>2, <2>2 DEF Sound
<1> QED
  BY <1>1, <1>2

\* DeactivateTimer() of any active timer, with the pulse timer stopped if no long
\* timer is left, leaves the pools sound and the other timers alone.
LEMMA DeactivatedSound ==
  ASSUME NEW m, Sound(m, clock), NEW t \in Timers, Active(m, t),
         NEW n, n = Deactivated(m, t)
  PROVE  /\ Sound(n, clock)
         /\ ~Active(n, t)
         /\ n.invoked = IF m.invoked = t /\ t \in m.short THEN None ELSE m.invoked
         /\ Others(m, n, t) /\ n.short \subseteq m.short /\ n.timeout = m.timeout
         /\ Exact(m, clock) => Exact(n, clock)
<1>1. CASE t \in m.short
  <2>1. n = DeactivatedShort(m, t)
    BY <1>1 DEF Deactivated
  <2>2. n.invoked = IF m.invoked = t THEN None ELSE m.invoked
    BY <2>1 DEF DeactivatedShort, RemoveShortTimer, Sound, Pools
  <2> QED
    BY <1>1, <2>1, <2>2, RemoveShortSound DEF Active, Others, Sound
<1>2. CASE t \notin m.short
  <2> DEFINE k == [m EXCEPT !.long = @ \ {t}]
  <2>1. n = StopPulse(k) /\ t \in m.long
    BY <1>2 DEF Deactivated, Active
  <2>2. /\ k \in Pools /\ k.short = m.short /\ k.long = m.long \ {t}
        /\ k.timeout = m.timeout /\ k.mark = m.mark /\ k.invoked = m.invoked
    BY DEF Sound, Pools
  <2> HIDE DEF k
  <2>3. /\ Sound(n, clock)
        /\ n.short = IF k.long = {} THEN k.short \ {Pulse} ELSE k.short
        /\ n.long = k.long /\ n.timeout = k.timeout /\ n.mark = k.mark
        /\ n.invoked = k.invoked
    BY <2>1, <2>2, StopPulseSound DEF Sound
  <2> QED
    BY <1>2, <2>2, <2>3, PoolAssumption DEF Active, Others, Exact, Sound
<1> QED
  BY <1>1, <1>2

\* ReactivateTimer(), called when a listener has returned, leaves the pools sound
\* and, while they are exact, adds one interval to the instant it is called.
LEMMA ReactivatedSound ==
  ASSUME NEW m, Sound(m, clock), clock \in Nat,
         NEW t \in Timers, ~Active(m, t), NEW d \in Nat, NEW now \in Nat,
         NEW n, n = Reactivated(m, t, d, now)
  PROVE  /\ Sound(n, clock)
         /\ Active(n, t)
         /\ n.invoked = m.invoked
         /\ Others(m, n, t)
         /\ Exact(m, clock) /\ m.timeout[t] = clock /\ now = clock =>
              Exact(n, clock) /\ n.timeout[t] = clock + d
<1>1. CASE d < Threshold
  <2> DEFINE at == NextTimeout(m, t, d, now)
  <2>1. m.timeout[t] \in Nat /\ LateTolerance \in Nat
    BY PoolAssumption DEF Sound, Pools, All
  <2>2. at \in Nat
    BY <2>1 DEF NextTimeout
  <2>3. m.timeout[t] = clock /\ now = clock => at = clock + d
    BY <2>1 DEF NextTimeout
  <2>4. n = InsertShortTimer(m, t, at)
    BY <1>1 DEF Reactivated
  <2> HIDE DEF at
  <2>5. /\ Sound(n, clock)
        /\ n.short = m.short \cup {t} /\ n.long = m.long
        /\ n.invoked = m.invoked /\ n.mark = m.mark
        /\ n.timeout = [m.timeout EXCEPT ![t] = at]
    BY <2>2, <2>4, InsertShortSound
  <2>6. n.timeout[t] = at /\ \A u \in All \ {t} : n.timeout[u] = m.timeout[u]
    BY <2>5 DEF Sound, Pools, All
  <2>7. Others(m, n, t)
    BY <2>5, <2>6, PoolAssumption DEF Others, All
  <2>8. Exact(m, clock) /\ m.timeout[t] = clock /\ now = clock =>
          Exact(n, clock) /\ n.timeout[t] = clock + d
    BY <2>3, <2>5, <2>6, PoolAssumption DEF Exact, Sound, Pools, All
  <2> QED
    BY <2>5, <2>7, <2>8 DEF Active
<1>2. CASE Threshold <= d
  <2>1. n = Lengthy(m, t, d)
    BY <1>2, PoolAssumption DEF Reactivated
  <2> QED
    BY <1>2, <2>1, LengthySound DEF Active
<1> QED
  BY <1>1, <1>2, PoolAssumption

\* The handler of the pulse timer moves timers from pool to pool; it loses,
\* adds and uncovers none.
LEMMA OnPulseTimeoutSound ==
  ASSUME NEW m, Sound(m, clock), clock \in Nat, Pulse \in m.short,
         NEW n, n = OnPulseTimeout(m)
  PROVE  /\ Sound(n, clock)
         /\ n.invoked = m.invoked
         /\ \A t \in Timers : Active(n, t) <=> Active(m, t)
         /\ m.short \cap Timers \subseteq n.short
         /\ n.mark = m.mark + PulseInterval /\ n.timeout[Pulse] = m.timeout[Pulse]
         /\ Exact(m, clock) /\ m.timeout[Pulse] = clock =>
              \A t \in Timers : /\ Active(m, t) => n.timeout[t] = m.timeout[t]
                                /\ t \in n.short => n.timeout[t] >= clock
<1> DEFINE mark == m.mark + PulseInterval
           near == Near(m, mark)
           moved == [t \in All |-> IF t \in near THEN clock + Later(0, m.timeout[t] - mark)
                                   ELSE m.timeout[t]]
           k == [m EXCEPT !.mark = mark, !.long = @ \ near, !.short = @ \cup near,
                          !.timeout = moved]
<1>1. /\ mark \in Nat /\ PulseInterval \in Nat /\ m.mark \in Nat /\ m.timeout \in [All -> Nat]
      /\ near \subseteq m.long /\ m.long \subseteq Timers /\ Pulse \notin near
  BY PoolAssumption DEF Sound, Pools, Near
<1>2. \A t \in m.long \ near : m.timeout[t] - mark >= Threshold
  BY <1>1, PoolAssumption DEF Near, All
<1>3. moved \in [All -> Nat]
  BY <1>1 DEF Later
<1>4. n = StopPulse(k)
  BY DEF OnPulseTimeout
<1>5. \A t \in All \ near : moved[t] = m.timeout[t]
  OBVIOUS
<1>6. Exact(m, clock) /\ m.timeout[Pulse] = clock =>
        /\ mark = clock
        /\ \A t \in near : moved[t] = m.timeout[t] /\ moved[t] >= clock
  <2> SUFFICES ASSUME Exact(m, clock), m.timeout[Pulse] = clock
               PROVE  mark = clock
                      /\ \A t \in near : moved[t] = m.timeout[t] /\ moved[t] >= clock
    OBVIOUS
  <2>1. mark = clock
    BY DEF Exact
  <2> SUFFICES ASSUME NEW t \in near
               PROVE  moved[t] = m.timeout[t] /\ moved[t] >= clock
    BY <2>1
  <2>2. m.timeout[t] - m.mark >= Threshold /\ t \in All /\ m.timeout[t] \in Nat
    BY <1>1 DEF Sound, All
  <2>3. m.timeout[t] - mark >= 0
    BY <1>1, <2>2, PoolAssumption
  <2> QED
    BY <1>1, <2>1, <2>2, <2>3 DEF Later
<1> HIDE DEF mark, near, moved
<1>7. /\ k.short = m.short \cup near /\ k.long = m.long \ near /\ k.timeout = moved
      /\ k.mark = mark /\ k.invoked = m.invoked
  BY DEF Sound, Pools
<1>8. k \in Pools
  BY <1>1, <1>3 DEF Sound, Pools, All
<1> HIDE DEF k
<1>9. k.short \cap k.long = {} /\ \A t \in k.long : k.timeout[t] - k.mark >= Threshold
  BY <1>1, <1>2, <1>5, <1>7 DEF Sound, All
<1>10. /\ Sound(n, clock)
       /\ n.short = IF k.long = {} THEN k.short \ {Pulse} ELSE k.short
       /\ n.long = k.long /\ n.timeout = k.timeout /\ n.mark = k.mark
       /\ n.invoked = k.invoked
  <2>1. Pulse \in k.short /\ k.timeout[Pulse] <= clock + PulseInterval
    BY <1>1, <1>5, <1>7 DEF Sound, All
  <2> QED
    BY <1>4, <1>8, <1>9, <2>1, StopPulseSound
<1>11. \A t \in Timers : t # Pulse /\ t \in All
  BY PoolAssumption DEF All
<1>12. \A t \in Timers : Active(n, t) <=> Active(m, t)
  BY <1>1, <1>7, <1>10, <1>11 DEF Active
<1>13. Exact(m, clock) /\ m.timeout[Pulse] = clock =>
         \A t \in Timers : /\ Active(m, t) => n.timeout[t] = m.timeout[t]
                           /\ t \in n.short => n.timeout[t] >= clock
  BY <1>5, <1>6, <1>7, <1>10, <1>11 DEF Exact
<1> QED
  BY <1>1, <1>5, <1>7, <1>10, <1>11, <1>12, <1>13 DEF mark, All

\* And the pulse timer then goes on from there.
LEMMA PulseSound ==
  ASSUME NEW m, Sound(m, clock), clock \in Nat, Pulse \in m.short,
         NEW now \in Nat, now <= clock, m.timeout[Pulse] <= now,
         NEW k, k = OnPulseTimeout(m),
         NEW n, n = IF Active(k, Pulse)
                    THEN Reactivated(RemoveShortTimer(k, Pulse), Pulse, PulseInterval, now)
                    ELSE k
  PROVE  /\ Sound(n, clock)
         /\ n.invoked = m.invoked
         /\ \A t \in Timers : Active(n, t) <=> Active(m, t)
         /\ m.short \cap Timers \subseteq n.short
         /\ Exact(m, clock) =>
              Exact(n, clock) /\ \A t \in Timers : Active(m, t) => n.timeout[t] = m.timeout[t]
<1>1. /\ Sound(k, clock)
      /\ k.invoked = m.invoked
      /\ \A t \in Timers : Active(k, t) <=> Active(m, t)
      /\ m.short \cap Timers \subseteq k.short
      /\ k.mark = m.mark + PulseInterval /\ k.timeout[Pulse] = m.timeout[Pulse]
      /\ Exact(m, clock) /\ m.timeout[Pulse] = clock =>
           \A t \in Timers : /\ Active(m, t) => k.timeout[t] = m.timeout[t]
                             /\ t \in k.short => k.timeout[t] >= clock
  BY OnPulseTimeoutSound
<1>2. Exact(m, clock) => m.timeout[Pulse] = clock /\ now = clock
  BY DEF Exact, Sound, Pools, All
<1>3. Active(k, Pulse) <=> Pulse \in k.short
  BY <1>1, PoolAssumption DEF Active, Sound, Pools
<1>4. CASE Pulse \notin k.short
  BY <1>1, <1>2, <1>3, <1>4 DEF Exact, Sound, Pools, All
<1>5. CASE Pulse \in k.short
  <2> DEFINE r == RemoveShortTimer(k, Pulse)
             at == NextTimeout(r, Pulse, PulseInterval, now)
  <2>1. /\ m.timeout[Pulse] \in Nat /\ PulseInterval \in Nat /\ LateTolerance \in Nat
        /\ PulseInterval < Threshold /\ m.mark \in Nat
    BY PoolAssumption DEF Sound, Pools, All
  <2>2. r.timeout = k.timeout
    BY <1>1 DEF RemoveShortTimer, Sound, Pools
  <2>3. at \in Nat /\ at <= clock + PulseInterval
    BY <1>1, <2>1, <2>2 DEF NextTimeout
  <2>4. m.timeout[Pulse] = clock /\ now = clock => at = clock + PulseInterval
    BY <1>1, <2>1, <2>2 DEF NextTimeout
  <2>5. n = InsertShortTimer(r, Pulse, at)
    BY <1>3, <1>5, <2>1 DEF Reactivated
  <2> HIDE DEF at
  <2>6. n = [k EXCEPT !.short = (@ \ {Pulse}) \cup {Pulse}, !.timeout[Pulse] = at]
    BY <1>1, <2>5 DEF InsertShortTimer, RemoveShortTimer, Sound, Pools
  <2>7. /\ n.short = k.short /\ n.long = k.long /\ n.mark = k.mark /\ n.invoked = k.invoked
        /\ n.timeout = [k.timeout EXCEPT ![Pulse] = at]
        /\ n \in Pools
    <3>1. k \in Pools /\ k.timeout \in [All -> Nat] /\ k.short \in SUBSET All
      BY <1>1 DEF Sound, Pools
    <3>2. (k.short \ {Pulse}) \cup {Pulse} = k.short
      BY <1>5
    <3>3. [k.timeout EXCEPT ![Pulse] = at] \in [All -> Nat]
      BY <2>3, <3>1
    <3> QED
      BY <2>6, <3>1, <3>2, <3>3 DEF Pools
  <2>8. n.timeout[Pulse] = at /\ \A u \in All \ {Pulse} : n.timeout[u] = k.timeout[u]
    BY <1>1, <2>7 DEF Sound, Pools, All
  <2>9. \A u \in Timers : u # Pulse /\ u \in All
    BY PoolAssumption DEF All
  <2>10. n.long \subseteq Timers /\ n.short \subseteq Timers \cup {Pulse}
    BY <2>7 DEF Pools, All
  <2>11. Sound(n, clock)
    BY <1>1, <2>3, <2>7, <2>8, <2>9, <2>10 DEF Sound
  <2>12. Exact(m, clock) => Exact(n, clock)
    BY <1>1, <1>2, <2>1, <2>4, <2>7, <2>8, <2>9, <2>10 DEF Exact
  <2> QED
    BY <1>1, <1>2, <2>7, <2>8, <2>9, <2>11, <2>12 DEF Active
<1> QED
  BY <1>4, <1>5

\* Reschedule() is a DeactivateTimer() and an ActivateTimer(): together they leave
\* the pools sound and the timer active.
LEMMA RescheduledSound ==
  ASSUME NEW m, Sound(m, clock), clock \in Nat, NEW t \in Timers, Active(m, t),
         NEW d \in Nat, NEW n, n = Activated(Deactivated(m, t), t, d)
  PROVE  /\ Sound(n, clock)
         /\ Active(n, t)
         /\ n.invoked = IF m.invoked = t /\ t \in m.short THEN None ELSE m.invoked
         /\ Others(m, n, t)
         /\ Exact(m, clock) => Exact(n, clock) /\ n.timeout[t] = clock + d
<1> DEFINE k == Deactivated(m, t)
<1>1. /\ Sound(k, clock)
      /\ ~Active(k, t)
      /\ k.invoked = IF m.invoked = t /\ t \in m.short THEN None ELSE m.invoked
      /\ Others(m, k, t)
      /\ Exact(m, clock) => Exact(k, clock)
  BY DeactivatedSound
<1> HIDE DEF k
<1>2. n = Activated(k, t, d)
  BY DEF k
<1>3. /\ Sound(n, clock)
      /\ Active(n, t)
      /\ n.invoked = k.invoked
      /\ Others(k, n, t)
      /\ Exact(k, clock) => Exact(n, clock) /\ n.timeout[t] = clock + d
  BY <1>1, <1>2, ActivatedSound
<1> QED
  BY <1>1, <1>3 DEF Others

-----------------------------------------------------------------------------
\* The inductive invariant: the pools are sound, and the bookkeeping of a round
\* agrees with its phase.

RoundOK ==
  /\ round.now <= clock
  /\ round.phase = "idle" => round = NoRound
  /\ round.phase = "listener" => round.timer \in Timers
  /\ updatePending <=> round.phase # "idle"

IInv == TypeOK /\ Sound(mgr, clock) /\ InvokedIsShort /\ RoundOK

HostTyped ==
  timeoutScheduled \in BOOLEAN /\ scheduledTimeout \in Nat /\ sysTimer \in Nat \cup {Off}

OwnerTyped ==
  /\ interval \in [Timers -> Nat]
  /\ repeat \in [Timers -> Nat \cup {-1}]
  /\ left \in [Timers -> Nat \cup {-1}]
  /\ elapses \in [Timers -> Nat]

RoundTyped ==
  round \in [phase : {"idle", "scan", "listener"}, now : Nat,
             early : BOOLEAN, timer : Timers \cup {None}]

\* TypeOK, in the parts that the proofs of single operations use.
LEMMA TypeParts ==
  TypeOK <=> /\ clock \in Nat /\ OwnerTyped /\ mgr \in Pools
             /\ updatePending \in BOOLEAN /\ HostTyped /\ RoundTyped
  BY DEF TypeOK, OwnerTyped, Pools, HostTyped, RoundTyped

\* Update() keeps the types of what it knows of the host's timer.
LEMMA UpdateTyped ==
  ASSUME HostTyped, clock \in Nat, mgr' \in Pools, Update
  PROVE  HostTyped'
<1>1. CASE mgr'.short = {} /\ \E ok \in HostOutcomes :
             sysTimer' = IF timeoutScheduled /\ ok THEN Off ELSE sysTimer
  BY <1>1, PoolAssumption DEF Update, HostTyped, Heads
<1>2. CASE \E h \in Heads(mgr') : LET head == mgr'.timeout[h] IN
             IF timeoutScheduled /\ scheduledTimeout = head
             THEN UNCHANGED host
             ELSE \E ok \in HostOutcomes : Installed(head, ok)
  <2>1. PICK h \in Heads(mgr') :
          IF timeoutScheduled /\ scheduledTimeout = mgr'.timeout[h]
          THEN UNCHANGED host
          ELSE \E ok \in HostOutcomes : Installed(mgr'.timeout[h], ok)
    BY <1>2
  <2>2. mgr'.timeout[h] \in Nat
    BY DEF Pools, Heads
  <2> QED
    BY <2>1, <2>2, RequestAssumption DEF HostTyped, host, Installed, Later
<1> QED
  BY <1>1, <1>2 DEF Update

\* So does a call that skips Update() because update_pending is set.
LEMMA UpdateUnlessPendingTyped ==
  ASSUME HostTyped, clock \in Nat, mgr' \in Pools, UpdateUnlessPending
  PROVE  HostTyped'
  BY UpdateTyped DEF UpdateUnlessPending, HostTyped, host

\* The constructor of ProtoTimerMgr establishes the inductive invariant.
LEMMA InitIInv == Init => IInv
<1> SUFFICES ASSUME Init PROVE IInv
  OBVIOUS
<1>1. OwnerTyped /\ HostTyped /\ RoundTyped
  BY RequestAssumption DEF Init, OwnerTyped, HostTyped, RoundTyped, NoRound
<1>2. mgr \in Pools /\ mgr.short = {} /\ mgr.long = {} /\ mgr.invoked = None
  BY DEF Init, Pools
<1>3. Sound(mgr, clock)
  BY <1>2 DEF Sound
<1>4. TypeOK
  BY <1>1, <1>2, TypeParts DEF Init
<1> QED
  BY <1>2, <1>3, <1>4 DEF IInv, InvokedIsShort, RoundOK, NoRound, Init

\* The owner's calls touch one timer; if it is the one being served, the round
\* forgets it.
LEMMA RequestKeeps ==
  ASSUME IInv, NEW t \in Timers,
         Sound(mgr', clock), OwnerTyped',
         UpdateUnlessPending \/ UNCHANGED host,
         UNCHANGED <<clock, updatePending, round>>,
         Others(mgr, mgr', t),
         mgr'.invoked = IF mgr.invoked = t THEN None ELSE mgr.invoked
  PROVE  IInv'
<1>1. HostTyped'
  BY UpdateUnlessPendingTyped, TypeParts DEF IInv, HostTyped, host, Sound
<1>2. TypeOK'
  BY <1>1, TypeParts DEF IInv, Sound, TypeOK, OwnerTyped, HostTyped, Pools
<1>3. InvokedIsShort'
  BY PoolAssumption DEF IInv, InvokedIsShort, Sound, Pools, Others
<1>4. Sound(mgr, clock)' /\ RoundOK'
  BY DEF IInv, RoundOK, Sound
<1> QED
  BY <1>2, <1>3, <1>4 DEF IInv

\* Every call of the timers' owner, between rounds or from a listener, preserves
\* the inductive invariant.
LEMMA RequestIInv ==
  ASSUME IInv, NEW t \in Timers, Request(t)
  PROVE  IInv'
<1>1. /\ Sound(mgr, clock) /\ clock \in Nat /\ OwnerTyped /\ mgr \in Pools
      /\ interval[t] \in Nat /\ repeat[t] \in Nat \cup {-1}
  BY TypeParts DEF IInv, OwnerTyped
<1>2. mgr.invoked = t => t \in mgr.short
  BY PoolAssumption DEF IInv, InvokedIsShort
<1>3. ASSUME UNCHANGED <<clock, mgr, updatePending, host, round>>, OwnerTyped'
      PROVE  IInv'
  <2>1. TypeOK'
    BY <1>1, <1>3, TypeParts DEF IInv, TypeOK, OwnerTyped, host
  <2> QED
    BY <1>3, <2>1 DEF IInv, InvokedIsShort, RoundOK, Sound
<1>4. ASSUME NEW i \in Intervals, SetInterval(t, i)
      PROVE  IInv'
  BY <1>1, <1>3, <1>4, RequestAssumption DEF SetInterval, OwnerTyped
<1>5. ASSUME NEW n \in Repeats, SetRepeat(t, n)
      PROVE  IInv'
  BY <1>1, <1>3, <1>5, RequestAssumption DEF SetRepeat, OwnerTyped
<1>6. ASSUME NEW n \in Repeats, SetRepeatCount(t, n)
      PROVE  IInv'
  BY <1>1, <1>3, <1>6, RequestAssumption DEF SetRepeatCount, OwnerTyped
<1>7. ASSUME ActivateTimer(t)
      PROVE  IInv'
  <2>1. ~Active(mgr, t) /\ mgr' = Activated(mgr, t, interval[t])
    BY <1>7 DEF ActivateTimer
  <2>2. Sound(mgr', clock) /\ mgr'.invoked = mgr.invoked /\ Others(mgr, mgr', t)
    BY <1>1, <2>1, ActivatedSound
  <2>3. OwnerTyped'
    BY <1>1, <1>7, PoolAssumption DEF ActivateTimer, OwnerTyped, Elapsing
  <2>4. mgr.invoked # t
    BY <1>2, <2>1 DEF Active
  <2> QED
    BY <1>7, <2>2, <2>3, <2>4, RequestKeeps DEF ActivateTimer
<1>8. ASSUME DeactivateTimer(t)
      PROVE  IInv'
  <2>1. Active(mgr, t) /\ mgr' = Deactivated(mgr, t)
    BY <1>8 DEF DeactivateTimer
  <2>2. /\ Sound(mgr', clock) /\ Others(mgr, mgr', t)
        /\ mgr'.invoked = IF mgr.invoked = t /\ t \in mgr.short THEN None ELSE mgr.invoked
    BY <1>1, <2>1, DeactivatedSound
  <2>3. OwnerTyped'
    BY <1>1, <1>8 DEF DeactivateTimer, OwnerTyped, owner
  <2> QED
    BY <1>2, <1>8, <2>2, <2>3, RequestKeeps DEF DeactivateTimer
<1>9. ASSUME Reschedule(t)
      PROVE  IInv'
  <2>1. Active(mgr, t) /\ mgr' = Activated(Deactivated(mgr, t), t, interval[t])
    BY <1>9 DEF Reschedule
  <2>2. /\ Sound(mgr', clock) /\ Others(mgr, mgr', t)
        /\ mgr'.invoked = IF mgr.invoked = t /\ t \in mgr.short THEN None ELSE mgr.invoked
    BY <1>1, <2>1, RescheduledSound
  <2>3. OwnerTyped'
    BY <1>1, <1>9, PoolAssumption DEF Reschedule, OwnerTyped, Elapsing
  <2> QED
    BY <1>2, <1>9, <2>2, <2>3, RequestKeeps DEF Reschedule
<1>10. ASSUME NEW f \in Factors, Scale(t, f)
       PROVE  IInv'
  <2> DEFINE by(d) == (f[1] * d) \div f[2]
             rest == Remaining(mgr, t)
  <2>1. by(interval[t]) \in Nat /\ UNCHANGED <<clock, repeat, left, updatePending, round>>
        /\ interval' = [interval EXCEPT ![t] = by(interval[t])]
    BY <1>10, RequestAssumption DEF Scale
  <2>2. CASE Active(mgr, t) /\ rest > 0
    <3>1. /\ by(rest) \in 0..MaxRest
          /\ mgr' = Activated(Deactivated(mgr, t), t, by(rest))
          /\ elapses' = [elapses EXCEPT ![t] = Elapsing(clock, by(rest))]
          /\ UpdateUnlessPending
      BY <1>10, <2>2 DEF Scale
    <3> HIDE DEF by, rest
    <3>2. by(rest) \in Nat
      BY <3>1, RequestAssumption
    <3>3. /\ Sound(mgr', clock) /\ Others(mgr, mgr', t)
          /\ mgr'.invoked = IF mgr.invoked = t /\ t \in mgr.short THEN None ELSE mgr.invoked
      BY <1>1, <2>2, <3>1, <3>2, RescheduledSound
    <3>4. OwnerTyped'
      BY <1>1, <2>1, <3>1, <3>2, PoolAssumption DEF OwnerTyped, Elapsing
    <3> QED
      BY <1>2, <2>1, <3>1, <3>3, <3>4, RequestKeeps
  <2>3. CASE ~(Active(mgr, t) /\ rest > 0)
    <3>1. UNCHANGED <<mgr, elapses, host>>
      BY <1>10, <2>3 DEF Scale
    <3> HIDE DEF by, rest
    <3>2. OwnerTyped'
      BY <1>1, <2>1, <3>1 DEF OwnerTyped
    <3> QED
      BY <1>3, <2>1, <3>1, <3>2
  <2> QED
    BY <2>2, <2>3
<1> QED
  BY <1>4, <1>5, <1>6, <1>7, <1>8, <1>9, <1>10 DEF Request

\* What the return from the listener does to the pools, exact on a host that
\* is never late.
LEMMA ListenerReturnSound ==
  ASSUME IInv, ListenerReturn
  PROVE  LET t == round.timer IN
         /\ t \in Timers
         /\ Sound(mgr', clock)
         /\ mgr'.invoked = None
         /\ Others(mgr, mgr', t)
         /\ ~Untouched(t) => (Active(mgr', t) <=> Active(mgr, t)) /\ mgr'.timeout = mgr.timeout
         /\ Untouched(t) /\ left[t] = 0 => ~Active(mgr', t)
         /\ Untouched(t) /\ left[t] # 0 => Active(mgr', t)
         /\ Exact(mgr, clock) /\ round.now = clock
              /\ (mgr.invoked # None => mgr.timeout[mgr.invoked] = clock) =>
              /\ Exact(mgr', clock)
              /\ Untouched(t) /\ left[t] # 0 => mgr'.timeout[t] = clock + interval[t]
<1> DEFINE t == round.timer
           rest == Served(mgr, t)
<1>1. /\ t \in Timers /\ Sound(mgr, clock) /\ mgr \in Pools /\ clock \in Nat
      /\ round.now \in Nat /\ interval[t] \in Nat /\ t # None
  <2>1. t \in Timers
    BY DEF IInv, RoundOK, ListenerReturn
  <2> QED
    BY <2>1, TypeParts, PoolAssumption DEF IInv, OwnerTyped, RoundTyped
<1> HIDE DEF t
<1>2. CASE Untouched(t)
  <2>1. t \in mgr.short /\ mgr.invoked = t
    BY <1>1, <1>2 DEF IInv, InvokedIsShort, Untouched
  <2>2. /\ rest = Served(mgr, t)
        /\ mgr' = IF left[t] # 0 THEN Reactivated(rest, t, interval[t], round.now) ELSE rest
    BY <1>2 DEF ListenerReturn, t
  <2> HIDE DEF rest
  <2>3. /\ Sound(rest, clock)
        /\ rest.short = mgr.short \ {t} /\ rest.long = mgr.long
        /\ rest.timeout = mgr.timeout /\ rest.invoked = None
        /\ Exact(mgr, clock) => Exact(rest, clock)
    BY <1>1, <2>2, RemoveShortSound
  <2>4. ~Active(rest, t) /\ Others(mgr, rest, t)
    BY <1>1, <2>1, <2>3 DEF Active, Others, Sound
  <2>5. CASE left[t] = 0
    BY <1>1, <1>2, <2>2, <2>3, <2>4, <2>5 DEF t
  <2>6. CASE left[t] # 0
    <3>1. /\ Sound(mgr', clock)
          /\ Active(mgr', t)
          /\ mgr'.invoked = rest.invoked
          /\ Others(rest, mgr', t)
          /\ Exact(rest, clock) /\ rest.timeout[t] = clock /\ round.now = clock =>
               Exact(mgr', clock) /\ mgr'.timeout[t] = clock + interval[t]
      <4>1. mgr' = Reactivated(rest, t, interval[t], round.now)
        BY <2>2, <2>6
      <4> QED
        BY <1>1, <2>3, <2>4, <4>1, ReactivatedSound
    <3>2. Others(mgr, mgr', t)
      BY <2>4, <3>1 DEF Others
    <3> QED
      BY <1>1, <1>2, <2>1, <2>3, <2>6, <3>1, <3>2 DEF t
  <2> QED
    BY <2>5, <2>6
<1>3. CASE ~Untouched(t)
  <2>1. mgr' = [mgr EXCEPT !.invoked = None]
    BY <1>3 DEF ListenerReturn, t
  <2>2. /\ mgr' \in Pools /\ mgr'.invoked = None /\ mgr'.short = mgr.short
        /\ mgr'.long = mgr.long /\ mgr'.timeout = mgr.timeout /\ mgr'.mark = mgr.mark
    BY <1>1, <2>1 DEF Pools
  <2> QED
    BY <1>1, <1>3, <2>2 DEF Sound, Others, Exact, Active, t
<1> QED
  BY <1>2, <1>3

\* Every step of OnSystemTimeout() preserves the inductive invariant.
LEMMA RoundIInv ==
  ASSUME IInv, (\E early \in BOOLEAN : BeginTimeouts(early)) \/ Serve
  PROVE  IInv'
<1>1. /\ Sound(mgr, clock) /\ clock \in Nat /\ OwnerTyped /\ mgr \in Pools
      /\ HostTyped /\ RoundTyped
  BY TypeParts DEF IInv
<1>2. ASSUME NEW early \in BOOLEAN, BeginTimeouts(early)
      PROVE  IInv'
  <2>1. OwnerTyped' /\ HostTyped' /\ RoundTyped' /\ mgr' \in Pools /\ clock' \in Nat
        /\ updatePending' \in BOOLEAN
    BY <1>1, <1>2 DEF BeginTimeouts, OwnerTyped, owner, HostTyped, RoundTyped
  <2>2. TypeOK'
    BY <2>1, TypeParts DEF TypeOK, OwnerTyped, Pools, HostTyped, RoundTyped
  <2>3. InvokedIsShort'
    BY <1>2 DEF IInv, InvokedIsShort, BeginTimeouts
  <2>4. RoundOK'
    BY <1>1, <1>2 DEF RoundOK, BeginTimeouts
  <2> QED
    BY <1>1, <1>2, <2>2, <2>3, <2>4 DEF IInv, BeginTimeouts
<1>3. ASSUME NEW t \in Timers, CallListener(t)
      PROVE  IInv'
  <2>1. /\ mgr' \in Pools /\ mgr'.invoked = t /\ mgr'.short = mgr.short
        /\ mgr'.long = mgr.long /\ mgr'.timeout = mgr.timeout /\ mgr'.mark = mgr.mark
    BY <1>1, <1>3 DEF CallListener, Pools
  <2>2. /\ round'.phase = "listener" /\ round'.timer = t /\ round'.now = round.now
        /\ RoundTyped'
    BY <1>1, <1>3 DEF CallListener, RoundTyped
  <2>3. OwnerTyped' /\ HostTyped' /\ clock' \in Nat /\ updatePending' = updatePending
    BY <1>1, <1>3 DEF CallListener, OwnerTyped, owner, HostTyped, host
  <2>4. TypeOK'
    BY <1>1, <2>1, <2>2, <2>3, TypeParts DEF TypeOK, OwnerTyped, Pools, HostTyped, RoundTyped, IInv
  <2>5. Sound(mgr', clock')
    BY <1>1, <1>3, <2>1 DEF Sound, CallListener
  <2>6. InvokedIsShort'
    BY <1>1, <1>3, <2>1, <2>2 DEF InvokedIsShort, Sound, CallListener, Expired, Heads
  <2>7. RoundOK'
    BY <1>3, <2>2, <2>3 DEF IInv, RoundOK, CallListener
  <2> QED
    BY <2>4, <2>5, <2>6, <2>7 DEF IInv
<1>4. ASSUME PulseTimeout
      PROVE  IInv'
  <2>1. Pulse \in mgr.short /\ mgr.timeout[Pulse] <= round.now
        /\ round.now \in Nat /\ round.now <= clock /\ round.phase = "scan"
    BY <1>1, <1>4 DEF PulseTimeout, Expired, Heads, IInv, RoundOK, RoundTyped
  <2>2. Sound(mgr', clock) /\ mgr'.invoked = mgr.invoked
    BY <1>1, <1>4, <2>1, PulseSound DEF PulseTimeout
  <2>3. /\ OwnerTyped' /\ HostTyped' /\ RoundTyped' /\ clock' = clock
        /\ updatePending' = updatePending /\ round' = round
    BY <1>1, <1>4 DEF PulseTimeout, OwnerTyped, owner, HostTyped, host, RoundTyped
  <2>4. TypeOK'
    BY <1>1, <2>2, <2>3, TypeParts
       DEF TypeOK, OwnerTyped, Pools, HostTyped, RoundTyped, IInv, Sound
  <2>5. InvokedIsShort'
    BY <2>1, <2>2, <2>3 DEF IInv, InvokedIsShort, Sound
  <2> QED
    BY <2>2, <2>3, <2>4, <2>5 DEF IInv, RoundOK, Sound
<1>5. ASSUME ListenerReturn
      PROVE  IInv'
  <2>1. Sound(mgr', clock) /\ mgr'.invoked = None /\ round.timer \in Timers
    BY <1>5, ListenerReturnSound
  <2>2. /\ round'.phase = "scan" /\ round'.now = round.now /\ RoundTyped'
        /\ clock' = clock /\ updatePending' = updatePending /\ HostTyped'
        /\ round.phase = "listener"
    BY <1>1, <1>5 DEF ListenerReturn, RoundTyped, HostTyped, host
  <2>3. OwnerTyped'
    <3>1. \A n \in Nat \cup {-1} : n # 0 => Decremented(n) \in Nat \cup {-1}
      BY DEF Decremented
    <3>2. /\ UNCHANGED left
             \/ left' = [left EXCEPT ![round.timer] = IF left[round.timer] # 0
                                                     THEN Decremented(@) ELSE @]
          /\ UNCHANGED elapses
             \/ elapses' = [elapses EXCEPT ![round.timer] = IF left[round.timer] # 0
                                                           THEN Elapsing(@, interval[round.timer]) ELSE @]
          /\ UNCHANGED <<interval, repeat>>
      BY <1>5 DEF ListenerReturn
    <3>3. left' \in [Timers -> Nat \cup {-1}]
      BY <1>1, <2>1, <3>1, <3>2 DEF OwnerTyped
    <3>4. elapses' \in [Timers -> Nat]
      BY <1>1, <2>1, <3>2, PoolAssumption DEF OwnerTyped, Elapsing
    <3> QED
      BY <1>1, <3>2, <3>3, <3>4 DEF OwnerTyped
  <2>4. TypeOK'
    BY <1>1, <2>1, <2>2, <2>3, TypeParts
       DEF TypeOK, OwnerTyped, Pools, HostTyped, RoundTyped, IInv, Sound
  <2>5. InvokedIsShort' /\ RoundOK'
    BY <2>1, <2>2 DEF IInv, InvokedIsShort, Sound, RoundOK
  <2> QED
    BY <2>1, <2>2, <2>4, <2>5 DEF IInv
<1>6. ASSUME EndTimeouts
      PROVE  IInv'
  <2>1. /\ round' = NoRound /\ updatePending' = FALSE /\ UNCHANGED <<clock, owner, mgr>>
        /\ UNCHANGED host \/ Update
        /\ round.phase = "scan"
    BY <1>6 DEF EndTimeouts
  <2>2. HostTyped'
    BY <1>1, <2>1, UpdateTyped DEF HostTyped, host
  <2>3. RoundTyped' /\ RoundOK'
    BY <1>1, <2>1 DEF RoundTyped, RoundOK, NoRound
  <2>4. TypeOK'
    BY <1>1, <2>1, <2>2, <2>3, TypeParts
       DEF TypeOK, OwnerTyped, owner, Pools, HostTyped, RoundTyped, IInv
  <2>5. InvokedIsShort'
    BY <2>1 DEF IInv, InvokedIsShort
  <2> QED
    BY <2>1, <2>3, <2>4, <2>5 DEF IInv, Sound
<1> QED
  BY <1>2, <1>3, <1>4, <1>5, <1>6 DEF Serve

\* The passing of time preserves the inductive invariant: nothing in the pools is
\* measured from the current instant except the pulse timeout's upper bound.
LEMMA TickIInv == ASSUME IInv, Tick PROVE IInv'
<1>1. clock' = clock + 1 /\ UNCHANGED <<owner, mgr, updatePending, host, round>>
  BY DEF Tick
<1>2. TypeOK' /\ clock \in Nat
  BY <1>1 DEF IInv, TypeOK, owner, host
<1>3. Sound(mgr', clock')
  BY <1>1, <1>2, PoolAssumption DEF IInv, Sound, Pools, All
<1>4. RoundOK'
  BY <1>1, <1>2 DEF IInv, RoundOK, TypeOK
<1> QED
  BY <1>1, <1>2, <1>3, <1>4 DEF IInv, InvokedIsShort

\* Every step of the timer manager preserves the inductive invariant.
LEMMA StepIInv == IInv /\ [Next]_vars => IInv'
<1> SUFFICES ASSUME IInv, [Next]_vars PROVE IInv'
  OBVIOUS
<1>1. CASE UNCHANGED vars
  BY <1>1 DEF vars, owner, host, IInv, TypeOK, Sound, InvokedIsShort, RoundOK
<1> QED
  BY <1>1, RequestIInv, RoundIInv, TickIInv DEF Next

\* In every reachable state the pools are sound.
THEOREM PoolsInvariant == Spec => []IInv
<1>1. Init => IInv
  BY InitIInv
<1>2. IInv /\ [Next]_vars => IInv'
  BY StepIInv
<1> QED
  BY <1>1, <1>2, PTL DEF Spec

\* TypeOK, the type invariant, is one: the counters, timeouts and marks that
\* the code subtracts stay natural numbers.
THEOREM TypeCorrect == Spec => []TypeOK
<1>1. IInv => TypeOK
  BY DEF IInv
<1> QED
  BY <1>1, PoolsInvariant, PTL

\* PulseRuns: the pulse timer runs exactly while there are long timers.
THEOREM PulseRunsAlways == Spec => []PulseRuns
<1>1. IInv => PulseRuns
  BY DEF IInv, Sound, PulseRuns
<1> QED
  BY <1>1, PoolsInvariant, PTL

\* LongIsFar: no long timer is ever overdue for the short pool.
THEOREM LongIsFarAlways == Spec => []LongIsFar
<1>1. IInv => LongIsFar
  BY DEF IInv, Sound, LongIsFar
<1> QED
  BY <1>1, PoolsInvariant, PTL

\* InvokedIsShort: what OnSystemTimeout() removes after a listener is there.
THEOREM InvokedIsShortAlways == Spec => []InvokedIsShort
<1>1. IInv => InvokedIsShort
  BY DEF IInv
<1> QED
  BY <1>1, PoolsInvariant, PTL

-----------------------------------------------------------------------------
\* The host's timer.  Between rounds it is set for the head of the short pool;
\* during a round of DoSystemTimeout(), at whose end nobody looks at it, it is
\* still set early enough, because a listener only runs when it has expired.

Armed == \A t \in mgr.short : sysTimer # Off /\ sysTimer <= Later(clock, mgr.timeout[t])

HostInv ==
  /\ ScheduledIsSet
  /\ round.phase # "idle" => ~timeoutScheduled
  /\ HostOutcomes = {TRUE} =>
       /\ round.phase = "idle" \/ round.early => Armed
       /\ round.phase = "listener" /\ round.early => sysTimer # Off /\ sysTimer <= clock

\* The later of two instants, as Update() asks the host for a delay of at least 0.
LEMMA LaterFacts ==
  ASSUME NEW a \in Nat, NEW b \in Nat
  PROVE  /\ Later(a, b) \in Nat /\ Later(a, b) >= a /\ Later(a, b) >= b
         /\ \A c \in Nat : b <= c => Later(a, b) <= Later(a, c)
  BY DEF Later

\* A host's timer that has expired is early enough for whatever is in the pool.
LEMMA ExpiredArms ==
  ASSUME NEW now \in Nat, NEW at \in Nat, at <= now, NEW m \in Pools
  PROVE  \A t \in m.short : at # Off /\ at <= Later(now, m.timeout[t])
<1> SUFFICES ASSUME NEW t \in m.short
             PROVE  at # Off /\ at <= Later(now, m.timeout[t])
  OBVIOUS
<1>1. m.timeout[t] \in Nat
  BY DEF Pools
<1>2. Later(now, m.timeout[t]) \in Nat /\ Later(now, m.timeout[t]) >= now
  BY <1>1, LaterFacts
<1> QED
  BY <1>2 DEF Off

\* Update() leaves a host's timer that is believed to be set set for the head of
\* the short pool, and armed for the whole pool if the host does not refuse.
LEMMA UpdateArms ==
  ASSUME clock \in Nat, clock' = clock, mgr' \in Pools, HostTyped, Update,
         timeoutScheduled => sysTimer # Off /\ sysTimer <= Later(clock, scheduledTimeout)
  PROVE  /\ timeoutScheduled' => /\ sysTimer' # Off
                                 /\ sysTimer' <= Later(clock, scheduledTimeout')
                                 /\ \E t \in Heads(mgr') : mgr'.timeout[t] = scheduledTimeout'
         /\ HostOutcomes = {TRUE} => Armed'
<1>1. CASE mgr'.short = {} /\ timeoutScheduled' = FALSE
  BY <1>1 DEF Armed
<1>2. CASE \E h \in Heads(mgr') :
             IF timeoutScheduled /\ scheduledTimeout = mgr'.timeout[h]
             THEN UNCHANGED host
             ELSE \E ok \in HostOutcomes : Installed(mgr'.timeout[h], ok)
  <2>1. PICK h \in Heads(mgr') :
          IF timeoutScheduled /\ scheduledTimeout = mgr'.timeout[h]
          THEN UNCHANGED host
          ELSE \E ok \in HostOutcomes : Installed(mgr'.timeout[h], ok)
    BY <1>2
  <2>2. /\ h \in mgr'.short /\ mgr'.timeout[h] \in Nat
        /\ \A t \in mgr'.short : mgr'.timeout[t] \in Nat /\ mgr'.timeout[h] <= mgr'.timeout[t]
    BY DEF Pools, Heads
  <2> DEFINE head == mgr'.timeout[h]
  <2>3. /\ Later(clock, head) \in Nat
        /\ \A t \in mgr'.short : Later(clock, head) <= Later(clock, mgr'.timeout[t])
    BY <2>2, LaterFacts
  <2>4. ASSUME sysTimer' \in Nat, sysTimer' <= Later(clock, head)
        PROVE  Armed'
    <3> SUFFICES ASSUME NEW t \in mgr'.short
                 PROVE  sysTimer' # Off /\ sysTimer' <= Later(clock, mgr'.timeout[t])
      BY DEF Armed
    <3>1. Later(clock, mgr'.timeout[t]) \in Nat
      BY <2>2, LaterFacts
    <3> QED
      BY <2>3, <2>4, <3>1 DEF Off
  <2>5. CASE timeoutScheduled /\ scheduledTimeout = head /\ UNCHANGED host
    <3>1. sysTimer \in Nat /\ sysTimer <= Later(clock, head)
      BY <2>5 DEF HostTyped
    <3> QED
      BY <2>4, <2>5, <3>1 DEF host
  <2>6. CASE \E ok \in HostOutcomes : Installed(head, ok)
    <3>1. PICK ok \in HostOutcomes : Installed(head, ok)
      BY <2>6
    <3>2. CASE ok = TRUE
      <4>1. sysTimer' = Later(clock, head) /\ scheduledTimeout' = head
        BY <3>1, <3>2 DEF Installed
      <4> HIDE DEF head
      <4>2. sysTimer' \in Nat /\ sysTimer' # Off /\ sysTimer' <= Later(clock, scheduledTimeout')
        BY <2>3, <4>1 DEF Off
      <4> QED
        BY <2>3, <2>4, <4>1, <4>2 DEF head
    <3>3. CASE ok = FALSE
      <4>1. timeoutScheduled' = FALSE
        BY <3>1, <3>3 DEF Installed
      <4> QED
        BY <3>3, <4>1
    <3> QED
      BY <3>2, <3>3, RequestAssumption
  <2> QED
    BY <2>1, <2>5, <2>6
<1> QED
  BY <1>1, <1>2 DEF Update

\* Every step preserves what is known of the host's timer.
LEMMA StepHostInv ==
  ASSUME IInv, IInv', HostInv, [Next]_vars
  PROVE  HostInv'
<1>1. /\ clock \in Nat /\ HostTyped /\ RoundTyped /\ mgr \in Pools /\ mgr' \in Pools
      /\ round.now <= clock /\ round.now \in Nat
  BY TypeParts DEF IInv, RoundOK, RoundTyped, Sound
<1>2. ASSUME UNCHANGED <<clock, round, mgr, host>>
      PROVE  HostInv'
  BY <1>2 DEF HostInv, ScheduledIsSet, Armed, host, Heads
<1>11. ASSUME UNCHANGED <<clock, host>>, sysTimer # Off, sysTimer <= clock
       PROVE  Armed'
  <2>1. sysTimer \in Nat /\ sysTimer' = sysTimer /\ clock' = clock
    BY <1>1, <1>11 DEF HostTyped, host
  <2> QED
    BY <1>1, <1>11, <2>1, ExpiredArms DEF Armed
<1>3. ASSUME InUserCode, UNCHANGED <<clock, updatePending, round>>, UpdateUnlessPending
      PROVE  HostInv'
  <2>1. CASE round.phase = "idle"
    <3>1. Update
      BY <1>3, <2>1 DEF UpdateUnlessPending, IInv, RoundOK
    <3>2. timeoutScheduled => sysTimer # Off /\ sysTimer <= Later(clock, scheduledTimeout)
      BY <2>1 DEF HostInv, ScheduledIsSet
    <3>3. /\ timeoutScheduled' => /\ sysTimer' # Off
                                  /\ sysTimer' <= Later(clock, scheduledTimeout')
                                  /\ \E t \in Heads(mgr') : mgr'.timeout[t] = scheduledTimeout'
          /\ HostOutcomes = {TRUE} => Armed'
      BY <1>1, <1>3, <3>1, <3>2, UpdateArms
    <3> QED
      BY <1>3, <2>1, <3>3 DEF HostInv, ScheduledIsSet, Later
  <2>2. CASE round.phase = "listener"
    <3>1. UNCHANGED host
      BY <1>3, <2>2 DEF UpdateUnlessPending, IInv, RoundOK
    <3> QED
      BY <1>3, <1>11, <2>2, <3>1 DEF HostInv, ScheduledIsSet, host
  <2> QED
    BY <1>3, <2>1, <2>2 DEF InUserCode
<1>4. ASSUME NEW t \in Timers, Request(t)
      PROVE  HostInv'
  <2>1. ASSUME NEW f \in Factors, Scale(t, f)
        PROVE  HostInv'
    BY <1>2, <1>3, <2>1 DEF Scale
  <2> QED
    BY <1>2, <1>3, <1>4, <2>1
       DEF Request, SetInterval, SetRepeat, SetRepeatCount, ActivateTimer, DeactivateTimer, Reschedule
<1>5. ASSUME NEW early \in BOOLEAN, BeginTimeouts(early)
      PROVE  HostInv'
  BY <1>5 DEF HostInv, ScheduledIsSet, BeginTimeouts, Armed
<1>12. ASSUME NEW t \in mgr.short, mgr.timeout[t] <= round.now, HostOutcomes = {TRUE},
               round.phase = "scan", round.early
       PROVE  sysTimer # Off /\ sysTimer <= clock
  <2>1. mgr.timeout[t] \in Nat /\ mgr.timeout[t] <= clock
    BY <1>1, <1>12 DEF Pools
  <2>2. Later(clock, mgr.timeout[t]) = clock
    BY <1>1, <2>1 DEF Later
  <2> QED
    BY <1>12, <2>2 DEF HostInv, Armed
<1>6. ASSUME NEW t \in Timers, CallListener(t)
      PROVE  HostInv'
  <2>1. /\ t \in mgr.short /\ mgr.timeout[t] <= round.now
        /\ round.phase = "scan" /\ round'.phase = "listener" /\ round'.early = round.early
        /\ UNCHANGED <<clock, host>> /\ mgr'.short = mgr.short /\ mgr'.timeout = mgr.timeout
    BY <1>1, <1>6 DEF CallListener, Expired, Heads, Pools, RoundTyped
  <2> QED
    BY <1>11, <1>12, <2>1 DEF HostInv, ScheduledIsSet, host
<1>7. ASSUME PulseTimeout
      PROVE  HostInv'
  <2>1. /\ Pulse \in mgr.short /\ mgr.timeout[Pulse] <= round.now
        /\ round.phase = "scan" /\ UNCHANGED <<clock, host, round>>
    BY <1>7 DEF PulseTimeout, Expired, Heads
  <2> QED
    BY <1>11, <1>12, <2>1 DEF HostInv, ScheduledIsSet, host
<1>8. ASSUME ListenerReturn
      PROVE  HostInv'
  <2>1. /\ round.phase = "listener" /\ round'.phase = "scan" /\ round'.early = round.early
        /\ UNCHANGED <<clock, host>>
    BY <1>1, <1>8 DEF ListenerReturn, RoundTyped
  <2> QED
    BY <1>11, <2>1 DEF HostInv, ScheduledIsSet, host
<1>9. ASSUME EndTimeouts
      PROVE  HostInv'
  <2>1. round.phase = "scan" /\ round' = NoRound /\ UNCHANGED <<clock, mgr>> /\ ~timeoutScheduled
    BY <1>9 DEF EndTimeouts, HostInv
  <2>2. CASE round.early
    <3>1. UNCHANGED host
      BY <1>9, <2>2 DEF EndTimeouts
    <3> QED
      BY <2>1, <2>2, <3>1 DEF HostInv, ScheduledIsSet, Armed, host, NoRound
  <2>3. CASE ~round.early
    <3>1. Update
      BY <1>9, <2>3 DEF EndTimeouts
    <3>2. /\ timeoutScheduled' => /\ sysTimer' # Off
                                  /\ sysTimer' <= Later(clock, scheduledTimeout')
                                  /\ \E t \in Heads(mgr') : mgr'.timeout[t] = scheduledTimeout'
          /\ HostOutcomes = {TRUE} => Armed'
      BY <1>1, <2>1, <3>1, UpdateArms
    <3> QED
      BY <2>1, <3>2 DEF HostInv, ScheduledIsSet, Later, NoRound
  <2> QED
    BY <2>2, <2>3
<1>10. ASSUME Tick
       PROVE  HostInv'
  <2>1. clock' = clock + 1 /\ UNCHANGED <<mgr, host, round>>
    BY <1>10 DEF Tick
  <2>2. ASSUME NEW at \in Nat, sysTimer # Off, sysTimer <= Later(clock, at)
        PROVE  sysTimer' # Off /\ sysTimer' <= Later(clock', at)
    <3>1. Later(clock, at) \in Nat /\ Later(clock', at) \in Nat
          /\ Later(clock, at) <= Later(clock', at)
      BY <1>1, <2>1 DEF Later
    <3>2. sysTimer \in Nat /\ sysTimer' = sysTimer
      BY <1>1, <2>1, <2>2 DEF HostTyped, host
    <3> QED
      BY <2>2, <3>1, <3>2
  <2>3. Armed => Armed'
    BY <1>1, <2>1, <2>2 DEF Armed, Pools
  <2>4. round.phase # "listener" \/ sysTimer <= clock => round'.phase # "listener" \/ sysTimer' <= clock'
    BY <1>1, <2>1 DEF HostTyped, host, Off
  <2>5. scheduledTimeout \in Nat
    BY <1>1 DEF HostTyped
  <2>6. ScheduledIsSet'
    BY <2>1, <2>2, <2>5 DEF HostInv, ScheduledIsSet, host, Heads
  <2> QED
    BY <2>1, <2>3, <2>4, <2>6 DEF HostInv, host
<1> QED
  BY <1>2, <1>4, <1>5, <1>6, <1>7, <1>8, <1>9, <1>10 DEF Next, Serve, vars

\* The host's timer agrees with timeout_scheduled in every reachable state.
LEMMA HostInvariant == Spec => [](IInv /\ HostInv)
<1>1. Init => HostInv
  BY DEF Init, HostInv, ScheduledIsSet, NoRound, Armed
<1>2. IInv /\ IInv' /\ HostInv /\ [Next]_vars => HostInv'
  BY StepHostInv
<1> QED
  BY <1>1, <1>2, PoolsInvariant, PTL DEF Spec

\* ScheduledIsSet: whatever the host answers, timeout_scheduled is never a
\* false belief between rounds.
THEOREM ScheduledIsSetAlways == Spec => []ScheduledIsSet
<1>1. IInv /\ HostInv => ScheduledIsSet
  BY DEF HostInv
<1> QED
  BY <1>1, HostInvariant, PTL

\* NoLostTimeout: with a host that never refuses, no active timer is left
\* without a system timeout early enough for it, DoSystemTimeout() included.
THEOREM NoLostTimeoutAlways == ASSUME HostOutcomes = {TRUE} PROVE Spec => []NoLostTimeout
<1>1. IInv /\ HostInv => NoLostTimeout
  BY DEF HostInv, NoLostTimeout, Armed
<1> QED
  BY <1>1, HostInvariant, PTL

-----------------------------------------------------------------------------
\* NotRevived: no return from a listener brings a stopped timer back.

\* No step of OnSystemTimeout() makes an inactive timer active.
LEMMA ServeKeepsActive ==
  ASSUME IInv, (\E early \in BOOLEAN : BeginTimeouts(early)) \/ Serve \/ Tick,
         NEW t \in Timers, Active(mgr', t)
  PROVE  Active(mgr, t)
<1>1. Sound(mgr, clock) /\ clock \in Nat /\ round.now \in Nat /\ round.now <= clock
  BY TypeParts DEF IInv, RoundOK, RoundTyped
<1>2. ASSUME NEW u \in Timers, CallListener(u)
      PROVE  mgr'.short = mgr.short /\ mgr'.long = mgr.long
  BY <1>1, <1>2 DEF CallListener, Sound, Pools
<1>3. ASSUME PulseTimeout
      PROVE  Active(mgr, t)
  BY <1>1, <1>3, PulseSound DEF PulseTimeout, Expired, Heads
<1>4. ASSUME ListenerReturn
      PROVE  Active(mgr, t)
  <2>1. /\ Others(mgr, mgr', round.timer)
        /\ ~Untouched(round.timer) => (Active(mgr', round.timer) <=> Active(mgr, round.timer))
    BY <1>4, ListenerReturnSound
  <2> QED
    BY <2>1 DEF Others, Active, Untouched
<1> QED
  BY <1>2, <1>3, <1>4 DEF Serve, BeginTimeouts, EndTimeouts, Tick, Active

\* Only a call of its owner activates an inactive timer; ReactivateTimer() never
\* brings back a timer stopped by its listener.
THEOREM NotRevivedAlways == Spec => NotRevived
<1> DEFINE A == \A t \in Timers : ~Active(mgr, t) /\ Active(mgr', t) =>
                  InUserCode /\ round'.phase = round.phase
<1>1. IInv /\ [Next]_vars => [A]_vars
  <2> SUFFICES ASSUME IInv, Next, NEW t \in Timers, ~Active(mgr, t), Active(mgr', t)
               PROVE  InUserCode /\ round'.phase = round.phase
    OBVIOUS
  <2>1. PICK u \in Timers : Request(u)
    BY ServeKeepsActive DEF Next
  <2> QED
    BY <2>1 DEF Request, SetInterval, SetRepeat, SetRepeatCount, ActivateTimer,
                DeactivateTimer, Reschedule, Scale
<1> QED
  BY <1>1, PoolsInvariant, PTL DEF Spec, NotRevived

-----------------------------------------------------------------------------
\* No short timer is early.  Its timeout is never before the instant at which what
\* was asked for has elapsed, however late rounds and pulses are: repeating from the
\* last timeout adds whole intervals to both, and a timer that is too far behind to
\* do so is past that instant already.

OnTime(m, e) ==
  \A t \in Timers :
    /\ t \in m.short => e[t] <= m.timeout[t]
    /\ t \in m.long => e[t] = 0

\* A change of one timer is on time if that timer is.
LEMMA OthersOnTime ==
  ASSUME NEW m, NEW e, OnTime(m, e), NEW t \in Timers, NEW n, Others(m, n, t), NEW f,
         \A u \in Timers \ {t} : f[u] = e[u],
         t \in n.short => f[t] <= n.timeout[t],
         t \in n.long => f[t] = 0
  PROVE  OnTime(n, f)
  BY DEF OnTime, Others

\* ActivateTimer() sets a timeout at which the interval has elapsed.
LEMMA ActivatedOnTime ==
  ASSUME NEW m, Sound(m, clock), clock \in Nat, NEW t \in Timers, ~Active(m, t), NEW d \in Nat,
         NEW n, n = Activated(m, t, d), NEW e, OnTime(m, e), NEW f,
         \A u \in Timers \ {t} : f[u] = e[u], f[t] = Elapsing(clock, d)
  PROVE  OnTime(n, f)
<1>1. Sound(n, clock) /\ Others(m, n, t)
  BY ActivatedSound
<1>2. n.timeout[t] \in Nat
  BY <1>1 DEF Sound, Pools, All
<1>3. CASE d < Threshold
  <2>1. n = InsertShortTimer(m, t, clock + d) /\ f[t] = clock + d
    BY <1>3 DEF Activated, Elapsing
  <2>2. n.timeout[t] = clock + d /\ n.long = m.long
    BY <2>1 DEF InsertShortTimer, Sound, Pools, All
  <2>3. t \notin n.long /\ f[t] <= n.timeout[t]
    BY <2>1, <2>2 DEF Active
  <2> QED
    BY <1>1, <2>3, OthersOnTime
<1>4. CASE ~(d < Threshold)
  <2>1. f[t] = 0 /\ f[t] <= n.timeout[t]
    BY <1>2, <1>4 DEF Elapsing
  <2> QED
    BY <1>1, <2>1, OthersOnTime
<1> QED
  BY <1>3, <1>4

\* So do Reschedule() and Scale(), which deactivate the timer first.
LEMMA RescheduledOnTime ==
  ASSUME NEW m, Sound(m, clock), clock \in Nat, NEW t \in Timers, Active(m, t), NEW d \in Nat,
         NEW n, n = Activated(Deactivated(m, t), t, d), NEW e, OnTime(m, e), NEW f,
         \A u \in Timers \ {t} : f[u] = e[u], f[t] = Elapsing(clock, d)
  PROVE  OnTime(n, f)
<1> DEFINE k == Deactivated(m, t)
<1>1. Sound(k, clock) /\ ~Active(k, t) /\ Others(m, k, t)
  BY DeactivatedSound
<1>2. n = Activated(k, t, d)
  OBVIOUS
<1> HIDE DEF k
<1>3. t \notin k.short /\ t \notin k.long
  BY <1>1 DEF Active
<1>4. OnTime(k, e)
  BY <1>1, <1>3, OthersOnTime
<1> QED
  BY <1>1, <1>2, <1>4, ActivatedOnTime

\* The owner's calls.
LEMMA RequestOnTime ==
  ASSUME IInv, OnTime(mgr, elapses), NEW t \in Timers, Request(t)
  PROVE  OnTime(mgr', elapses')
<1>1. /\ Sound(mgr, clock) /\ clock \in Nat /\ interval[t] \in Nat
      /\ elapses \in [Timers -> Nat]
  BY TypeParts DEF IInv, OwnerTyped
<1>2. ASSUME NEW d \in Nat, NEW f, ~Active(mgr, t), \A u \in Timers \ {t} : f[u] = elapses[u],
             f[t] = Elapsing(clock, d)
      PROVE  OnTime(Activated(mgr, t, d), f)
  <2> DEFINE n == Activated(mgr, t, d)
  <2>1. n = Activated(mgr, t, d)
    OBVIOUS
  <2>2. OnTime(mgr, elapses)
    OBVIOUS
  <2> HIDE DEF n
  <2>3. Sound(mgr, clock) /\ clock \in Nat
    BY <1>1
  <2>4. OnTime(n, f)
    BY <1>2, <2>1, <2>2, <2>3, ActivatedOnTime
  <2> QED
    BY <2>4 DEF n
<1>3. CASE UNCHANGED <<mgr, elapses>>
  BY <1>3
<1>4. CASE ActivateTimer(t)
  <2>1. /\ ~Active(mgr, t) /\ mgr' = Activated(mgr, t, interval[t])
        /\ elapses' = [elapses EXCEPT ![t] = Elapsing(clock, interval[t])]
    BY <1>4 DEF ActivateTimer
  <2>2. elapses'[t] = Elapsing(clock, interval[t]) /\ \A u \in Timers \ {t} : elapses'[u] = elapses[u]
    BY <1>1, <2>1
  <2> QED
    BY <1>1, <1>2, <2>1, <2>2
<1>5. CASE DeactivateTimer(t)
  <2>1. Active(mgr, t) /\ mgr' = Deactivated(mgr, t) /\ elapses' = elapses
    BY <1>5 DEF DeactivateTimer, owner
  <2>2. ~Active(mgr', t) /\ Others(mgr, mgr', t)
    BY <1>1, <2>1, DeactivatedSound
  <2>3. t \notin mgr'.short /\ t \notin mgr'.long
    BY <2>2 DEF Active
  <2> QED
    BY <2>1, <2>2, <2>3, OthersOnTime
<1>6. ASSUME NEW d \in Nat, NEW f, Active(mgr, t), \A u \in Timers \ {t} : f[u] = elapses[u],
              f[t] = Elapsing(clock, d)
       PROVE  OnTime(Activated(Deactivated(mgr, t), t, d), f)
  <2> DEFINE n == Activated(Deactivated(mgr, t), t, d)
  <2>1. n = Activated(Deactivated(mgr, t), t, d)
    OBVIOUS
  <2>2. OnTime(mgr, elapses)
    OBVIOUS
  <2> HIDE DEF n
  <2>3. Sound(mgr, clock) /\ clock \in Nat
    BY <1>1
  <2>4. OnTime(n, f)
    BY <1>6, <2>1, <2>2, <2>3, RescheduledOnTime
  <2> QED
    BY <2>4 DEF n
<1>7. ASSUME NEW d \in Nat, Active(mgr, t), mgr' = Activated(Deactivated(mgr, t), t, d),
             elapses' = [elapses EXCEPT ![t] = Elapsing(clock, d)]
      PROVE  OnTime(mgr', elapses')
  <2>1. elapses'[t] = Elapsing(clock, d) /\ \A u \in Timers \ {t} : elapses'[u] = elapses[u]
    BY <1>1, <1>7
  <2> QED
    BY <1>7, <1>6, <2>1
<1>8. CASE Reschedule(t)
  BY <1>1, <1>7, <1>8 DEF Reschedule
<1>9. ASSUME NEW f \in Factors, Scale(t, f)
      PROVE  OnTime(mgr', elapses')
  <2> DEFINE d == (f[1] * Remaining(mgr, t)) \div f[2]
  <2>1. \/ /\ Active(mgr, t) /\ d \in 0..MaxRest
           /\ mgr' = Activated(Deactivated(mgr, t), t, d)
           /\ elapses' = [elapses EXCEPT ![t] = Elapsing(clock, d)]
        \/ UNCHANGED <<mgr, elapses>>
    BY <1>9 DEF Scale
  <2> HIDE DEF d
  <2>2. d \in 0..MaxRest => d \in Nat
    BY RequestAssumption
  <2> QED
    BY <1>3, <1>7, <2>1, <2>2
<1>10. CASE (\E i \in Intervals : SetInterval(t, i)) \/ (\E k \in Repeats : SetRepeat(t, k))
             \/ \E k \in Repeats : SetRepeatCount(t, k)
  BY <1>3, <1>10 DEF SetInterval, SetRepeat, SetRepeatCount
<1> QED
  BY <1>4, <1>5, <1>8, <1>9, <1>10 DEF Request

\* A pulse leaves the short timers' timeouts alone, and makes no timer long.
LEMMA PulseOnTime ==
  ASSUME IInv, OnTime(mgr, elapses), PulseTimeout
  PROVE  OnTime(mgr', elapses')
<1> DEFINE k == OnPulseTimeout(mgr)
           mark == mgr.mark + PulseInterval
           near == Near(mgr, mark)
           moved == [t \in All |-> IF t \in near THEN clock + Later(0, mgr.timeout[t] - mark)
                                   ELSE mgr.timeout[t]]
           j == [mgr EXCEPT !.mark = mark, !.long = @ \ near, !.short = @ \cup near,
                            !.timeout = moved]
<1>1. /\ Sound(mgr, clock) /\ clock \in Nat /\ mgr \in Pools /\ elapses \in [Timers -> Nat]
      /\ elapses' = elapses /\ \A t \in Timers : t \in All /\ t # Pulse
      /\ Pulse \in mgr.short /\ round.now \in Nat /\ round.now <= clock /\ mgr.timeout[Pulse] <= round.now
  BY TypeParts, PoolAssumption
     DEF IInv, OwnerTyped, PulseTimeout, owner, All, Expired, Heads, RoundOK, RoundTyped
<1>2. mgr' = IF Active(k, Pulse)
             THEN Reactivated(RemoveShortTimer(k, Pulse), Pulse, PulseInterval, round.now) ELSE k
  BY DEF PulseTimeout
<1>3. Sound(mgr', clock) /\ Sound(k, clock) /\ \A t \in Timers : Active(mgr', t) <=> Active(mgr, t)
  BY <1>1, <1>2, PulseSound, OnPulseTimeoutSound
<1>4. k = StopPulse(j)
  BY DEF OnPulseTimeout
<1>5. near \subseteq mgr.long /\ mgr.short \cap mgr.long = {}
  BY <1>1 DEF Near, Sound
<1>6. \A t \in Timers : t \in mgr.short => moved[t] = mgr.timeout[t]
  BY <1>1, <1>5
<1> HIDE DEF near, moved, mark
<1>7. j.long = mgr.long \ near /\ j.timeout = moved
  BY <1>1 DEF Pools
<1> HIDE DEF j
<1>8. k.long = j.long /\ k.timeout = j.timeout
  <2>1. k \in Pools
    BY <1>3 DEF Sound
  <2>2. CASE j.long = {}
    BY <1>4, <2>1, <2>2 DEF StopPulse, DeactivatedShort, RemoveShortTimer, Pools
  <2> QED
    BY <1>4, <2>2 DEF StopPulse
<1> HIDE DEF k
<1>9. mgr'.long = k.long /\ \A t \in Timers : mgr'.timeout[t] = k.timeout[t]
  <2>1. CASE Active(k, Pulse)
    <3>1. PulseInterval < Threshold
      BY PoolAssumption
    <3>2. mgr' = InsertShortTimer(RemoveShortTimer(k, Pulse), Pulse,
                                  NextTimeout(RemoveShortTimer(k, Pulse), Pulse, PulseInterval, round.now))
      BY <1>2, <2>1, <3>1 DEF Reactivated
    <3> QED
      BY <1>1, <1>3, <3>2 DEF InsertShortTimer, RemoveShortTimer, Sound, Pools
  <2> QED
    BY <1>2, <2>1
<1>10. ASSUME NEW t \in Timers
       PROVE  /\ t \in mgr'.short => elapses'[t] <= mgr'.timeout[t]
              /\ t \in mgr'.long => elapses'[t] = 0
  <2>1. t \in mgr'.long => t \in mgr.long
    BY <1>7, <1>8, <1>9
  <2>2. CASE t \in mgr.long
    <3>1. elapses'[t] = 0 /\ mgr'.timeout[t] \in Nat
      BY <1>1, <1>3, <2>2 DEF OnTime, Sound, Pools
    <3> QED
      BY <3>1
  <2>3. CASE t \notin mgr.long
    <3>1. t \in mgr'.short => t \in mgr.short
      BY <1>3, <2>3 DEF Active
    <3>2. t \in mgr.short => mgr'.timeout[t] = mgr.timeout[t]
      BY <1>6, <1>7, <1>8, <1>9
    <3> QED
      BY <1>1, <2>1, <2>3, <3>1, <3>2 DEF OnTime
  <2> QED
    BY <2>2, <2>3
<1> QED
  BY <1>10 DEF OnTime

\* A timer repeats from its last timeout, or at once if that would be in the past.
LEMMA ReturnOnTime ==
  ASSUME IInv, OnTime(mgr, elapses), ListenerReturn
  PROVE  OnTime(mgr', elapses')
<1> DEFINE t == round.timer
           rest == Served(mgr, t)
           d == interval[t]
<1>1. t \in Timers /\ Sound(mgr', clock) /\ Others(mgr, mgr', t)
  BY ListenerReturnSound
<1>2. /\ mgr \in Pools /\ clock \in Nat /\ elapses \in [Timers -> Nat] /\ d \in Nat
      /\ round.now \in Nat /\ round.now <= clock /\ LateTolerance \in Nat
  BY <1>1, TypeParts, PoolAssumption DEF IInv, OwnerTyped, RoundTyped, RoundOK
<1>3. mgr.timeout[t] \in Nat /\ mgr'.timeout[t] \in Nat /\ elapses[t] \in Nat
  BY <1>1, <1>2 DEF Sound, Pools, All
<1>4. CASE ~Untouched(t)
  <2>1. mgr' = [mgr EXCEPT !.invoked = None] /\ elapses' = elapses
    BY <1>4 DEF ListenerReturn
  <2>2. mgr'.short = mgr.short /\ mgr'.long = mgr.long /\ mgr'.timeout = mgr.timeout
    BY <1>2, <2>1 DEF Pools
  <2> QED
    BY <2>1, <2>2 DEF OnTime
<1>5. CASE Untouched(t) /\ left[t] = 0
  <2>1. elapses' = elapses
    BY <1>2, <1>5 DEF ListenerReturn
  <2>2. ~Active(mgr', t)
    BY <1>5, ListenerReturnSound
  <2>3. t \notin mgr'.short /\ t \notin mgr'.long
    BY <2>2 DEF Active
  <2> QED
    BY <1>1, <2>1, <2>3, OthersOnTime
<1>6. CASE Untouched(t) /\ left[t] # 0
  <2>1. /\ mgr' = Reactivated(rest, t, d, round.now)
        /\ elapses' = [elapses EXCEPT ![t] = Elapsing(elapses[t], d)]
    BY <1>6 DEF ListenerReturn
  <2>2. t \in mgr.short /\ elapses[t] <= mgr.timeout[t]
    BY <1>1, <1>6, PoolAssumption DEF Untouched, IInv, InvokedIsShort, OnTime
  <2>3. t \notin mgr.long
    BY <2>2 DEF IInv, Sound
  <2>4. rest \in Pools /\ rest.timeout = mgr.timeout /\ rest.long = mgr.long
    BY <1>2 DEF Served, RemoveShortTimer, Pools
  <2>5. elapses'[t] = Elapsing(elapses[t], d) /\ \A u \in Timers \ {t} : elapses'[u] = elapses[u]
    BY <1>1, <1>2, <2>1
  <2> HIDE DEF t, rest, d
  <2>6. CASE d < Threshold
    <3> DEFINE at == NextTimeout(rest, t, d, round.now)
    <3>1. mgr' = InsertShortTimer(rest, t, at)
      BY <2>1, <2>6 DEF Reactivated
    <3>2. rest.timeout[t] = mgr.timeout[t]
      BY <2>4
    <3>3. at >= elapses[t] + d
      BY <1>2, <1>3, <2>2, <3>2 DEF NextTimeout
    <3> HIDE DEF at
    <3>4. mgr'.timeout[t] = at /\ mgr'.long = mgr.long
      BY <1>1, <2>4, <3>1 DEF InsertShortTimer, Pools, All
    <3>5. elapses'[t] = elapses[t] + d
      BY <2>5, <2>6 DEF Elapsing
    <3>6. elapses'[t] <= mgr'.timeout[t] /\ t \notin mgr'.long
      BY <1>2, <1>3, <2>3, <3>3, <3>4, <3>5
    <3> QED
      BY <1>1, <2>5, <3>6, OthersOnTime
  <2>7. CASE ~(d < Threshold)
    <3>1. elapses'[t] = 0 /\ elapses'[t] <= mgr'.timeout[t]
      BY <1>3, <2>5, <2>7 DEF Elapsing
    <3> QED
      BY <1>1, <2>5, <3>1, OthersOnTime
  <2> QED
    BY <2>6, <2>7
<1> QED
  BY <1>4, <1>5, <1>6

\* NeverEarly: on a host as late as it likes the listener of a timer that has been
\* short since it was activated is not called before its interval has elapsed.
THEOREM NeverEarlyAlways == Spec => NeverEarly
<1> DEFINE E == OnTime(mgr, elapses)
           A == \A t \in Timers : Fires(t) => clock >= elapses[t]
<1>1. Init => E
  <2> SUFFICES ASSUME Init PROVE E
    OBVIOUS
  <2>1. mgr.short = {} /\ mgr.long = {}
    BY DEF Init
  <2> QED
    BY <2>1 DEF OnTime
<1>2. IInv /\ E /\ [Next]_vars => E'
  <2> SUFFICES ASSUME IInv, E, [Next]_vars PROVE OnTime(mgr', elapses')
    OBVIOUS
  <2>1. CASE UNCHANGED <<mgr, elapses>>
    BY <2>1
  <2>2. ASSUME NEW t \in Timers, CallListener(t) PROVE OnTime(mgr', elapses')
    <3>1. elapses' = elapses /\ mgr' = [mgr EXCEPT !.invoked = t]
      BY <2>2 DEF CallListener, owner
    <3>2. mgr'.short = mgr.short /\ mgr'.long = mgr.long /\ mgr'.timeout = mgr.timeout
      BY <3>1, TypeParts DEF IInv, Pools
    <3> QED
      BY <3>1, <3>2 DEF OnTime
  <2>3. CASE UNCHANGED vars \/ Tick \/ EndTimeouts \/ \E early \in BOOLEAN : BeginTimeouts(early)
    BY <2>1, <2>3 DEF vars, owner, Tick, EndTimeouts, BeginTimeouts
  <2> QED
    BY <2>2, <2>3, RequestOnTime, PulseOnTime, ReturnOnTime DEF Next, Serve
<1>3. IInv /\ E /\ [Next]_vars => [A]_vars
  <2> SUFFICES ASSUME IInv, E, Next, NEW t \in Timers, Fires(t) PROVE clock >= elapses[t]
    OBVIOUS
  <2>1. CallListener(t)
    <3>1. round.phase = "scan" /\ round'.phase = "listener" /\ round'.timer = t
      BY DEF Fires
    <3>2. PICK u \in Timers : CallListener(u)
      BY <3>1 DEF Next, Serve, Request, SetInterval, SetRepeat, SetRepeatCount, ActivateTimer,
                  DeactivateTimer, Reschedule, Scale, InUserCode, BeginTimeouts, PulseTimeout,
                  ListenerReturn, EndTimeouts, NoRound, Tick
    <3>3. u = t
      BY <3>1, <3>2, TypeParts DEF CallListener, IInv, RoundTyped
    <3> QED
      BY <3>2, <3>3
  <2>2. /\ t \in mgr.short /\ mgr.timeout[t] <= round.now /\ round.now <= clock
        /\ mgr.timeout[t] \in Nat /\ clock \in Nat /\ round.now \in Nat /\ elapses[t] \in Nat
    BY <2>1, TypeParts DEF CallListener, Expired, Heads, IInv, RoundOK, RoundTyped, OwnerTyped, Pools
  <2>3. elapses[t] <= mgr.timeout[t]
    BY <2>2 DEF OnTime
  <2> QED
    BY <2>2, <2>3
<1> HIDE DEF E, A
<1>4. Spec => []E
  BY <1>1, <1>2, PoolsInvariant, PTL DEF Spec
<1> QED
  BY <1>3, <1>4, PoolsInvariant, PTL DEF Spec, NeverEarly, A

-----------------------------------------------------------------------------
\* On a punctual host the manager implements TimerService.  The pools then stay
\* exact: what is added to a timeout on its way through the long pool and the
\* pulse clock sums up to the interval.

PunctualInv ==
  /\ Exact(mgr, clock)
  /\ round.phase # "idle" => round.now = clock
  /\ mgr.invoked # None => mgr.timeout[mgr.invoked] = clock

\* A step that touches one timer changes what is promised of that timer alone.
LEMMA DueOfOthers ==
  ASSUME NEW t \in Timers, Others(mgr, mgr', t),
         \A u \in Timers \ {t} : mgr'.invoked = u <=> mgr.invoked = u
  PROVE  DueOf' = [DueOf EXCEPT ![t] = IF Active(mgr', t) /\ mgr'.invoked # t
                                       THEN mgr'.timeout[t] ELSE Off]
<1>1. ASSUME NEW u \in Timers \ {t}
      PROVE  DueOf'[u] = DueOf[u]
  BY <1>1 DEF DueOf, Others, Active
<1> QED
  BY <1>1 DEF DueOf

\* The owner's calls do to the pools what TimerService says they do.
LEMMA RequestPromise ==
  ASSUME IInv, PunctualInv, NEW t \in Timers, Request(t)
  PROVE  PunctualInv' /\ [Promise!Next]_(Promise!vars)
<1>1. /\ Sound(mgr, clock) /\ clock \in Nat /\ OwnerTyped /\ interval[t] \in Nat
      /\ mgr.invoked = t => t \in mgr.short
      /\ t # None
  BY TypeParts, PoolAssumption DEF IInv, OwnerTyped, InvokedIsShort
<1>2. ASSUME UNCHANGED <<clock, mgr, round>>
      PROVE  PunctualInv' /\ DueOf' = DueOf
  BY <1>2 DEF PunctualInv, Exact, DueOf
<1>3. ASSUME Sound(mgr', clock), Others(mgr, mgr', t), Exact(mgr', clock),
             UNCHANGED <<clock, round>>,
             mgr'.invoked = IF mgr.invoked = t THEN None ELSE mgr.invoked
      PROVE  PunctualInv' /\ DueOf' = [DueOf EXCEPT ![t] = IF Active(mgr', t)
                                                           THEN mgr'.timeout[t] ELSE Off]
  <2>1. \A u \in Timers \ {t} : mgr'.invoked = u <=> mgr.invoked = u
    BY <1>1, <1>3, PoolAssumption
  <2>2. mgr'.invoked # t
    BY <1>1, <1>3
  <2>3. mgr.invoked \in Timers \cup {None}
    BY <1>1 DEF Sound, Pools
  <2>4. PunctualInv'
    BY <1>1, <1>3, <2>3 DEF PunctualInv, Others
  <2> QED
    BY <1>3, <2>1, <2>2, <2>4, DueOfOthers
<1>4. ASSUME (\E i \in Intervals : SetInterval(t, i)) \/ (\E n \in Repeats : SetRepeat(t, n))
               \/ \E n \in Repeats : SetRepeatCount(t, n)
      PROVE  PunctualInv' /\ Promise!Configure(t)
  BY <1>2, <1>4 DEF SetInterval, SetRepeat, SetRepeatCount, Promise!Configure
<1>5. ASSUME ActivateTimer(t)
      PROVE  PunctualInv' /\ Promise!Start(t)
  <2>1. ~Active(mgr, t) /\ mgr' = Activated(mgr, t, interval[t]) /\ UNCHANGED <<clock, round>>
    BY <1>5 DEF ActivateTimer
  <2>2. /\ Sound(mgr', clock) /\ Active(mgr', t) /\ mgr'.invoked = mgr.invoked
        /\ Others(mgr, mgr', t)
        /\ Exact(mgr', clock) /\ mgr'.timeout[t] = clock + interval[t]
    BY <1>1, <2>1, ActivatedSound DEF PunctualInv
  <2>3. mgr.invoked # t
    BY <1>1, <2>1 DEF Active
  <2> QED
    BY <1>3, <1>5, <2>1, <2>2, <2>3 DEF ActivateTimer, Promise!Start
<1>6. ASSUME DeactivateTimer(t)
      PROVE  PunctualInv' /\ Promise!Stop(t)
  <2>1. Active(mgr, t) /\ mgr' = Deactivated(mgr, t) /\ UNCHANGED <<clock, round>>
    BY <1>6 DEF DeactivateTimer
  <2>2. /\ Sound(mgr', clock) /\ ~Active(mgr', t) /\ Others(mgr, mgr', t)
        /\ mgr'.invoked = IF mgr.invoked = t THEN None ELSE mgr.invoked
        /\ Exact(mgr', clock)
    BY <1>1, <2>1, DeactivatedSound DEF PunctualInv
  <2> QED
    BY <1>3, <1>6, <2>1, <2>2 DEF DeactivateTimer, Promise!Stop, owner, Off, Promise!Off
<1>7. ASSUME Reschedule(t)
      PROVE  PunctualInv' /\ Promise!Start(t)
  <2>1. /\ Active(mgr, t) /\ mgr' = Activated(Deactivated(mgr, t), t, interval[t])
        /\ UNCHANGED <<clock, round>>
    BY <1>7 DEF Reschedule
  <2>2. /\ Sound(mgr', clock) /\ Active(mgr', t) /\ Others(mgr, mgr', t)
        /\ mgr'.invoked = IF mgr.invoked = t THEN None ELSE mgr.invoked
        /\ Exact(mgr', clock) /\ mgr'.timeout[t] = clock + interval[t]
    <3>1. Exact(mgr, clock)
      BY DEF PunctualInv
    <3>2. /\ Sound(mgr', clock) /\ Active(mgr', t) /\ Others(mgr, mgr', t)
          /\ mgr'.invoked = IF mgr.invoked = t /\ t \in mgr.short THEN None ELSE mgr.invoked
          /\ Exact(mgr, clock) => Exact(mgr', clock) /\ mgr'.timeout[t] = clock + interval[t]
      BY <1>1, <2>1, RescheduledSound
    <3> QED
      BY <1>1, <3>1, <3>2
  <2> QED
    BY <1>3, <1>7, <2>1, <2>2 DEF Reschedule, Promise!Start
<1>8. ASSUME NEW f \in Factors, Scale(t, f)
      PROVE  PunctualInv' /\ Promise!Scale(t)
  <2> DEFINE by(d) == (f[1] * d) \div f[2]
             rest == Remaining(mgr, t)
  <2>1. /\ interval' = [interval EXCEPT ![t] = by(interval[t])]
        /\ UNCHANGED <<clock, repeat, left, round>>
    BY <1>8 DEF Scale
  <2>2. mgr.timeout[t] \in Nat /\ DueOf[t] \in Int
        /\ DueOf[t] = IF Active(mgr, t) /\ mgr.invoked # t THEN mgr.timeout[t] ELSE Off
    BY <1>1 DEF Sound, Pools, All, DueOf, Off
  <2>3. Active(mgr, t) /\ rest > 0 <=> DueOf[t] > clock
    BY <1>1, <2>2 DEF Remaining, Later, PunctualInv, Off
  <2>4. CASE Active(mgr, t) /\ rest > 0
    <3>1. /\ by(rest) \in 0..MaxRest
          /\ mgr' = Activated(Deactivated(mgr, t), t, by(rest))
      BY <1>8, <2>4 DEF Scale
    <3>2. rest = DueOf[t] - clock
      BY <1>1, <2>2, <2>3, <2>4 DEF Remaining, Later, Off
    <3> HIDE DEF rest
    <3>3. by(rest) = (f[1] * (DueOf[t] - clock)) \div f[2]
      BY <3>2
    <3> HIDE DEF by
    <3>4. PICK r \in Nat : r = by(rest)
      BY <3>1, RequestAssumption
    <3>5. Active(mgr, t) /\ mgr' = Activated(Deactivated(mgr, t), t, r)
      BY <2>4, <3>1, <3>4
    <3>6. /\ Sound(mgr', clock) /\ Active(mgr', t) /\ Others(mgr, mgr', t)
          /\ mgr'.invoked = IF mgr.invoked = t THEN None ELSE mgr.invoked
          /\ Exact(mgr', clock) /\ mgr'.timeout[t] = clock + r
      <4>1. /\ Sound(mgr', clock) /\ Active(mgr', t) /\ Others(mgr, mgr', t)
            /\ mgr'.invoked = IF mgr.invoked = t /\ t \in mgr.short THEN None ELSE mgr.invoked
            /\ Exact(mgr, clock) => Exact(mgr', clock) /\ mgr'.timeout[t] = clock + r
        BY <1>1, <3>4, <3>5, RescheduledSound
      <4> QED
        BY <1>1, <4>1 DEF PunctualInv
    <3>7. PunctualInv' /\ DueOf' = [DueOf EXCEPT ![t] = clock + r]
      BY <1>3, <2>1, <3>6
    <3>8. mgr.invoked # t
      BY <1>1, <2>2, <2>3, <2>4 DEF Off
    <3> QED
      BY <2>1, <2>3, <2>4, <3>3, <3>4, <3>6, <3>7, <3>8 DEF Promise!Scale, by
  <2>5. CASE ~(Active(mgr, t) /\ rest > 0)
    <3>1. UNCHANGED mgr
      BY <1>8, <2>5 DEF Scale
    <3> HIDE DEF rest
    <3> QED
      BY <1>2, <2>1, <2>3, <2>5, <3>1 DEF Promise!Scale
  <2> QED
    BY <2>4, <2>5
<1> QED
  BY <1>4, <1>5, <1>6, <1>7, <1>8 DEF Request, Promise!Next

\* OnSystemTimeout() fires what is due at this instant, one timer at a time, as
\* TimerService says; its work on the pulse timer is a stutter there.
LEMMA RoundPromise ==
  ASSUME IInv, PunctualInv, (\E early \in BOOLEAN : BeginTimeouts(early)) \/ Serve
  PROVE  PunctualInv' /\ [Promise!Next]_(Promise!vars)
<1>1. /\ Sound(mgr, clock) /\ clock \in Nat /\ round.now \in Nat /\ round.now <= clock
      /\ OwnerTyped /\ RoundTyped
  BY TypeParts DEF IInv, RoundOK, RoundTyped
<1>2. round.phase # "listener" => mgr.invoked = None
  BY DEF IInv, InvokedIsShort
<1>3. ASSUME NEW early \in BOOLEAN, BeginTimeouts(early)
      PROVE  PunctualInv' /\ UNCHANGED Promise!vars
  BY <1>2, <1>3 DEF BeginTimeouts, PunctualInv, Exact, Promise!vars, owner, DueOf
<1>4. ASSUME NEW t \in Timers, CallListener(t)
      PROVE  PunctualInv' /\ Promise!Fire(t)
  <2>1. /\ round.phase = "scan" /\ mgr.invoked = None /\ round.now = clock
        /\ t \in mgr.short /\ mgr.timeout[t] <= clock /\ mgr.timeout[t] \in Nat /\ t # None
    BY <1>1, <1>2, <1>4, PoolAssumption
       DEF CallListener, Expired, Heads, PunctualInv, Sound, Pools, All
  <2>2. mgr.timeout[t] = clock
    BY <1>1, <2>1 DEF PunctualInv, Exact
  <2>3. /\ mgr'.invoked = t /\ mgr'.short = mgr.short /\ mgr'.long = mgr.long
        /\ mgr'.timeout = mgr.timeout /\ mgr'.mark = mgr.mark
        /\ round'.now = round.now /\ clock' = clock
    BY <1>1, <1>4 DEF CallListener, Sound, Pools, RoundTyped
  <2>4. PunctualInv'
    BY <2>1, <2>2, <2>3 DEF PunctualInv, Exact
  <2>5. DueOf[t] = clock
    BY <2>1, <2>2 DEF DueOf, Active
  <2>6. DueOf' = [DueOf EXCEPT ![t] = Off]
    BY <2>1, <2>3, PoolAssumption DEF DueOf, Active
  <2> QED
    BY <1>4, <2>1, <2>3, <2>4, <2>5, <2>6
       DEF Promise!Fire, CallListener, owner, Off, Promise!Off
<1>5. ASSUME PulseTimeout
      PROVE  PunctualInv' /\ UNCHANGED Promise!vars
  <2>1. /\ round.phase = "scan" /\ mgr.invoked = None
        /\ Pulse \in mgr.short /\ mgr.timeout[Pulse] <= round.now
        /\ UNCHANGED <<clock, owner, round>>
    BY <1>2, <1>5 DEF PulseTimeout, Expired, Heads
  <2>2. /\ mgr'.invoked = mgr.invoked
        /\ \A t \in Timers : Active(mgr', t) <=> Active(mgr, t)
        /\ Exact(mgr', clock)
        /\ \A t \in Timers : Active(mgr, t) => mgr'.timeout[t] = mgr.timeout[t]
    BY <1>1, <1>5, <2>1, PulseSound DEF PulseTimeout, PunctualInv
  <2>3. DueOf' = DueOf
    BY <2>2 DEF DueOf
  <2> QED
    BY <2>1, <2>2, <2>3 DEF PunctualInv, Promise!vars, owner
<1>6. ASSUME ListenerReturn
      PROVE  PunctualInv' /\ [Promise!Next]_(Promise!vars)
  <2> DEFINE t == round.timer
  <2>1. /\ t \in Timers /\ mgr'.invoked = None
        /\ Others(mgr, mgr', t)
        /\ ~Untouched(t) => (Active(mgr', t) <=> Active(mgr, t)) /\ mgr'.timeout = mgr.timeout
        /\ Untouched(t) /\ left[t] = 0 => ~Active(mgr', t)
        /\ Untouched(t) /\ left[t] # 0 => Active(mgr', t)
        /\ Exact(mgr', clock)
        /\ Untouched(t) /\ left[t] # 0 => mgr'.timeout[t] = clock + interval[t]
    BY <1>6, ListenerReturnSound DEF PunctualInv, ListenerReturn
  <2>2. /\ round'.now = round.now /\ clock' = clock /\ round.phase = "listener"
        /\ UNCHANGED <<interval, repeat>>
    BY <1>1, <1>6 DEF ListenerReturn, RoundTyped
  <2>3. PunctualInv'
    BY <2>1, <2>2 DEF PunctualInv
  <2>4. mgr.invoked \in {None, t} /\ t # None
    BY <2>1, PoolAssumption DEF IInv, InvokedIsShort
  <2>5. DueOf' = [DueOf EXCEPT ![t] = IF Active(mgr', t) THEN mgr'.timeout[t] ELSE Off]
    BY <2>1, <2>4, DueOfOthers, PoolAssumption
  <2>6. CASE Untouched(t)
    <3>1. mgr.invoked = t /\ DueOf[t] = Off
      BY <2>1, <2>6 DEF Untouched, DueOf
    <3>2. left' = [left EXCEPT ![t] = IF left[t] # 0 THEN Decremented(left[t]) ELSE left[t]]
      BY <1>6, <2>6 DEF ListenerReturn
    <3> HIDE DEF t
    <3>3. CASE left[t] = 0
      <4>1. DueOf' = DueOf
        BY <2>1, <2>5, <2>6, <3>1, <3>3 DEF DueOf
      <4>2. left' = left
        BY <1>1, <2>1, <3>2, <3>3 DEF OwnerTyped
      <4> QED
        BY <2>1, <2>2, <2>3, <3>1, <3>3, <4>1, <4>2 DEF Promise!Next, Promise!Return
    <3>4. CASE left[t] # 0
      <4>1. DueOf' = [DueOf EXCEPT ![t] = clock + interval[t]]
        BY <2>1, <2>5, <2>6, <3>4
      <4>2. left' = [left EXCEPT ![t] = IF @ > 0 THEN @ - 1 ELSE @]
        BY <3>2, <3>4 DEF Decremented
      <4> QED
        BY <2>1, <2>2, <2>3, <3>1, <3>4, <4>1, <4>2 DEF Promise!Next, Promise!Return
    <3> QED
      BY <3>3, <3>4
  <2>7. CASE ~Untouched(t)
    <3>1. mgr.invoked = None
      BY <2>4, <2>7 DEF Untouched, IInv, InvokedIsShort, Active
    <3>2. UNCHANGED left
      BY <1>6, <2>7 DEF ListenerReturn
    <3>3. DueOf' = DueOf
      BY <2>1, <2>5, <2>7, <3>1 DEF DueOf
    <3> QED
      BY <2>1, <2>2, <2>3, <3>1, <3>2, <3>3 DEF Promise!vars
  <2> QED
    BY <2>6, <2>7
<1>7. ASSUME EndTimeouts
      PROVE  PunctualInv' /\ UNCHANGED Promise!vars
  BY <1>2, <1>7 DEF EndTimeouts, PunctualInv, Exact, Promise!vars, owner, NoRound, DueOf
<1> QED
  BY <1>3, <1>4, <1>5, <1>6, <1>7 DEF Serve, Promise!Next

\* Time never passes an instant at which TimerService has a timer fire.
LEMMA TickPromise ==
  ASSUME IInv, HostInv, PunctualInv, Punctual = TRUE, HostOutcomes = {TRUE}, Tick
  PROVE  PunctualInv' /\ Promise!Tick
<1>1. /\ Sound(mgr, clock) /\ clock \in Nat /\ HostTyped
      /\ round.phase = "idle" /\ mgr.invoked = None
      /\ sysTimer # Off => clock < sysTimer
      /\ clock' = clock + 1 /\ UNCHANGED <<owner, mgr, round>>
  BY TypeParts DEF IInv, InvokedIsShort, Tick
<1>2. ASSUME NEW t \in mgr.short PROVE clock < mgr.timeout[t]
  <2>1. sysTimer # Off /\ sysTimer <= Later(clock, mgr.timeout[t]) /\ mgr.timeout[t] \in Nat
    BY <1>1 DEF HostInv, Armed, Sound, Pools
  <2> QED
    BY <1>1, <2>1 DEF Later, HostTyped
<1>3. ASSUME NEW t \in mgr.long PROVE clock < mgr.timeout[t]
  <2>1. Pulse \in mgr.short /\ mgr.timeout[Pulse] = mgr.mark + PulseInterval
    BY <1>1 DEF Sound, PunctualInv, Exact
  <2>2. clock < mgr.timeout[Pulse]
    BY <1>2, <2>1
  <2>3. mgr.timeout[t] - mgr.mark >= Threshold /\ mgr.timeout[t] \in Nat /\ mgr.mark \in Nat
    BY <1>1 DEF Sound, Pools, All
  <2> QED
    BY <1>1, <2>1, <2>2, <2>3, PoolAssumption
<1>4. PunctualInv'
  <2>1. \A t \in mgr.short : mgr.timeout[t] >= clock + 1
    BY <1>1, <1>2 DEF Sound, Pools
  <2> QED
    BY <1>1, <2>1 DEF PunctualInv, Exact
<1>5. \A t \in Timers : DueOf[t] # Off => clock < DueOf[t]
  BY <1>2, <1>3 DEF DueOf, Active
<1> QED
  BY <1>1, <1>4, <1>5 DEF Promise!Tick, owner, DueOf, Off, Promise!Off

\* PromiseKept: on a host that is never late and never refuses, what the owners
\* see of the manager is TimerService.
THEOREM PromiseKeptAlways ==
  ASSUME Punctual = TRUE, HostOutcomes = {TRUE} PROVE Spec => PromiseKept
<1>1. Init => Promise!Init /\ PunctualInv
  BY PoolAssumption
     DEF Init, Promise!Init, PunctualInv, Exact, NoRound, DueOf, Active, Off, Promise!Off
<1>2. IInv /\ HostInv /\ PunctualInv /\ [Next]_vars => PunctualInv' /\ [Promise!Next]_(Promise!vars)
  <2> SUFFICES ASSUME IInv, HostInv, PunctualInv, [Next]_vars
               PROVE  PunctualInv' /\ [Promise!Next]_(Promise!vars)
    OBVIOUS
  <2>1. CASE UNCHANGED vars
    BY <2>1 DEF vars, owner, PunctualInv, Exact, Promise!vars, DueOf
  <2> QED
    BY <2>1, RequestPromise, RoundPromise, TickPromise DEF Next, Promise!Next
<1> QED
  BY <1>1, <1>2, HostInvariant, PTL DEF Spec, PromiseKept, Promise!Spec
=============================================================================
