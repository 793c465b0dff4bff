------------------------------- MODULE TimerMgr -------------------------------
(***************************************************************************)
(* ProtoTimerMgr (include/protoTimer.h, src/common/protoTimer.cpp).        *)
(*                                                                         *)
(* Active timers live in two pools.  A timer whose interval is below       *)
(* Threshold is "short" (is_precise): it fires from the pool the one-shot  *)
(* system timer serves.  The others are "long": they are looked at only    *)
(* when the pulse timer, itself a short repeating timer, fires, and move   *)
(* to the short pool when less than Threshold is left.  Time is a count of *)
(* clock units; the order among timers of one timeout is left open here    *)
(* (module TimerQueues has the queues).                                    *)
(***************************************************************************)
EXTENDS Integers

CONSTANTS Timers,         \* the user's ProtoTimers
          Pulse,          \* pulse_timer
          None,           \* NULL
          PulseInterval,  \* 1.0 s
          Threshold,      \* PRECISION_TIME_THRESHOLD
          LateTolerance,  \* 0.100 s
          Intervals, Repeats, Factors,   \* values of the owner's requests
          HostOutcomes,   \* what UpdateSystemTimer() may return
          Punctual,       \* does the host serve the system timer in time?
          MaxTime,        \* bound on the clock
          MaxRest         \* bound on what Scale() makes of a remaining time

ASSUME PoolAssumption ==
  /\ Pulse \notin Timers /\ None \notin Timers /\ None # Pulse
  /\ PulseInterval \in Nat \ {0}
  /\ Threshold \in Nat /\ PulseInterval < Threshold
  /\ LateTolerance \in Nat

ASSUME RequestAssumption ==
  /\ Intervals \subseteq Nat
  /\ Repeats \subseteq Nat \cup {-1}
  /\ Factors \subseteq (Nat \ {0}) \X (Nat \ {0})
  /\ HostOutcomes \subseteq BOOLEAN
  /\ Punctual \in BOOLEAN /\ MaxTime \in Nat /\ MaxRest \in Nat

VARIABLES clock,             \* the current instant
          interval, repeat,  \* ProtoTimer::interval, ::repeat
          left,              \* ProtoTimer::repeat_count
          mgr,               \* the pools, see TypeOK
          elapses,           \* history: when the requested interval elapses, 0 if it is long
          updatePending,     \* update_pending
          timeoutScheduled, scheduledTimeout,
          sysTimer,          \* instant the host's timer is set to, or Off
          round              \* the OnSystemTimeout() call in progress

owner == <<interval, repeat, left, elapses>>
host == <<timeoutScheduled, scheduledTimeout, sysTimer>>
vars == <<clock, owner, mgr, updatePending, host, round>>

Off == -1
All == Timers \cup {Pulse}
NoRound == [phase |-> "idle", now |-> 0, early |-> FALSE, timer |-> None]
-------------------------------------------------------------------------------
\* The pools: operators from a value of mgr to the next.

Active(m, t) == t \in m.short \cup m.long

\* The timers that may be at the head of the short pool.
Heads(m) == {t \in m.short : \A u \in m.short : m.timeout[t] <= m.timeout[u]}

Later(a, b) == IF a < b THEN b ELSE a
Remaining(m, t) == Later(0, m.timeout[t] - clock)

InsertShortTimer(m, t, at) ==
  [m EXCEPT !.short = @ \cup {t}, !.timeout[t] = at]

InsertLongTimer(m, t, at) ==
  [m EXCEPT !.long = @ \cup {t}, !.timeout[t] = at]

RemoveShortTimer(m, t) == [m EXCEPT !.short = @ \ {t}]

StartPulse(m) ==
  IF Active(m, Pulse) THEN m
  ELSE [InsertShortTimer(m, Pulse, clock + PulseInterval) EXCEPT !.mark = clock]

\* Mutant: the part of the pulse interval that has elapsed is forgotten.
LastPulse(m) == m.mark
GetPulseTime(m) == m.mark + (PulseInterval - Remaining(m, Pulse))

Lengthy(m, t, d) ==
  LET p == StartPulse(m) IN InsertLongTimer(p, t, GetPulseTime(p) + d)

Activated(m, t, d) ==
  IF d < Threshold THEN InsertShortTimer(m, t, clock + d) ELSE Lengthy(m, t, d)

\* A short timer repeats from its last timeout, or from the current instant
\* when that is too far behind.
NextTimeout(m, t, d, now) ==
  LET next == m.timeout[t] + d
  IN  IF next - now < -LateTolerance THEN clock ELSE next

Reactivated(m, t, d, now) ==
  IF d < Threshold THEN InsertShortTimer(m, t, NextTimeout(m, t, d, now))
  ELSE Lengthy(m, t, d)

\* DeactivateTimer() of a short timer, invoked or not.  Mutant: invoked_timer
\* is left alone.
DeactivatedSilently(m, t) == RemoveShortTimer(m, t)
DeactivatedShort(m, t) ==
  [RemoveShortTimer(m, t) EXCEPT !.invoked = IF @ = t THEN None ELSE @]

\* The pulse timer stops with the last long timer.  Mutant: it does not.
LeavePulse(m) == m
StopPulse(m) == IF m.long = {} THEN DeactivatedShort(m, Pulse) ELSE m

Deactivated(m, t) ==
  IF t \in m.short THEN DeactivatedShort(m, t)
  ELSE StopPulse([m EXCEPT !.long = @ \ {t}])

\* The long timers with less than Threshold left at a pulse.  Mutant: the pulse
\* mark is advanced too late.
NearLastPulse(m, mark) == {t \in m.long : m.timeout[t] - m.mark < Threshold}
Near(m, mark) == {t \in m.long : m.timeout[t] - mark < Threshold}

\* OnPulseTimeout(): they are short timers from here on; an empty long pool
\* stops the pulse.
OnPulseTimeout(m) ==
  LET mark == m.mark + PulseInterval
      near == Near(m, mark)
  IN  StopPulse([m EXCEPT
        !.mark = mark,
        !.long = @ \ near,
        !.short = @ \cup near,
        !.timeout = [t \in All |->
           IF t \in near THEN clock + Later(0, @[t] - mark) ELSE @[t]]])
-------------------------------------------------------------------------------
\* Update(): the host's timer follows the head of the short pool of mgr'.

\* Mutant: a failure of the host goes unnoticed.
InstalledAnyway(head, ok) ==
  /\ timeoutScheduled' = TRUE
  /\ scheduledTimeout' = head
  /\ sysTimer' = IF ok THEN Later(clock, head) ELSE sysTimer
Installed(head, ok) ==
  /\ timeoutScheduled' = ok
  /\ scheduledTimeout' = IF ok THEN head ELSE scheduledTimeout
  /\ sysTimer' = IF ok THEN Later(clock, head) ELSE sysTimer

Update ==
  \/ /\ mgr'.short = {}
     /\ \E ok \in HostOutcomes :
          sysTimer' = IF timeoutScheduled /\ ok THEN Off ELSE sysTimer
     /\ timeoutScheduled' = FALSE
     /\ UNCHANGED scheduledTimeout
  \/ \E h \in Heads(mgr') : LET head == mgr'.timeout[h] IN
       IF timeoutScheduled /\ scheduledTimeout = head
       THEN UNCHANGED host
       ELSE \E ok \in HostOutcomes : Installed(head, ok)

UpdateUnlessPending == IF updatePending THEN UNCHANGED host ELSE Update
-------------------------------------------------------------------------------
TypeOK ==
  /\ clock \in Nat
  /\ interval \in [Timers -> Nat]
  /\ repeat \in [Timers -> Nat \cup {-1}]
  /\ left \in [Timers -> Nat \cup {-1}]
  /\ elapses \in [Timers -> Nat]
  /\ mgr \in [short : SUBSET All,      \* timer_list and timer_table
              long : SUBSET Timers,    \* long_timer_table
              timeout : [All -> Nat],  \* ProtoTimer::timeout
              mark : Nat,              \* pulse_mark
              invoked : Timers \cup {None}]   \* invoked_timer
  /\ updatePending \in BOOLEAN
  /\ timeoutScheduled \in BOOLEAN
  /\ scheduledTimeout \in Nat
  /\ sysTimer \in Nat \cup {Off}
  /\ round \in [phase : {"idle", "scan", "listener"}, now : Nat,
                early : BOOLEAN, timer : Timers \cup {None}]

Init ==
  /\ clock = 0
  /\ interval \in [Timers -> Intervals]
  /\ repeat = [t \in Timers |-> 0]
  /\ left = [t \in Timers |-> 0]
  /\ elapses = [t \in Timers |-> 0]
  /\ mgr = [short |-> {}, long |-> {}, timeout |-> [t \in All |-> 0],
            mark |-> 0, invoked |-> None]
  /\ updatePending = FALSE
  /\ timeoutScheduled = FALSE /\ scheduledTimeout = 0 /\ sysTimer = Off
  /\ round = NoRound

\* The owner's calls come between rounds or from the listener of a timer.
InUserCode == round.phase \in {"idle", "listener"}

\* (What a pulse is late the long timers are off, so nothing is claimed of those.)
Elapsing(from, d) == IF d < Threshold THEN from + d ELSE 0

SetInterval(t, i) ==
  /\ InUserCode
  /\ interval' = [interval EXCEPT ![t] = i]
  /\ UNCHANGED <<clock, repeat, left, elapses, mgr, updatePending, host, round>>

SetRepeat(t, n) ==
  /\ InUserCode
  /\ repeat' = [repeat EXCEPT ![t] = n]
  /\ UNCHANGED <<clock, interval, left, elapses, mgr, updatePending, host, round>>

\* SetRepeatCount(), and with the right n ResetRepeat(), DecrementRepeatCount().
SetRepeatCount(t, n) ==
  /\ InUserCode
  /\ left' = [left EXCEPT ![t] = n]
  /\ UNCHANGED <<clock, interval, repeat, elapses, mgr, updatePending, host, round>>

ActivateTimer(t) ==
  /\ InUserCode /\ ~Active(mgr, t)
  /\ mgr' = Activated(mgr, t, interval[t])
  /\ left' = [left EXCEPT ![t] = repeat[t]]
  /\ elapses' = [elapses EXCEPT ![t] = Elapsing(clock, interval[t])]
  /\ UpdateUnlessPending
  /\ UNCHANGED <<clock, interval, repeat, updatePending, round>>

DeactivateTimer(t) ==
  /\ InUserCode /\ Active(mgr, t)
  /\ mgr' = Deactivated(mgr, t)
  /\ UpdateUnlessPending
  /\ UNCHANGED <<clock, owner, updatePending, round>>

\* Reschedule(), and Reset() of an active timer.
Reschedule(t) ==
  /\ InUserCode /\ Active(mgr, t)
  /\ mgr' = Activated(Deactivated(mgr, t), t, interval[t])
  /\ left' = [left EXCEPT ![t] = repeat[t]]
  /\ elapses' = [elapses EXCEPT ![t] = Elapsing(clock, interval[t])]
  /\ UpdateUnlessPending
  /\ UNCHANGED <<clock, interval, repeat, updatePending, round>>

\* Only factors that scale the interval, and what is left of it, to a value of
\* the model are tried.
Scale(t, f) ==
  LET by(d) == (f[1] * d) \div f[2]
      rest == Remaining(mgr, t)
  IN  /\ InUserCode
      /\ by(interval[t]) \in Intervals /\ (f[1] * interval[t]) % f[2] = 0
      /\ interval' = [interval EXCEPT ![t] = by(@)]
      /\ IF Active(mgr, t) /\ rest > 0
         THEN /\ (f[1] * rest) % f[2] = 0 /\ by(rest) \in 0..MaxRest
              /\ mgr' = Activated(Deactivated(mgr, t), t, by(rest))
              /\ elapses' = [elapses EXCEPT ![t] = Elapsing(clock, by(rest))]
              /\ UpdateUnlessPending
         ELSE UNCHANGED <<mgr, elapses, host>>
      /\ UNCHANGED <<clock, repeat, left, updatePending, round>>
-------------------------------------------------------------------------------
\* Mutant: timeout_scheduled keeps its value when the host's timer has expired.
BeginStillScheduled(early) ==
  /\ round.phase = "idle"
  /\ round' = [phase |-> "scan", now |-> clock, early |-> early, timer |-> None]
  /\ updatePending' = TRUE
  /\ sysTimer' = IF early THEN sysTimer ELSE Off
  /\ UNCHANGED <<clock, owner, mgr, timeoutScheduled, scheduledTimeout>>

\* OnSystemTimeout(), called by the host when its timer expires or when it has
\* woken up for another reason, and DoSystemTimeout() (early), which leaves the
\* host's timer alone.
BeginTimeouts(early) ==
  /\ round.phase = "idle"
  /\ round' = [phase |-> "scan", now |-> clock, early |-> early, timer |-> None]
  /\ updatePending' = TRUE
  /\ timeoutScheduled' = FALSE
  /\ sysTimer' = IF early THEN sysTimer ELSE Off
  /\ UNCHANGED <<clock, owner, mgr, scheduledTimeout>>

\* Is t at the head of the short pool and its time come?  Mutant: the tolerance
\* for late timers lets early ones pass.
ExpiredSoon(t) == t \in Heads(mgr) /\ mgr.timeout[t] <= round.now + LateTolerance
Expired(t) == t \in Heads(mgr) /\ mgr.timeout[t] <= round.now

CallListener(t) ==
  /\ round.phase = "scan" /\ Expired(t)
  /\ mgr' = [mgr EXCEPT !.invoked = t]
  /\ round' = [round EXCEPT !.phase = "listener", !.timer = t]
  /\ UNCHANGED <<clock, owner, updatePending, host>>

\* Mutant: the count of an endless timer is decremented too.
DecrementedAlways(n) == n - 1
Decremented(n) == IF n > 0 THEN n - 1 ELSE n

\* Has the listener left its timer t alone?  Mutant: nobody asks.
Whatever(t) == TRUE
Untouched(t) == mgr.invoked = t /\ Active(mgr, t)

\* The timer of a listener, done with or about to be re-activated.
Served(m, t) == [RemoveShortTimer(m, t) EXCEPT !.invoked = None]

\* The listener returned; its timer goes on if it has not been touched.
ListenerReturn ==
  LET t == round.timer
      rest == Served(mgr, t)
      again == left[t] # 0
  IN  /\ round.phase = "listener"
      /\ IF Untouched(t)
         THEN /\ mgr' = IF again THEN Reactivated(rest, t, interval[t], round.now) ELSE rest
              /\ left' = [left EXCEPT ![t] = IF again THEN Decremented(@) ELSE @]
              /\ elapses' = [elapses EXCEPT ![t] = IF again THEN Elapsing(@, interval[t]) ELSE @]
         ELSE /\ mgr' = [mgr EXCEPT !.invoked = None]
              /\ UNCHANGED <<left, elapses>>
      /\ round' = [round EXCEPT !.phase = "scan", !.timer = None]
      /\ UNCHANGED <<clock, interval, repeat, updatePending, host>>

\* The pulse timer's own listener runs no user code; it repeats for ever.
PulseTimeout ==
  LET m == OnPulseTimeout(mgr)
  IN  /\ round.phase = "scan" /\ Expired(Pulse)
      /\ mgr' = IF Active(m, Pulse)
                THEN Reactivated(RemoveShortTimer(m, Pulse), Pulse, PulseInterval, round.now)
                ELSE m
      /\ UNCHANGED <<clock, owner, updatePending, host, round>>

\* The loop is left at the first timer that is not due.  Mutant: it is not.
NoneLeft == mgr.short = {}
NoneExpired == ~\E t \in All : Expired(t)

\* Mutant: no Update() at the end of a round.
EndWithoutUpdate ==
  /\ round.phase = "scan" /\ NoneExpired
  /\ round' = NoRound
  /\ updatePending' = FALSE
  /\ UNCHANGED <<clock, owner, mgr, host>>

EndTimeouts ==
  /\ round.phase = "scan" /\ NoneExpired
  /\ round' = NoRound
  /\ updatePending' = FALSE
  /\ IF round.early THEN UNCHANGED <<mgr, host>> ELSE UNCHANGED mgr /\ Update
  /\ UNCHANGED <<clock, owner>>

\* A punctual host (a simulator) calls back before its clock goes on, and no
\* time passes during a call.
Tick ==
  /\ clock < MaxTime
  /\ Punctual => round.phase = "idle" /\ (sysTimer # Off => clock < sysTimer)
  /\ clock' = clock + 1
  /\ UNCHANGED <<owner, mgr, updatePending, host, round>>

Request(t) ==
  \/ \E i \in Intervals : SetInterval(t, i)
  \/ \E n \in Repeats : SetRepeat(t, n)
  \/ \E n \in Repeats : SetRepeatCount(t, n)
  \/ ActivateTimer(t)
  \/ DeactivateTimer(t)
  \/ Reschedule(t)
  \/ \E f \in Factors : Scale(t, f)

Serve ==
  \/ \E t \in Timers : CallListener(t)
  \/ PulseTimeout
  \/ ListenerReturn
  \/ EndTimeouts

Next ==
  \/ \E t \in Timers : Request(t)
  \/ \E early \in BOOLEAN : BeginTimeouts(early)
  \/ Serve
  \/ Tick

Spec == Init /\ [][Next]_vars
-------------------------------------------------------------------------------
\* Properties.

\* The pulse timer runs exactly while there are long timers: OnPulseTimeout()
\* and DeactivateTimer() stop it with the last one, whoever removes that one,
\* and the pulse handler itself may be the one.
PulseRuns == Pulse \in mgr.short <=> mgr.long # {}

\* No long timer is overdue for the short pool: OnPulseTimeout() left none
\* behind, and what ActivateTimer() and ReactivateTimer() add between two
\* pulses, measured in pulse time, is not yet within the threshold.
LongIsFar == \A t \in mgr.long : mgr.timeout[t] - mgr.mark >= Threshold

\* The pools do not overlap, and a timer that OnSystemTimeout() still holds in
\* invoked_timer after its listener is short: RemoveShortTimer() is the right
\* removal for it whatever the listener did.
InvokedIsShort ==
  /\ mgr.short \cap mgr.long = {}
  /\ mgr.invoked # None =>
       /\ round.phase = "listener" /\ round.timer = mgr.invoked
       /\ mgr.invoked \in mgr.short

\* Between rounds the host's timer is set, and no later than the earliest
\* timeout: no path through Update(), and no round of DoSystemTimeout(), which
\* skips it, leaves an active timer nobody wakes up for.
NoLostTimeout ==
  round.phase = "idle" =>
    \A t \in mgr.short : sysTimer # Off /\ sysTimer <= Later(clock, mgr.timeout[t])

\* When requests to the host may fail, timeout_scheduled is never a false
\* belief: between rounds it says that the host's timer is set and that
\* scheduled_timeout is the head of the short pool.
ScheduledIsSet ==
  round.phase = "idle" /\ timeoutScheduled =>
    /\ sysTimer # Off /\ sysTimer <= Later(clock, scheduledTimeout)
    /\ \E t \in Heads(mgr) : mgr.timeout[t] = scheduledTimeout

\* Only its owner activates an inactive timer: the return from a listener that
\* stopped its timer (or from any other's) does not bring it back.
NotRevived ==
  [][\A t \in Timers : ~Active(mgr, t) /\ Active(mgr', t) =>
       InUserCode /\ round'.phase = round.phase]_vars

Fires(t) == round.phase = "scan" /\ round'.phase = "listener" /\ round'.timer = t

\* SetInterval(): "the interval (in seconds) after which the timer will fire":
\* the listener is not called before the interval has elapsed, if the timer has been
\* short since it was activated (with pulses that are late a long one may be early).
NeverEarly == [][\A t \in Timers : Fires(t) => clock >= elapses[t]]_vars

\* On a punctual host every timer fires at the very instant its interval has
\* elapsed, as TimerService says, through whichever pools it went.
DueOf ==
  [t \in Timers |-> IF Active(mgr, t) /\ mgr.invoked # t THEN mgr.timeout[t] ELSE Off]

Promise == INSTANCE TimerService WITH due <- DueOf, calling <- mgr.invoked
PromiseKept == Promise!Spec

\* The host calls OnSystemTimeout() when its timer has expired.
Expire == sysTimer # Off /\ sysTimer <= clock /\ BeginTimeouts(FALSE)

\* The single thread of the program does not stop in the middle of a round
\* (listeners return), and a host, however late, gets to its expired timer.
FairSpec == Spec /\ WF_vars(Serve) /\ WF_vars(Expire)

Overdue(t) == t \in mgr.short /\ mgr.timeout[t] <= clock

\* A timer whose timeout has come is served (or stopped or put off by its
\* owner), however the rounds, the re-activations and the owner's calls fall.
EveryTimeoutServed == \A t \in Timers : Overdue(t) ~> ~Overdue(t)

\* OnSystemTimeout() returns: re-activations of intervals that are not 0 cannot
\* keep its loop going.
RoundEnds == round.phase # "idle" ~> round.phase = "idle"
===============================================================================
