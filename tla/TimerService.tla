---------------------------- MODULE TimerService ----------------------------
(***************************************************************************)
(* What a ProtoTimerMgr promises its user on a host that is never late:    *)
(* a timer activated with interval d fires when d has elapsed, neither     *)
(* earlier nor later, as often as its repeat count says, unless its owner  *)
(* stops, restarts or scales it.  There is no queue, no pulse timer and no *)
(* system timer here: module TimerMgr is shown to implement this one.      *)
(***************************************************************************)
EXTENDS Integers

CONSTANTS Timers,   \* the user's timers
          None,     \* no timer
          Intervals, Repeats, Factors   \* values of the owner's requests

VARIABLES clock,    \* the current instant
          interval, \* the interval each timer has been given
          repeat,   \* the repetitions each timer has been given
          due,      \* instant at which each timer fires, Off when it will not
          left,     \* repetitions left (-1: no end)
          calling   \* the timer being served and not touched since, or None

vars == <<clock, interval, repeat, due, left, calling>>

Off == -1

Init ==
  /\ clock = 0
  /\ interval \in [Timers -> Intervals]
  /\ repeat = [t \in Timers |-> 0]
  /\ due = [t \in Timers |-> Off]
  /\ left = [t \in Timers |-> 0]
  /\ calling = None

Configure(t) ==
  \/ /\ \E i \in Intervals : interval' = [interval EXCEPT ![t] = i]
     /\ UNCHANGED <<clock, repeat, due, left, calling>>
  \/ /\ \E n \in Repeats : repeat' = [repeat EXCEPT ![t] = n]
     /\ UNCHANGED <<clock, interval, due, left, calling>>
  \/ /\ \E n \in Repeats : left' = [left EXCEPT ![t] = n]
     /\ UNCHANGED <<clock, interval, repeat, due, calling>>

\* The owner (re)starts t: it fires when its whole interval has elapsed.
Start(t) ==
  /\ due' = [due EXCEPT ![t] = clock + interval[t]]
  /\ left' = [left EXCEPT ![t] = repeat[t]]
  /\ calling' = IF calling = t THEN None ELSE calling
  /\ UNCHANGED <<clock, interval, repeat>>

\* The interval of t, and the part of it that is left, scaled by a factor.
Scale(t) ==
  \E f \in Factors :
    /\ interval' = [interval EXCEPT ![t] = (f[1] * @) \div f[2]]
    /\ due' = IF due[t] > clock
              THEN [due EXCEPT ![t] = clock + ((f[1] * (@ - clock)) \div f[2])]
              ELSE due
    /\ UNCHANGED <<clock, repeat, left, calling>>

Stop(t) ==
  /\ due' = [due EXCEPT ![t] = Off]
  /\ calling' = IF calling = t THEN None ELSE calling
  /\ UNCHANGED <<clock, interval, repeat, left>>

\* The listener of t is called at the very instant t is due.
Fire(t) ==
  /\ due[t] = clock
  /\ due' = [due EXCEPT ![t] = Off]
  /\ calling = None /\ calling' = t
  /\ UNCHANGED <<clock, interval, repeat, left>>

\* The listener of t returned and had not touched t: t goes on if it has
\* repetitions left, one interval from this instant.
Return(t) ==
  /\ calling = t /\ calling' = None
  /\ IF left[t] = 0
     THEN UNCHANGED <<due, left>>
     ELSE /\ due' = [due EXCEPT ![t] = clock + interval[t]]
          /\ left' = [left EXCEPT ![t] = IF @ > 0 THEN @ - 1 ELSE @]
  /\ UNCHANGED <<clock, interval, repeat>>

\* Time never passes the due instant of a timer, nor while a listener runs.
Tick ==
  /\ calling = None
  /\ \A t \in Timers : due[t] # Off => clock < due[t]
  /\ clock' = clock + 1
  /\ UNCHANGED <<interval, repeat, due, left, calling>>

Next ==
  \/ \E t \in Timers :
       Configure(t) \/ Start(t) \/ Scale(t) \/ Stop(t) \/ Fire(t) \/ Return(t)
  \/ Tick

Spec == Init /\ [][Next]_vars
=============================================================================
