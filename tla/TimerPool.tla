------------------------------ MODULE TimerPool ------------------------------
(***************************************************************************)
(* What the queues of a ProtoTimerMgr promise it: GetShortHead() is one of *)
(* the short timers whose timeout is earliest, and NULL only when there is *)
(* none.                                                                   *)
(***************************************************************************)
EXTENDS Integers

CONSTANTS Timers, None, Timeouts

VARIABLES pool,     \* the short timers
          timeout,  \* the timeout of every timer
          head      \* the timer served next

vars == <<pool, timeout, head>>

Earliest(t) == t \in pool' /\ \A u \in pool' : timeout'[t] <= timeout'[u]

NewHead == IF pool' = {} THEN head' = None ELSE Earliest(head')

Init == pool = {} /\ head = None /\ timeout \in [Timers -> Timeouts]

Insert(t, at) ==
  /\ t \notin pool
  /\ pool' = pool \cup {t}
  /\ timeout' = [timeout EXCEPT ![t] = at]
  /\ NewHead

Remove(t) ==
  /\ t \in pool
  /\ pool' = pool \ {t}
  /\ UNCHANGED timeout
  /\ NewHead

\* The timeout of a timer that is not in the pool is nobody's business.
Elsewhere(t, at) ==
  /\ t \notin pool
  /\ timeout' = [timeout EXCEPT ![t] = at]
  /\ UNCHANGED <<pool, head>>

Next ==
  \E t \in Timers :
    \/ \E at \in Timeouts : Insert(t, at) \/ Elsewhere(t, at)
    \/ Remove(t)

Spec == Init /\ [][Next]_vars
==============================================================================
