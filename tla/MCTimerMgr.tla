----------------------------- MODULE MCTimerMgr -----------------------------
(***************************************************************************)
(* Values of the constants of TimerMgr for TLC.  One clock unit is half a  *)
(* pulse interval; the threshold is two pulses, so that a long timer waits *)
(* for several pulses and a short one for none.                            *)
(***************************************************************************)
EXTENDS TimerMgr, TLC

NoFactors == {}
DoubleOrHalve == {<<2, 1>>, <<1, 2>>}
OneShotOrOnce == {0, 1}
OneShotOrForever == {0, -1}
Forever == {-1}

TimersSymmetry == Permutations(Timers)

\* What the program still reads: an activation overwrites what an inactive timer
\* keeps of its last one, and StartPulse overwrites the mark.
Live ==
  <<clock, interval, repeat, updatePending, timeoutScheduled, sysTimer, round,
    mgr.short, mgr.long, mgr.invoked,
    [t \in {u \in Timers : Active(mgr, u)} |-> <<left[t], mgr.timeout[t], elapses[t]>>],
    IF Active(mgr, Pulse) THEN <<mgr.mark, mgr.timeout[Pulse]>> ELSE <<>>,
    IF timeoutScheduled THEN scheduledTimeout ELSE Off>>
=============================================================================
