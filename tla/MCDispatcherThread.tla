-------------------------- MODULE MCDispatcherThread --------------------------
(***************************************************************************)
(* DispatcherThread with two sets of constants, of which each behaviour    *)
(* has one: two callers, of which one may be a Controller's thread, call a *)
(* dispatcher that is not stopped (the constants are those of this module, *)
(* given values in the .cfg), or the owner of another one stops and        *)
(* restarts it.  The dispatcher that is not chosen stays as it is at first.*)
(***************************************************************************)
EXTENDS DispatcherThread

CONSTANT owner  \* the only thread that calls the other dispatcher

VARIABLES
  itsThreaded, itsStarted, itsRun, itsStarts, itsSuspend, itsSignal, itsMaster,
  itsSuspendCount, itsSignalCount, itsBroken, itsSeen, itsStale, itsPromptSet,
  itsController, itsLockA, itsLockB, itsUseLockA, itsCue, itsPc, itsTodo,
  chosen

\* The owner starts, calls, prompts, stops and restarts the thread, callbacks
\* stop it, and SetBreak() may fail where its result is looked at.
Stopping ==
  INSTANCE DispatcherThread WITH
    Callers <- {owner}, Ctl <- None,
    Calls <- {"change", "prompt", "stop"},
    Callbacks <- {"change", "prompt", "stop"}, BreakFailures <- {"interruptOrFail"},
    CueOutcomes <- BOOLEAN, MaxStarts <- 2, CleanRestarts <- TRUE, CountMax <- 7,
    threaded <- itsThreaded, started <- itsStarted, run <- itsRun,
    starts <- itsStarts, suspend <- itsSuspend, signal <- itsSignal,
    master <- itsMaster, suspendCount <- itsSuspendCount,
    signalCount <- itsSignalCount, broken <- itsBroken, seen <- itsSeen,
    stale <- itsStale, promptSet <- itsPromptSet, controller <- itsController,
    lockA <- itsLockA, lockB <- itsLockB, useLockA <- itsUseLockA, cue <- itsCue,
    pc <- itsPc, todo <- itsTodo

ASSUME ThreadAssumptions == ThreadAssumption /\ Stopping!ThreadAssumption

-------------------------------------------------------------------------------
itsVars ==
  <<itsThreaded, itsStarted, itsRun, itsStarts, itsSuspend, itsSignal, itsMaster,
    itsSuspendCount, itsSignalCount, itsBroken, itsSeen, itsStale, itsPromptSet,
    itsController, itsLockA, itsLockB, itsUseLockA, itsCue, itsPc, itsTodo>>

threadVars == <<vars, itsVars, chosen>>

ThreadInit == Init /\ Stopping!Init /\ chosen \in {"calls", "stops"}

\* After the last stop nothing is left to do.
AfterStop == itsThreaded = FALSE /\ itsPc = "off" /\ UNCHANGED threadVars

ThreadNext ==
  /\ UNCHANGED chosen
  /\ \/ chosen = "calls" /\ Next /\ UNCHANGED itsVars
     \/ chosen = "stops" /\ (Stopping!Next \/ AfterStop) /\ UNCHANGED vars

\* Of what is fair nothing is enabled before the thread is started, so that the
\* dispatcher that is not chosen may rest.
ThreadSpec ==
  /\ ThreadInit /\ [][ThreadNext]_threadVars
  /\ Fairness /\ Stopping!Fairness

-------------------------------------------------------------------------------
\* The properties are those of DispatcherThread, and of its other instance these.

\* The calls to mirror, the work and the wait are those of a ThreadLock, through every
\* Stop() and StartThread().
LockKeptInStops == Stopping!LockKept
\* Stop() returns.
EveryStopReturns == Stopping!StopReturns
================================================================================
