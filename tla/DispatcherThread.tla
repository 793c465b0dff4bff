--------------------------- MODULE DispatcherThread ---------------------------
(***************************************************************************)
(* A ProtoDispatcher that runs in a thread of its own (StartThread()), and *)
(* the other threads that call it.  suspend_mutex is held by the           *)
(* dispatcher's thread while it is awake and by a caller from its          *)
(* SuspendThread() to its ResumeThread(); signal_mutex is held by the      *)
(* dispatcher's thread while it is in Wait() and by a caller from its      *)
(* SignalThread(), which makes the thread leave Wait(), to its             *)
(* UnsignalThread().  Both calls may be nested, hence the two counts.      *)
(*                                                                         *)
(* What a caller has still to execute of the method it called is a         *)
(* sequence of steps, each of which is atomic: between two steps any other *)
(* thread may run.                                                         *)
(***************************************************************************)
EXTENDS Integers, Sequences, FiniteSets

CONSTANTS Callers,       \* the threads that call the dispatcher
          Ctl,           \* the one that a Controller may dispatch in, or None
          Worker,        \* the dispatcher's own thread
          None,
          Calls,         \* the calls made by the callers
          Callbacks,     \* the calls made while events are dispatched
          BreakFailures, \* the steps at which SetBreak() may fail
          CueOutcomes,   \* what SignalDispatchReady() may return
          MaxStarts,     \* how often the thread is started
          CleanRestarts, \* the thread is not restarted with a thread_master left
          CountMax       \* the largest value of the (unsigned) counts

ThreadAssumption ==
  /\ Worker \notin Callers /\ None \notin Callers \cup {Worker}
  /\ Ctl \in Callers \cup {None}
  /\ Calls \subseteq {"change", "guarded", "streams", "signalled", "prompt", "stop"}
  /\ Callbacks \subseteq {"change", "prompt", "stop"}
  /\ BreakFailures \subseteq {"interrupt", "interruptOrFail"}
  /\ CueOutcomes \subseteq BOOLEAN
  /\ MaxStarts \in Nat
  /\ CleanRestarts \in BOOLEAN
  /\ CountMax \in Nat \ {0}

VARIABLES threaded,      \* thread_id is not NULL
          started,       \* thread_started
          run,
          starts,        \* how often the thread has been started
          suspend,       \* the owner of suspend_mutex
          signal,        \* the owner of signal_mutex
          master,        \* thread_master
          suspendCount,  \* suspend_count
          signalCount,   \* signal_count
          broken,        \* break_event is set
          seen,          \* break_event was ready when Wait() returned (input_set)
          stale,         \* the timers have changed since timer_delay was latched
          promptSet,     \* prompt_set
          controller,    \* controller is not NULL
          lockA, lockB,  \* the mutexes of the Controller are locked
          useLockA,      \* use_lock_a
          cue,           \* SignalDispatchReady() has cued the controller's thread
          pc,            \* where the dispatcher's thread is
          todo           \* the steps left to every caller

locks  == <<suspend, signal, master, suspendCount, signalCount>>
thread == <<threaded, started, run, starts>>
turns  == <<controller, lockA, lockB, useLockA, cue>>
work   == <<stale, promptSet>>
wait   == <<broken, seen>>
vars   == <<locks, thread, turns, work, wait, pc, todo>>

-------------------------------------------------------------------------------
\* What every method does, as steps.

Signal   == <<"suspend", "interrupt">>
Unsignal == <<"unsignal", "resume">>

\* ProtoDispatcher::ActivateTimer(), with the UpdateSystemTimer() it ends in.
\* Mutant: the thread is not woken.
ChangeTimersSilently == <<"suspend", "change", "resume">>
ChangeTimers == <<"suspend", "change">> \o Signal \o Unsignal \o <<"resume">>

\* UpdateChannelNotification() and its likes, InstallGenericInput() etc.
ChangeStreams == Signal \o <<"streams">> \o Unsignal

\* Mutant: the thread is not woken.
PromptSilently == <<"suspend", "prompt", "resume">>
PromptThread == <<"suspend", "prompt", "suspend", "interruptOrFail">> \o Unsignal \o <<"resume">>

Stop == <<"unhook">> \o Signal \o <<"halt">> \o Unsignal \o <<"join">>

OnDispatch == <<"suspend", "dispatch", "hand", "resume">>

Body(call) ==
  CASE call = "change"    -> ChangeTimers
    [] call = "guarded"   -> <<"suspend">> \o ChangeTimers \o <<"resume">>
    [] call = "streams"   -> ChangeStreams
    [] call = "signalled" -> Signal \o ChangeTimers \o Unsignal
    [] call = "prompt"    -> PromptThread
    [] call = "stop"      -> Stop

Idle(t) == todo[t] = <<>>
At(t, step) == todo[t] # <<>> /\ Head(todo[t]) = step

\* The step is done; other steps take its place.
Replace(t, steps) == todo' = [todo EXCEPT ![t] = steps \o Tail(@)]
Done(t) == Replace(t, <<>>)

-------------------------------------------------------------------------------
Init ==
  /\ threaded = FALSE /\ started = FALSE /\ run = FALSE /\ starts = 0
  /\ suspend = None /\ signal = None /\ master = None
  /\ suspendCount = 0 /\ signalCount = 0
  /\ broken = FALSE /\ seen = FALSE
  /\ stale = FALSE /\ promptSet = FALSE
  /\ controller = FALSE /\ lockA = (Ctl # None) /\ lockB = FALSE
  /\ useLockA = TRUE /\ cue = FALSE
  /\ pc = "off"
  /\ todo = [t \in Callers |-> <<>>]

\* StartThread(): the locks are initialised, but not the counts and the master.
\* The owner starts the thread while no call is in progress, with a Controller
\* or without (a Controller is used once), whose thread is then no caller.  A
\* Stop() that overtakes another's may leave a thread_master behind, whose next
\* SuspendThread() would then lock nothing: CleanRestarts leaves that out.
StartThread ==
  /\ ~threaded /\ pc = "off" /\ \A t \in Callers : Idle(t)
  /\ starts < MaxStarts /\ (Ctl = None \/ starts = 0)
  /\ CleanRestarts => master = None
  /\ starts' = starts + 1
  /\ threaded' = TRUE
  /\ controller' \in {FALSE, Ctl # None}
  /\ suspend' = None /\ signal' = None
  /\ pc' = "begin"
  /\ UNCHANGED <<started, run, master, suspendCount, signalCount, wait, work,
                 lockA, lockB, useLockA, cue, todo>>

\* Before the thread is started, and after it has been stopped, the dispatcher
\* is its owner's, who calls it under no lock.
Call(t) ==
  /\ Idle(t) /\ threaded /\ (t = Ctl => ~controller)
  /\ \E call \in Calls : todo' = [todo EXCEPT ![t] = Body(call)]
  /\ UNCHANGED <<locks, thread, turns, work, wait, pc>>

-------------------------------------------------------------------------------
\* SuspendThread(), ResumeThread(), SignalThread(), UnsignalThread().

\* The unsynchronised reads of thread_id and thread_master.
Suspend(t) ==
  /\ At(t, "suspend")
  /\ IF threaded /\ master # t
     THEN Replace(t, <<"awaitStart">>) /\ UNCHANGED suspendCount
     ELSE /\ Done(t)
          /\ suspendCount' = IF threaded THEN suspendCount + 1 ELSE suspendCount
  /\ UNCHANGED <<suspend, signal, master, signalCount, thread, turns, work, wait, pc>>

AwaitStart(t) ==
  /\ At(t, "awaitStart") /\ started
  /\ Replace(t, <<"lockSuspend">>)
  /\ UNCHANGED <<locks, thread, turns, work, wait, pc>>

LockSuspend(t) ==
  /\ At(t, "lockSuspend") /\ suspend = None
  /\ suspend' = t /\ master' = t /\ suspendCount' = 1
  /\ Done(t)
  /\ UNCHANGED <<signal, signalCount, thread, turns, work, wait, pc>>

\* Mutant: the first ResumeThread() releases the mutex.
NeverNested == FALSE
Nested == suspendCount > 1

\* Mutant: the count only grows.
ResumeUncounted == UNCHANGED <<suspend, master, suspendCount>>
ResumeNested == suspendCount' = suspendCount - 1 /\ UNCHANGED <<suspend, master>>

Resume(t) ==
  /\ At(t, "resume")
  /\ Done(t)
  /\ IF threaded /\ master = t
     THEN IF Nested
          THEN ResumeNested
          ELSE suspendCount' = 0 /\ master' = None /\ suspend' = None
     ELSE UNCHANGED <<suspend, master, suspendCount>>
  /\ UNCHANGED <<signal, signalCount, thread, turns, work, wait, pc>>

\* SignalThread() after its SuspendThread() breaks the thread's Wait().
\* Mutant: it does not.
LeaveWaiting(t) == Replace(t, <<"lockSignal">>) /\ UNCHANGED <<signalCount, broken>>
BreakWait(t) ==
  /\ broken' = TRUE
  /\ Replace(t, <<"lockSignal">>)
  /\ UNCHANGED signalCount

\* When SetBreak() fails, the thread is resumed again.  PromptThread() then
\* skips its UnsignalThread(); UpdateSystemTimer() does not.
\* Mutant: nor does PromptThread().
FailRegardless(t) ==
  /\ Replace(t, <<"resume">>)
  /\ UNCHANGED <<signalCount, broken>>
BreakFailed(t) ==
  /\ todo' = [todo EXCEPT ![t] =
       <<"resume">> \o (IF At(t, "interrupt") THEN Tail(@) ELSE SubSeq(@, 4, Len(@)))]
  /\ UNCHANGED <<signalCount, broken>>

Interrupt(t) ==
  /\ At(t, "interrupt") \/ At(t, "interruptOrFail")
  /\ \/ /\ ~threaded
        /\ Done(t)
        /\ UNCHANGED <<signalCount, broken>>
     \/ /\ threaded /\ signalCount > 0
        /\ signalCount' = (signalCount + 1) % (CountMax + 1)
        /\ Done(t)
        /\ UNCHANGED broken
     \/ threaded /\ signalCount = 0 /\ BreakWait(t)
     \/ threaded /\ signalCount = 0 /\ Head(todo[t]) \in BreakFailures /\ BreakFailed(t)
  /\ UNCHANGED <<suspend, signal, master, suspendCount, seen, thread, turns, work, pc>>

\* Mutant: nobody waits for the thread to leave Wait().
LockSignalAtOnce(t) ==
  /\ At(t, "lockSignal")
  /\ signal' = t /\ signalCount' = 1
  /\ Done(t)
  /\ UNCHANGED <<suspend, master, suspendCount, thread, turns, work, wait, pc>>
LockSignal(t) ==
  /\ At(t, "lockSignal") /\ signal = None
  /\ signal' = t /\ signalCount' = 1
  /\ Done(t)
  /\ UNCHANGED <<suspend, master, suspendCount, thread, turns, work, wait, pc>>

\* UnsignalThread() before its ResumeThread().
\* Mutant: the mutex is released and the count is left.
UnlockSignal(t) ==
  /\ At(t, "unsignal")
  /\ signal' = IF threaded /\ master = t THEN None ELSE signal
  /\ Done(t)
  /\ UNCHANGED <<suspend, master, suspendCount, signalCount, thread, turns, work, wait, pc>>
ReleaseSignal(t) ==
  /\ At(t, "unsignal")
  /\ IF threaded /\ master = t
     THEN /\ signalCount' = (signalCount - 1) % (CountMax + 1)
          /\ signal' = IF signalCount' = 0 THEN None ELSE signal
     ELSE UNCHANGED <<signalCount, signal>>
  /\ Done(t)
  /\ UNCHANGED <<suspend, master, suspendCount, thread, turns, work, wait, pc>>

-------------------------------------------------------------------------------
\* What the callers do in between.

ChangeTimer(t) ==
  /\ At(t, "change")
  /\ stale' = TRUE
  /\ Done(t)
  /\ UNCHANGED <<locks, thread, turns, promptSet, wait, pc>>

ChangeStream(t) ==
  /\ At(t, "streams")
  /\ Done(t)
  /\ UNCHANGED <<locks, thread, turns, work, wait, pc>>

SetPrompt(t) ==
  /\ At(t, "prompt")
  /\ promptSet' = TRUE
  /\ Done(t)
  /\ UNCHANGED <<locks, thread, turns, stale, wait, pc>>

\* Stop(): the controller is told first, under no lock.
OnThreadStop ==
  IF controller
  THEN /\ lockA' = (lockA /\ ~useLockA)
       /\ lockB' = (lockB /\ useLockA)
       /\ controller' = FALSE
  ELSE UNCHANGED <<lockA, lockB, controller>>

Unhook(t) ==
  /\ At(t, "unhook")
  /\ OnThreadStop
  /\ Done(t)
  /\ UNCHANGED <<locks, thread, useLockA, cue, work, wait, pc>>

\* Mutant: run is left as it is.
HaltNot(t) ==
  /\ At(t, "halt")
  /\ Done(t)
  /\ UNCHANGED <<locks, thread, turns, work, wait, pc>>
Halt(t) ==
  /\ At(t, "halt")
  /\ run' = FALSE
  /\ Done(t)
  /\ UNCHANGED <<locks, threaded, started, starts, turns, work, wait, pc>>

\* DestroyThread(): pthread_join() returns when the thread is off.
Join(t) ==
  /\ At(t, "join")
  /\ Replace(t, IF threaded THEN <<"await">> ELSE <<>>)
  /\ controller' = (controller /\ ~threaded)
  /\ UNCHANGED <<locks, thread, lockA, lockB, useLockA, cue, work, wait, pc>>

Await(t) ==
  /\ At(t, "await") /\ pc = "off"
  /\ threaded' = FALSE /\ started' = FALSE
  /\ broken' = FALSE
  /\ Done(t)
  /\ UNCHANGED <<locks, run, starts, turns, work, seen, pc>>

-------------------------------------------------------------------------------
\* Dispatch(), in the dispatcher's thread or in the controller's.

\* Somewhere among the callbacks break_event is reset, if Wait() found it ready:
\* read() blocks if it is not set.
\* Mutant: the next Dispatch() finds the event still recorded.
ResetKeepsSeen == seen /\ broken /\ broken' = FALSE /\ UNCHANGED seen
ResetBreak == seen /\ broken /\ broken' = FALSE /\ seen' = FALSE

OwnReset ==
  /\ pc = "dispatch" /\ ResetBreak
  /\ UNCHANGED <<locks, thread, turns, work, pc, todo>>

\* What a callback calls in the dispatcher's own thread takes no lock and wakes
\* nobody; Stop() does not wait for the thread it is called in.
OwnCall ==
  /\ pc = "dispatch"
  /\ \/ "change" \in Callbacks /\ stale' = TRUE
        /\ UNCHANGED <<promptSet, thread, turns, wait>>
     \/ "prompt" \in Callbacks /\ promptSet' = TRUE
        /\ UNCHANGED <<stale, thread, turns, wait>>
     \/ /\ "stop" \in Callbacks /\ threaded
        /\ OnThreadStop
        /\ run' = FALSE /\ threaded' = FALSE /\ started' = FALSE
        /\ broken' = FALSE /\ seen' = FALSE
        /\ UNCHANGED <<starts, useLockA, cue, work>>
  /\ UNCHANGED <<locks, pc, todo>>

\* Controller::OnDispatch(): a callback is one of the calls, made by the
\* controller's thread; then the locks pass on the turn.
OnCue ==
  /\ cue /\ Idle(Ctl)
  /\ cue' = FALSE
  /\ todo' = [todo EXCEPT ![Ctl] = OnDispatch]
  /\ UNCHANGED <<locks, thread, controller, lockA, lockB, useLockA, work, wait, pc>>

CtlCall ==
  /\ At(Ctl, "dispatch")
  /\ \E call \in Callbacks : Replace(Ctl, Body(call) \o <<"dispatch">>)
  /\ UNCHANGED <<locks, thread, turns, work, wait, pc>>

CtlReset ==
  /\ At(Ctl, "dispatch") /\ ResetBreak
  /\ UNCHANGED <<locks, thread, turns, work, pc, todo>>

CtlDispatch ==
  /\ At(Ctl, "dispatch") /\ ~seen
  /\ Done(Ctl)
  /\ UNCHANGED <<locks, thread, turns, work, wait, pc>>

CtlHand ==
  /\ At(Ctl, "hand")
  /\ Replace(Ctl, IF useLockA THEN <<"lockB", "unlockA">> ELSE <<"lockA", "unlockB">>)
  /\ UNCHANGED <<locks, thread, turns, work, wait, pc>>

CtlLock ==
  /\ \/ At(Ctl, "lockA") /\ ~lockA /\ lockA' = TRUE /\ UNCHANGED lockB
     \/ At(Ctl, "lockB") /\ ~lockB /\ lockB' = TRUE /\ UNCHANGED lockA
  /\ Done(Ctl)
  /\ UNCHANGED <<locks, thread, controller, useLockA, cue, work, wait, pc>>

CtlUnlock ==
  /\ \/ At(Ctl, "unlockA") /\ lockA' = FALSE /\ UNCHANGED lockB
     \/ At(Ctl, "unlockB") /\ lockB' = FALSE /\ UNCHANGED lockA
  /\ Done(Ctl)
  /\ UNCHANGED <<locks, thread, controller, useLockA, cue, work, wait, pc>>

-------------------------------------------------------------------------------
\* DoThreadStart() and Run(), in the dispatcher's thread.

Begin ==
  /\ pc = "begin"
  /\ controller => ~lockB
  /\ lockB' = (lockB \/ controller)
  /\ pc' = "enter"
  /\ UNCHANGED <<locks, thread, controller, lockA, useLockA, cue, work, wait, todo>>

Enter ==
  /\ pc = "enter" /\ suspend = None
  /\ suspend' = Worker
  /\ started' = TRUE /\ run' = TRUE
  /\ pc' = "latch"
  /\ UNCHANGED <<signal, master, suspendCount, signalCount, threaded, starts, turns,
                 work, wait, todo>>

\* timer_delay is latched and signal_mutex locked, before the thread may be
\* suspended.
Latch ==
  /\ pc = "latch" /\ signal = None
  /\ stale' = FALSE
  /\ signal' = Worker
  /\ pc' = "open"
  /\ UNCHANGED <<suspend, master, suspendCount, signalCount, thread, turns, promptSet,
                 wait, todo>>

OpenWindow ==
  /\ pc = "open"
  /\ suspend' = None
  /\ pc' = "wait"
  /\ UNCHANGED <<signal, master, suspendCount, signalCount, thread, turns, work, wait, todo>>

\* Wait() returns for the break event, among others, or
WakeOnBreak ==
  /\ pc = "wait" /\ broken
  /\ seen' = TRUE
  /\ pc' = "close"
  /\ UNCHANGED <<locks, thread, turns, work, broken, todo>>

\* for something else: a timeout, a stream, or an error (EINTR), which hides it.
WakeOtherwise ==
  /\ pc = "wait"
  /\ seen' = FALSE
  /\ pc' = "close"
  /\ UNCHANGED <<locks, thread, turns, work, broken, todo>>

CloseWindow ==
  /\ pc = "close"
  /\ signal' = None
  /\ pc' = "awake"
  /\ UNCHANGED <<suspend, master, suspendCount, signalCount, thread, turns, work, wait, todo>>

\* The prompt, if any, is served, and the Controller looked for.
Awake ==
  /\ pc = "awake" /\ suspend = None
  /\ promptSet' = FALSE
  /\ IF controller
     THEN pc' = "yield" /\ UNCHANGED suspend
     ELSE pc' = "dispatch" /\ suspend' = Worker
  /\ UNCHANGED <<signal, master, suspendCount, signalCount, thread, turns, stale, wait, todo>>

Dispatch ==
  /\ pc = "dispatch" /\ ~seen
  /\ pc' = IF run THEN "latch" ELSE "exit"
  /\ UNCHANGED <<locks, thread, turns, work, wait, todo>>

Exit ==
  /\ pc = "exit"
  /\ suspend' = IF suspend = Worker THEN None ELSE suspend
  /\ pc' = "off"
  /\ UNCHANGED <<signal, master, suspendCount, signalCount, thread, turns, work, wait, todo>>

\* Controller::DoDispatch(), called through the pointer as it is by now.
Yield ==
  /\ pc = "yield" /\ controller
  /\ lockA' = (lockA /\ useLockA)
  /\ lockB' = (lockB /\ ~useLockA)
  /\ pc' = "cue"
  /\ UNCHANGED <<locks, thread, controller, useLockA, cue, work, wait, todo>>

Cue ==
  /\ pc = "cue"
  /\ \E done \in CueOutcomes : cue' = (cue \/ done) /\ pc' = IF done THEN "turn" ELSE "relock"
  /\ UNCHANGED <<locks, thread, controller, lockA, lockB, useLockA, work, wait, todo>>

\* Mutant: the controller's round is not waited for.
TakeTurnAtOnce ==
  /\ pc = "turn"
  /\ lockA' = (lockA \/ useLockA) /\ lockB' = (lockB \/ ~useLockA)
  /\ useLockA' = ~useLockA
  /\ pc' = "relock"
  /\ UNCHANGED <<locks, thread, controller, cue, work, wait, todo>>
TakeTurn ==
  /\ pc = "turn"
  /\ IF useLockA THEN ~lockA /\ lockA' = TRUE /\ UNCHANGED lockB
                 ELSE ~lockB /\ lockB' = TRUE /\ UNCHANGED lockA
  /\ useLockA' = ~useLockA
  /\ pc' = "relock"
  /\ UNCHANGED <<locks, thread, controller, cue, work, wait, todo>>

Relock ==
  /\ pc = "relock" /\ suspend = None
  /\ suspend' = Worker
  /\ pc' = IF run THEN "latch" ELSE "exit"
  /\ UNCHANGED <<signal, master, suspendCount, signalCount, thread, turns, work, wait, todo>>

-------------------------------------------------------------------------------
\* A step of a caller that is in a method, of the controller's, of the thread's.

CallerStep(t) ==
  \/ Suspend(t) \/ AwaitStart(t) \/ LockSuspend(t) \/ Resume(t)
  \/ Interrupt(t) \/ LockSignal(t) \/ ReleaseSignal(t)
  \/ ChangeTimer(t) \/ ChangeStream(t) \/ SetPrompt(t)
  \/ Unhook(t) \/ Halt(t) \/ Join(t) \/ Await(t)

CtlStep == OnCue \/ CtlHand \/ CtlLock \/ CtlUnlock

WorkerStep ==
  \/ Begin \/ Enter \/ Latch \/ OpenWindow \/ WakeOnBreak \/ CloseWindow \/ Awake
  \/ OwnReset \/ Dispatch \/ Exit \/ Yield \/ Cue \/ TakeTurn \/ Relock

Next ==
  \/ StartThread
  \/ \E t \in Callers : Call(t) \/ CallerStep(t)
  \/ Ctl # None /\ (CtlStep \/ CtlCall \/ CtlReset \/ CtlDispatch)
  \/ WorkerStep \/ WakeOtherwise \/ OwnCall

Spec == Init /\ [][Next]_vars

\* Every thread that can go on does, and a round of events has an end.  No
\* mutex is taken to be fair, nobody has to call, and nothing but the break
\* event has to end a Wait().
Fairness ==
  /\ \A t \in Callers : WF_vars(CallerStep(t))
  /\ WF_vars(Ctl # None /\ CtlStep)
  /\ SF_vars(Ctl # None /\ (CtlReset \/ CtlDispatch))
  /\ WF_vars(WorkerStep)

FairSpec == Spec /\ Fairness

-------------------------------------------------------------------------------
\* Properties.

Steps ==
  {"suspend", "awaitStart", "lockSuspend", "resume", "interrupt", "interruptOrFail",
   "lockSignal", "unsignal", "change", "streams", "prompt", "unhook", "halt", "join",
   "await", "dispatch", "hand", "lockA", "lockB", "unlockA", "unlockB"}

TypeOK ==
  /\ {threaded, started, run, broken, seen, stale, promptSet, controller, lockA, lockB,
      useLockA, cue} \subseteq BOOLEAN
  /\ starts \in 0..MaxStarts
  /\ {suspend, signal} \subseteq Callers \cup {Worker, None}
  /\ master \in Callers \cup {None}
  /\ suspendCount \in 0..CountMax /\ signalCount \in 0..CountMax
  /\ pc \in {"off", "begin", "enter", "latch", "open", "wait", "close", "awake", "dispatch",
             "exit", "yield", "cue", "turn", "relock"}
  /\ todo \in [Callers -> Seq(Steps)]

\* How many steps of a sequence, and of those left to a caller, are among the
\* given ones.
CountOf(s, steps) == Cardinality({i \in 1..Len(s) : s[i] \in steps})
LeftOf(t, steps) == CountOf(todo[t], steps)

\* The calls of SuspendThread() that have returned, and of SignalThread(), and
\* that their caller has not mirrored yet, if these are the steps left to it.
Suspended(s) ==
  CountOf(s, {"resume"}) - CountOf(s, {"suspend", "awaitStart", "lockSuspend"})
Signalled(s) ==
  CountOf(s, {"unsignal"}) - CountOf(s, {"interrupt", "interruptOrFail", "lockSignal"})
Suspensions(t) == Suspended(todo[t])
Signals(t) == Signalled(todo[t])

\* From a return of SuspendThread() to its ResumeThread() the dispatcher's thread
\* neither dispatches nor looks at the timers, and no other caller is there; from a
\* return of SignalThread() to its UnsignalThread() it is outside Wait(), which reads
\* the streams under no other lock.
Exclusion ==
  \A t \in Callers :
    /\ Suspensions(t) > 0 =>
         /\ pc \notin {"latch", "open", "dispatch"}
         /\ \A u \in Callers \ {t} : Suspensions(u) <= 0
    /\ Signals(t) > 0 => pc \notin {"open", "wait", "close"}

\* What a ThreadLock knows of the thread and its callers: a caller that Stop() has
\* overtaken holds nothing any more.
Holds == [t \in Callers |-> IF threaded THEN Suspensions(t) ELSE 0]
Hushes == [t \in Callers |-> IF threaded THEN Signals(t) ELSE 0]
Working == threaded /\ pc \in {"latch", "open", "dispatch", "exit"}
Waiting == threaded /\ pc \in {"open", "wait", "close"}

Lock ==
  INSTANCE ThreadLock WITH
    up <- threaded, holds <- Holds, hushes <- Hushes, working <- Working, waiting <- Waiting

\* The mutexes, the counts and the break event are a ThreadLock, one step at a time:
\* nobody suspends the thread at work or while another has it suspended, or signals
\* it in its wait, and it goes to work or into its wait when everybody who has held it
\* has mirrored each of his calls.
LockKept == Lock!Spec

\* The counts tell how many calls thread_master still has to mirror, so that
\* the mutexes are released by the last one and by no other.
CountsMatch ==
  /\ TypeOK
  /\ \A t \in Callers : master = t <=> threaded /\ Suspensions(t) > 0
  /\ master # None => suspendCount = Suspensions(master) /\ signalCount = Signals(master)
  /\ master = None => suspendCount = 0 /\ signalCount = 0

\* The thread never sleeps on a timer_delay that is out of date: whoever has
\* changed the timers holds it suspended and has yet to break its Wait().
NoMissedChange ==
  pc = "wait" /\ stale /\ ~broken =>
    \E t \in Callers : Suspensions(t) > 0 /\ LeftOf(t, {"interrupt"}) > 0

\* The reset of break_event finds it set, and does not block.
ResetFinds == seen => broken

\* The controller's thread dispatches what the last Wait() has found, and not
\* while the dispatcher's thread is already in the next one.
RoundsApart ==
  Ctl # None /\ (cue \/ LeftOf(Ctl, {"dispatch"}) > 0) =>
    pc \notin {"latch", "open", "wait", "close"}

\* UnsignalThread() is called in a signalled state: its ASSERT(0 != signal_count).
SignalCounted ==
  \A t \in Callers : At(t, "unsignal") /\ threaded /\ master = t => signalCount # 0

\* Stop() returns.
StopReturns == \A t \in Callers : At(t, "await") ~> ~At(t, "await")

\* Who has suspended the thread gets through its call.
SuspensionsEnd == \A t \in Callers : master = t ~> master # t

\* Once the callers have ceased to call, the thread gets back to its Wait() time
\* and again, or ends if it was stopped, with every change seen and, unless a
\* Controller may have undone it (see PromptsServed), every prompt served.
Quiet == \A t \in Callers : Idle(t) \/ At(t, "await") \/ (t = Ctl /\ controller)

AllServed ==
  /\ pc = "off" \/ (pc = "wait" /\ ~stale /\ (promptSet => controller))
  /\ \A t \in Callers : Idle(t)

Quiesces == <>[]Quiet => []<>AllServed

\* Once the callers have ceased to call, no prompt is left unserved for good.
PromptsServed == <>[]Quiet => []<>~promptSet
===============================================================================
