----------------------------- MODULE ThreadLock -----------------------------
(***************************************************************************)
(* What a threaded ProtoDispatcher promises the threads that call it: who  *)
(* has suspended its thread has it for himself, out of its work, until he  *)
(* has resumed it as often, and who has signalled it besides has it out of *)
(* its wait, until he has unsignalled it as often.  There are no mutexes,  *)
(* no counts and no break event here: module DispatcherThread is shown to  *)
(* implement this one.                                                     *)
(***************************************************************************)
EXTENDS Integers

CONSTANT Callers   \* the threads that call the dispatcher

VARIABLES up,      \* the dispatcher has a thread
          holds,   \* how often each caller has yet to resume the thread
          hushes,  \* how often each caller has yet to unsignal it
          working, \* the thread dispatches, or looks at timers and streams
          waiting  \* it is in its wait, or about to begin or to end it

vars == <<up, holds, hushes, working, waiting>>

Nobody == [t \in Callers |-> 0]

Init ==
  /\ up = FALSE
  /\ holds = Nobody /\ hushes = Nobody
  /\ working = FALSE /\ waiting = FALSE

Start ==
  /\ ~up /\ up' = TRUE
  /\ UNCHANGED <<holds, hushes, working, waiting>>

\* What callers and the thread were at is forgotten.
Stop ==
  /\ up /\ up' = FALSE
  /\ holds' = Nobody /\ hushes' = Nobody
  /\ working' = FALSE /\ waiting' = FALSE

\* The thread does not work, nobody else has suspended it.
Suspend(t) ==
  /\ up /\ ~working
  /\ \A u \in Callers \ {t} : holds[u] = 0
  /\ holds' = [holds EXCEPT ![t] = @ + 1]
  /\ UNCHANGED <<up, hushes, working, waiting>>

\* A caller unsignals the thread before he resumes it.
Resume(t) ==
  /\ up /\ holds[t] > hushes[t]
  /\ holds' = [holds EXCEPT ![t] = @ - 1]
  /\ UNCHANGED <<up, hushes, working, waiting>>

\* Only who has suspended the thread signals it, and it has left its wait.
Signal(t) ==
  /\ up /\ ~waiting /\ holds[t] > hushes[t]
  /\ hushes' = [hushes EXCEPT ![t] = @ + 1]
  /\ UNCHANGED <<up, holds, working, waiting>>

Unsignal(t) ==
  /\ up /\ hushes[t] > 0
  /\ hushes' = [hushes EXCEPT ![t] = @ - 1]
  /\ UNCHANGED <<up, holds, working, waiting>>

\* The thread works while nobody has it suspended, enters its wait at work, while
\* nobody has signalled it, and leaves it before it works again.
BeginWork ==
  /\ up /\ ~working /\ ~waiting /\ holds = Nobody
  /\ working' = TRUE
  /\ UNCHANGED <<up, holds, hushes, waiting>>

BeginWait ==
  /\ up /\ working /\ ~waiting /\ hushes = Nobody
  /\ waiting' = TRUE
  /\ UNCHANGED <<up, holds, hushes, working>>

EndWork ==
  /\ up /\ working /\ working' = FALSE
  /\ UNCHANGED <<up, holds, hushes, waiting>>

EndWait ==
  /\ up /\ waiting /\ ~working /\ waiting' = FALSE
  /\ UNCHANGED <<up, holds, hushes, working>>

Next ==
  \/ Start \/ Stop
  \/ \E t \in Callers : Suspend(t) \/ Resume(t) \/ Signal(t) \/ Unsignal(t)
  \/ BeginWork \/ BeginWait \/ EndWork \/ EndWait

Spec == Init /\ [][Next]_vars
=============================================================================
