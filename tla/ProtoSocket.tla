------------------------------ MODULE ProtoSocket ------------------------------
(***************************************************************************)
(* ProtoSockets and other descriptors that a ProtoDispatcher watches: what *)
(* their users call, between the rounds of the dispatcher and from within  *)
(* the callbacks of a round, what the operating system and the peers do,   *)
(* and Wait() and Dispatch() themselves.  One thread runs all of it (the   *)
(* dispatcher's thread is in DispatcherThread).                            *)
(*                                                                         *)
(* net is a record: sock, the members of each ProtoSocket; file, the state *)
(* of what each descriptor stands for; disp, the dispatcher.  The          *)
(* operators take a value of net to the next.  "told" is history: of which *)
(* descriptors, as they are now, the last Wait() has reported what.        *)
(***************************************************************************)
EXTENDS DispatcherStreams

CONSTANTS Protocols,  \* of the sockets that are made; those of the start are TCP
          Attached,   \* the sockets that have a notifier and a listener at the start
          Calls,      \* what users call
          Careful     \* no callback removes two successive streams of the table

ASSUME SocketAssumption ==
  Protocols \subseteq {"TCP", "UDP"} /\ Attached \subseteq Sockets /\ Careful \in BOOLEAN

VARIABLES net,
          scan,   \* what Dispatch() is doing: its phase and its local variables
          event,  \* the event that was told to a listener last
          ceased  \* users call nothing any more

vars == <<net, scan, event, ceased>>

States == {"CLOSED", "IDLE", "CONNECTING", "LISTENING", "CONNECTED"}

-------------------------------------------------------------------------------
\* The operating system: a descriptor is free, a TCP or UDP socket, or a pipe.

Listeners == {"listening", "pending"}
Connections == {"up", "ended", "reset"}
FileStates == {"free", "new", "connecting", "refused", "datagram", "pipe"}
                \cup Listeners \cup Connections

FreeFds(n) == {fd \in Fds : n.file[fd] = "free"}
NextFd(n) == CHOOSE fd \in FreeFds(n) : \A f \in FreeFds(n) : fd <= f

\* The file behind fd becomes another, or the same in another state; what was
\* reported of it before is no longer so.
SetFile(n, fd, state) ==
  [n EXCEPT !.file[fd] = state, !.told = {t \in @ : t[1] # fd}]

\* select() reports what must be ready, and may report what could be.
MustBeReady(file, dir) ==
  file \in {"refused", "reset"} \/ file \in (IF dir = "in" THEN {"pending", "ended"} ELSE {"datagram"})
MayBeReady(file, dir) == MustBeReady(file, dir) \/ file \in {"up", "ended", "datagram", "pipe"}

-------------------------------------------------------------------------------
\* Members.

\* ProtoSocket::ProtoSocket().  bound is port >= 0.
NewSocket(protocol) ==
  [protocol |-> protocol, state |-> "CLOSED", handle |-> None, bound |-> FALSE, notifier |-> FALSE,
   listener |-> FALSE, input |-> TRUE, output |-> FALSE, alive |-> TRUE]
DeadSocket == [NewSocket("TCP") EXCEPT !.input = FALSE, !.alive = FALSE]

IsTcp(n, s) == n.sock[s].protocol = "TCP"
IsOpen(n, s) == n.sock[s].state # "CLOSED"
IsBound(n, s) == IsOpen(n, s) /\ n.sock[s].bound
IsConnected(n, s) == n.sock[s].state = "CONNECTED"

SetState(n, s, state) == [n EXCEPT !.sock[s].state = state]

WantedFlags(n, s) ==
  LET k == n.sock[s]
      asked == (IF k.input THEN {"in"} ELSE {}) \cup (IF k.output THEN {"out"} ELSE {})
  IN  IF ~k.listener \/ k.state = "CLOSED" THEN {}
      ELSE IF ~IsTcp(n, s) THEN IF k.bound THEN asked ELSE asked \ {"in"}
      ELSE IF k.state = "CONNECTING" THEN {"out"}
      ELSE IF k.state = "LISTENING" THEN {"in"}
      ELSE IF k.state = "CONNECTED" THEN asked ELSE {}

UpdateNotification(n, s) ==
  LET k == n.sock[s]
  IN  IF ~k.notifier THEN n
      ELSE [n EXCEPT !.disp = UpdateSocketNotification(@, s, k.handle, WantedFlags(n, s))]

Entered(n, s, state) == UpdateNotification(SetState(n, s, state), s)

-------------------------------------------------------------------------------
\* Closing and opening.  "can" is whether the system calls on the way succeed.

\* Mutant: the handle is not reset.
CloseHandleKept(n, s) ==
  IF n.sock[s].handle = None THEN n ELSE SetFile(n, n.sock[s].handle, "free")
CloseHandle(n, s) ==
  IF n.sock[s].handle = None THEN n
  ELSE [SetFile(n, n.sock[s].handle, "free") EXCEPT !.sock[s].handle = None]

\* Close() of a socket that is not connected.  Mutant: the handle is closed first.
CloseHandleFirst(n, s) == [Entered(CloseHandle(n, s), s, "CLOSED") EXCEPT !.sock[s].bound = FALSE]
CloseUnconnected(n, s) ==
  IF ~IsOpen(n, s) THEN n
  ELSE [CloseHandle(Entered(n, s, "CLOSED"), s) EXCEPT !.sock[s].bound = FALSE]

\* Disconnect(): connect() to no address.  A TCP socket is closed if that fails.
\* Mutant: the state is left to the listener.
DisconnectLate(n, s, can) ==
  IF n.sock[s].state \notin {"CONNECTING", "CONNECTED"} THEN n
  ELSE IF IsTcp(n, s) /\ can THEN SetState(SetFile(n, n.sock[s].handle, "new"), s, "IDLE")
  ELSE CloseUnconnected(SetState(n, s, "IDLE"), s)
DisconnectHandle(n, s, can) ==
  IF ~IsTcp(n, s) THEN n
  ELSE IF can THEN SetFile(n, n.sock[s].handle, "new")
  ELSE CloseUnconnected(n, s)
Disconnect(n, s, can) ==
  IF n.sock[s].state \notin {"CONNECTING", "CONNECTED"} THEN n
  ELSE DisconnectHandle(Entered(n, s, "IDLE"), s, can)

Close(n, s, can) == CloseUnconnected(IF IsConnected(n, s) THEN Disconnect(n, s, can) ELSE n, s)

\* socket() takes the least descriptor; without one the socket stays closed.
CreateHandle(n, s) ==
  LET fd == NextFd(n)
  IN  IF FreeFds(n) = {} THEN n
      ELSE SetFile(SetState([n EXCEPT !.sock[s].handle = fd], s, "IDLE"),
                   fd, IF IsTcp(n, s) THEN "new" ELSE "datagram")

SetBound(n, s, bound) ==
  IF ~IsOpen(n, s) THEN n ELSE UpdateNotification([n EXCEPT !.sock[s].bound = bound], s)

\* Open(.., bindOnOpen = false).  Mutant: the socket is not closed first.
OpenAgain(n, s, can) == SetBound(CreateHandle(n, s), s, FALSE)
OpenUnbound(n, s, can) == SetBound(CreateHandle(Close(n, s, can), s), s, FALSE)

BindHandle(n, s, can) == IF can THEN SetBound(n, s, TRUE) ELSE n
OpenForBind(n, s, can) == IF IsOpen(n, s) THEN n ELSE OpenUnbound(n, s, can)
Bind(n, s, can) ==
  BindHandle(OpenForBind(IF IsBound(n, s) THEN Close(n, s, can) ELSE n, s, can), s, can)

CloseUnlessBound(n, s, can) == IF IsBound(n, s) THEN n ELSE Close(n, s, can)
Open(n, s, can) ==
  CloseUnlessBound(Bind(CreateHandle(Close(n, s, can), s), s, can), s, can)

-------------------------------------------------------------------------------
\* Connections.

\* Connect(): outcome is that of connect(), which is in progress ("connecting")
\* only if the socket does not block.  The port is known after the notification.
ConnectHandle(n, s, outcome) ==
  LET fd == n.sock[s].handle
      c == IF IsTcp(n, s) THEN SetFile(n, fd, outcome) ELSE n
      state == IF outcome = "up" THEN "CONNECTED" ELSE "CONNECTING"
  IN  IF ~IsOpen(n, s) \/ outcome = "fails" \/ (IsTcp(n, s) /\ n.file[fd] # "new") THEN n
      ELSE [Entered(c, s, state) EXCEPT !.sock[s].bound = TRUE]
OpenForConnect(n, s, can) == IF IsOpen(n, s) THEN n ELSE Open(n, s, can)
Connect(n, s, can, outcome) ==
  ConnectHandle(OpenForConnect(IF IsConnected(n, s) THEN Disconnect(n, s, can) ELSE n, s, can),
                s, outcome)

\* Listen(): the state is changed before listen() is called, and stays if that fails.
\* Mutant: the dispatcher is not told.
SetListening(n, s) ==
  IF n.file[n.sock[s].handle] = "new" THEN SetFile(n, n.sock[s].handle, "listening") ELSE n
ListenUnwatched(n, s) ==
  IF ~IsTcp(n, s) \/ ~IsBound(n, s) THEN n ELSE SetListening(SetState(n, s, "LISTENING"), s)
ListenHandle(n, s) ==
  IF ~IsTcp(n, s) \/ ~IsBound(n, s) THEN n ELSE SetListening(Entered(n, s, "LISTENING"), s)
Listen(n, s, can) == ListenHandle(IF IsBound(n, s) THEN n ELSE Bind(n, s, can), s)

\* Accept(): t, the socket that the connection is given to, becomes a clone of s
\* first; it may be s itself, which then ceases to listen.
Accept(n, s, t) ==
  LET clone == IF t = s THEN n ELSE [n EXCEPT !.sock[t] = [n.sock[s] EXCEPT !.listener = FALSE]]
      fd == NextFd(n)
      taken == SetFile([clone EXCEPT !.file[n.sock[s].handle] = "listening"], fd, "up")
      ready == IF t = s THEN CloseHandle(Entered(taken, s, "CLOSED"), s)
               ELSE [taken EXCEPT !.sock[t].listener = n.sock[s].listener]
  IN  IF n.sock[s].handle = None \/ FreeFds(n) = {} \/ n.file[n.sock[s].handle] # "pending"
      THEN IF t = s THEN n
           ELSE [clone EXCEPT !.sock[t].handle = None, !.sock[t].state = "CLOSED"]
      ELSE Entered([ready EXCEPT !.sock[t].handle = fd], t, "CONNECTED")

\* Shutdown(): output notification ends, and is back if shutdown() fails.
WithOutput(n, s, on) == UpdateNotification([n EXCEPT !.sock[s].output = on], s)
Shutdown(n, s, can) ==
  IF ~IsConnected(n, s) \/ ~IsTcp(n, s) \/ ~n.sock[s].output THEN n
  ELSE IF can THEN WithOutput(n, s, FALSE) ELSE WithOutput(WithOutput(n, s, FALSE), s, TRUE)

\* OnNotify(), up to the call of the listener, which is told the event.
\* Mutant: a connection is taken for established whenever output is notified.
Told(n, e) == [net |-> n, event |-> e]
NotifyOutputBlindly(n, s, can) ==
  IF n.sock[s].state = "CONNECTING" THEN Told(Entered(n, s, "CONNECTED"), "CONNECT")
  ELSE Told(n, "SEND")
NotifyOutput(n, s, can) ==
  LET state == n.sock[s].state
  IN  IF state # "CONNECTING"
      THEN Told(n, IF state \in {"IDLE", "CONNECTED"} THEN "SEND" ELSE "INVALID_EVENT")
      ELSE IF n.file[n.sock[s].handle] \in {"refused", "reset"}
      THEN Told(Disconnect(n, s, can), "ERROR_")
      ELSE Told(Entered(n, s, "CONNECTED"), "CONNECT")

NotifyInput(n, s) ==
  LET state == n.sock[s].state
  IN  Told(n, IF state = "LISTENING" THEN "ACCEPT"
              ELSE IF state \in {"IDLE", "CONNECTED"} THEN "RECV" ELSE "INVALID_EVENT")

NotifyError(n, s, can) == Told(Disconnect(n, s, can), "ERROR_")

NotifyNone(n, s, can) ==
  Told(Disconnect(n, s, can),
       IF n.sock[s].state \in {"CONNECTING", "CONNECTED"} THEN "DISCONNECT" ELSE "INVALID_EVENT")

\* SetNotifier(), Start- and StopInputNotification() etc., SetListener()
SetNotifier(n, s, on) ==
  LET detached == [n EXCEPT !.disp = UpdateSocketNotification(@, s, n.sock[s].handle, {})]
      m == IF IsOpen(n, s) /\ ~on THEN detached ELSE n
      set == [m EXCEPT !.sock[s].notifier = on]
  IN  IF n.sock[s].notifier = on THEN n
      ELSE IF IsOpen(n, s) THEN UpdateNotification(set, s) ELSE set

SetInput(n, s, on) ==
  IF n.sock[s].input = on THEN n ELSE UpdateNotification([n EXCEPT !.sock[s].input = on], s)
SetOutput(n, s, on) ==
  IF n.sock[s].output = on THEN n ELSE WithOutput(n, s, on)
SetListener(n, s, on) == UpdateNotification([n EXCEPT !.sock[s].listener = on], s)

-------------------------------------------------------------------------------
\* Users.

Init ==
  /\ net = [sock |-> [s \in Sockets |-> [NewSocket("TCP") EXCEPT !.notifier = s \in Attached,
                                                          !.listener = s \in Attached]],
            file |-> [fd \in Fds |-> "free"],
            disp |-> NewDispatcher, told |-> {}]
  /\ scan = [phase |-> "idle", stream |-> None, key |-> None, fd |-> None]
  /\ event = None /\ ceased = FALSE

\* Users run between two rounds and within callbacks.
Does(call, n) ==
  /\ call \in Calls /\ ~ceased
  /\ scan.phase \in {"idle", "input", "output"}
  /\ Careful => ~n.disp.dangling
  /\ net' = n /\ event' = None /\ UNCHANGED <<scan, ceased>>

\* Send() and Recv() tell the listener of a connection's end themselves.
DoesAndTells(call, s, told) == 
  /\ call \in Calls /\ ~ceased
  /\ scan.phase \in {"idle", "input", "output"}
  /\ Careful => ~told.net.disp.dangling
  /\ net' = told.net /\ event' = <<s, told.event>> /\ UNCHANGED <<scan, ceased>>

Alive(s) == net.sock[s].alive

SocketCall(s, can) ==
  \/ Does("open", Open(net, s, can))
  \/ Does("unbound", OpenUnbound(net, s, can))
  \/ Does("bind", Bind(net, s, can))
  \/ Does("close", Close(net, s, can))
  \/ Does("disconnect", Disconnect(net, s, can))
  \/ Does(IF net.sock[s].state \in {"CONNECTING", "CONNECTED"} THEN "listen connected" ELSE "listen",
          Listen(net, s, can))
  \/ Does("shutdown", Shutdown(net, s, can))
  \/ Does("delete", [Close(net, s, can) EXCEPT !.sock[s] = DeadSocket])

ConnectCall(s, can) ==
  \E outcome \in {"up", "connecting", "fails"} :
    /\ outcome = "connecting" => net.sock[s].notifier /\ IsTcp(net, s)
    /\ Does(IF IsTcp(net, s) \/ IsBound(net, s) \/ ~IsOpen(net, s) THEN "connect" ELSE "connect unbound",
            Connect(net, s, can, outcome))

\* A connection is accepted into a socket that is not in use, or into the server.
AcceptCall(s) ==
  \E t \in Sockets :
    /\ t = s \/ (net.sock[t].alive /\ net.sock[t].state = "CLOSED")
    /\ IsTcp(net, s)
    /\ Does("accept", Accept(net, s, t))

Settings(s) ==
  \E on \in BOOLEAN :
    \/ Does("notifier", SetNotifier(net, s, on))
    \/ Does("listener", SetListener(net, s, on))
    \/ Does("input", SetInput(net, s, on))
    \/ Does("output", SetOutput(net, s, on))

Create(s) ==
  ~Alive(s) /\ \E p \in Protocols : Does("create", [net EXCEPT !.sock[s] = NewSocket(p)])

Transfer(s, can) ==
  LET file == net.file[net.sock[s].handle]
  IN  /\ IsConnected(net, s) \/ (IsOpen(net, s) /\ ~IsTcp(net, s))
      /\ \/ file = "reset" /\ DoesAndTells("send", s, NotifyError(net, s, can))
         \/ file = "reset" /\ DoesAndTells("recv", s, NotifyError(net, s, can))
         \/ file = "ended" /\ DoesAndTells("recv", s, NotifyNone(net, s, can))
         \/ file = "datagram" /\ DoesAndTells("empty", s, NotifyNone(net, s, can))

GenericCall(fd) ==
  \/ fd \in FreeFds(net) /\ fd = NextFd(net) /\ Does("pipe", SetFile(net, fd, "pipe"))
  \/ /\ net.file[fd] = "pipe"
     /\ \/ \E dir \in Directions :
             \/ /\ dir = "in" \/ HasGenericStream(net.disp, fd)
                /\ HasGenericStream(net.disp, fd) \/ net.disp.genericPool # <<>>
                /\ Does("install", [net EXCEPT !.disp = InstallGeneric(@, fd, dir)])
             \/ Does("remove", [net EXCEPT !.disp = RemoveGeneric(@, fd, dir)])
        \/ ~HasGenericStream(net.disp, fd) /\ Does("pipe", SetFile(net, fd, "free"))

User ==
  \/ \E s \in Sockets :
       \/ Alive(s) /\ \E can \in BOOLEAN : SocketCall(s, can) \/ ConnectCall(s, can) \/ Transfer(s, can)
       \/ Alive(s) /\ (AcceptCall(s) \/ Settings(s))
       \/ Create(s)
  \/ \E fd \in Fds : GenericCall(fd)
  \/ "cease" \in Calls /\ ceased' = TRUE /\ UNCHANGED <<net, scan, event>>

\* The other end of a connection.
Peer ==
  \E fd \in Fds, state \in FileStates :
    /\ \/ net.file[fd] = "connecting" /\ state \in {"up", "refused"}
       \/ net.file[fd] = "up" /\ state \in {"ended", "reset"}
       \/ net.file[fd] = "listening" /\ state = "pending"
    /\ net' = [net EXCEPT !.file[fd] = state]
    /\ event' = None /\ UNCHANGED <<scan, ceased>>

-------------------------------------------------------------------------------
\* Wait() and Dispatch().

Handle(o) == IF o \in Generics THEN net.disp.owner[o] ELSE net.sock[net.disp.owner[o]].handle
Wanted == UNION {{<<Handle(o), dir>> : dir \in net.disp.flags[o]} : o \in Active(net.disp)}

Idle == [phase |-> "idle", stream |-> None, key |-> None, fd |-> None]
Scanning == [Idle EXCEPT !.phase = "scan"]

\* Wait() and the start of Dispatch(): the iterator of Wait() has gone through the
\* whole table, its own iterator begins.
Wait ==
  /\ scan.phase = "idle"
  /\ \E told \in SUBSET {w \in Wanted : MayBeReady(net.file[w[1]], w[2])} :
       /\ told # {}
       /\ \A w \in Wanted : MustBeReady(net.file[w[1]], w[2]) => w \in told
       /\ net' = [net EXCEPT !.told = told,
                             !.disp.input = {t[1] : t \in {u \in told : u[2] = "in"}},
                             !.disp.output = {t[1] : t \in {u \in told : u[2] = "out"}},
                             !.disp.cursor = Iter!Start(Table(net.disp))]
  /\ scan' = Scanning /\ event' = None

\* The listener or callback of what the stream of key k stands for is called.  A
\* generic stream calls with the descriptor and callback it has by now.
Call(n, dir, stream, k, fd) ==
  \E can \in BOOLEAN :
    \E told \in {IF k \in Generics THEN Told(n, dir)
                 ELSE IF dir = "in" THEN NotifyInput(n, k) ELSE NotifyOutput(n, k, can)} :
        /\ Careful => ~told.net.disp.dangling
        /\ net' = told.net /\ event' = <<k, told.event>>
        /\ scan' = [phase |-> IF dir = "in" THEN "input" ELSE "output",
                    stream |-> stream, key |-> k, fd |-> fd]

Ask(d, dir, stream, fd) ==
  dir \in d.flags[stream] /\ fd \in (IF dir = "in" THEN d.input ELSE d.output)

\* The next stream of the table.
Visit ==
  LET d == net.disp
      k == d.cursor.next
      o == StreamAt(d, k)
      fd == Handle(o)
  IN  /\ scan.phase = "scan" /\ ~d.dangling /\ k # None
      /\ \E c \in Iter!Moved(d.cursor, Table(d)) :
           LET n == [net EXCEPT !.disp.cursor = c]
           IN  IF Ask(d, "in", o, fd) THEN Call(n, "in", o, k, fd)
               ELSE IF Ask(d, "out", o, fd) THEN Call(n, "out", o, k, fd)
               ELSE net' = n /\ UNCHANGED <<scan, event>>

\* The callback of an input has returned: the stream, which may by now belong to
\* another socket or to none, is asked for its output.
InputReturns ==
  /\ scan.phase = "input"
  /\ IF Ask(net.disp, "out", scan.stream, scan.fd)
     THEN Call(net, "out", scan.stream, scan.key, scan.fd)
     ELSE scan' = Scanning /\ event' = None /\ UNCHANGED net

OutputReturns ==
  scan.phase = "output" /\ scan' = Scanning /\ event' = None /\ UNCHANGED net

\* The end of Dispatch().  (The sets are made anew by the next Wait().)
EndDispatch ==
  /\ scan.phase = "scan" /\ ~net.disp.dangling /\ net.disp.cursor.next = None
  /\ net' = [net EXCEPT !.told = {}, !.disp.input = {}, !.disp.output = {}, !.disp.cursor = None]
  /\ scan' = Idle /\ event' = None

Dispatching ==
  (Wait \/ Visit \/ InputReturns \/ OutputReturns \/ EndDispatch) /\ UNCHANGED ceased

Next == User \/ Peer \/ Dispatching

Spec == Init /\ [][Next]_vars

\* The dispatcher's thread goes on, callbacks return.
FairSpec == Spec /\ WF_vars(Dispatching)

-------------------------------------------------------------------------------
\* Properties.

Events == {"ACCEPT", "CONNECT", "SEND", "RECV", "DISCONNECT", "ERROR_", "INVALID_EVENT", "in", "out"}

TypeOK ==
  /\ net.sock \in [Sockets -> [protocol : {"TCP", "UDP"}, state : States, handle : Fds \cup {None}, bound : BOOLEAN,
                               notifier : BOOLEAN, listener : BOOLEAN, input : BOOLEAN,
                               output : BOOLEAN, alive : BOOLEAN]]
  /\ net.file \in [Fds -> FileStates] /\ net.told \subseteq Fds \X Directions
  /\ \A o \in SocketStreams : net.disp.owner[o] \in Sockets \cup {None}
  /\ \A o \in Generics : net.disp.owner[o] \in Fds \cup {None}
  /\ \A o \in Streams : net.disp.flags[o] \subseteq Directions
  /\ net.disp.input \cup net.disp.output \subseteq Fds
  /\ event \in {None} \cup ((Sockets \cup Generics) \X Events)

\* What the dispatcher watches of a socket is what the socket wants, whatever has been
\* called: there is a stream exactly if something is wanted, and with those flags.
NotificationFits ==
  \A s \in Sockets :
    LET wanted == IF net.sock[s].notifier THEN WantedFlags(net, s) ELSE {}
    IN  /\ HasSocketStream(net.disp, s) <=> wanted # {}
        /\ HasSocketStream(net.disp, s) => net.disp.flags[SocketStream(net.disp, s)] = wanted

\* No descriptor is lost, and none has two owners; no closed one is watched (with one
\* of those select() would fail, and Dispatch() serve neither streams nor timers).
DescriptorsOwned ==
  /\ TypeOK
  /\ \A s \in Sockets : IsOpen(net, s) <=> net.sock[s].handle # None
  /\ \A fd \in Fds :
       LET owners == {s \in Sockets : net.sock[s].handle = fd}
       IN  Cardinality(owners) = IF net.file[fd] \in {"free", "pipe"} THEN 0 ELSE 1
  /\ \A o \in Generics : net.disp.owner[o] # None => net.file[net.disp.owner[o]] = "pipe"

\* A TCP socket is what it says: connected only if the connection was made, listening
\* only if listen() has succeeded.
StateFits ==
  \A s \in Sockets : IsOpen(net, s) /\ IsTcp(net, s) =>
    LET file == net.file[net.sock[s].handle]
    IN  CASE net.sock[s].state = "IDLE" -> file = "new"
          [] net.sock[s].state = "CONNECTING" -> file \in {"connecting", "refused"} \cup Connections
          [] net.sock[s].state = "LISTENING" -> file \in Listeners
          [] OTHER -> file \in Connections

\* Once users have ceased to call, each socket hears of what is ready and wanted: of a
\* connection refused, ended or waiting to be accepted.  (Calls may go on for ever from
\* within callbacks, and each may make the iterator leave out or repeat a stream.)
Ready(s, dir) ==
  /\ net.sock[s].notifier /\ dir \in WantedFlags(net, s)
  /\ MustBeReady(net.file[net.sock[s].handle], dir)
Hears(s) == event # None /\ event[1] = s

ReadyServed ==
  \A s \in Sockets, dir \in Directions :
    ceased /\ Ready(s, dir) ~> Hears(s) \/ ~Ready(s, dir)

\* Dispatch() calls a socket only if it exists, wants this notification and is what the
\* last Wait() has found to be ready: neither deleted, closed, connected anew, or
\* switched off meanwhile, nor another one under the same descriptor or stream.  The
\* event OnNotify() tells is then a valid one, as the assertion at its end says.
CallsFit ==
  [][\A c \in {<<"input", "in">>, <<"output", "out">>} :
       scan'.phase = c[1] /\ scan.phase # c[1] =>
         LET k == scan'.key
             owner == net.disp.owner[scan'.stream]
         IN  IF k \in Generics THEN <<owner, c[2]>> \in net.told
             ELSE /\ net.sock[k].alive /\ owner = k
                  /\ c[2] \in WantedFlags(net, k)
                  /\ <<net.sock[k].handle, c[2]>> \in net.told
                  /\ event'[2] # "INVALID_EVENT"]_vars
===============================================================================
