--------------------------- MODULE ProtoSocketProofs ---------------------------
(***************************************************************************)
(* Proofs about ProtoSocket, for any number of sockets, descriptors and    *)
(* streams, whatever users, peers and callbacks do.                        *)
(***************************************************************************)
EXTENDS ProtoSocket, DispatcherStreamsProofs

-----------------------------------------------------------------------------
\* The inductive invariant, of a value n of net and a value c of scan.

SocketRecords ==
  [protocol : {"TCP", "UDP"}, state : States, handle : Fds \cup {None}, bound : BOOLEAN,
   notifier : BOOLEAN, listener : BOOLEAN, input : BOOLEAN, output : BOOLEAN, alive : BOOLEAN]

Nets ==
  [sock : [Sockets -> SocketRecords], file : [Fds -> FileStates], disp : Dispatchers,
   told : SUBSET (Fds \X Directions)]

\* What a descriptor of a socket of this protocol stands for.
FilesOf(protocol) == IF protocol = "TCP" THEN FileStates \ {"free", "pipe", "datagram"} ELSE {"datagram"}

Owned(n) ==
  /\ \A s \in Sockets : n.sock[s].handle # None => n.file[n.sock[s].handle] \in FilesOf(n.sock[s].protocol)
  /\ \A s, u \in Sockets : n.sock[s].handle = n.sock[u].handle => s = u \/ n.sock[s].handle = None
  /\ \A fd \in Fds : n.file[fd] \notin {"free", "pipe"} => \E s \in Sockets : n.sock[s].handle = fd
  /\ \A o \in Generics : n.disp.owner[o] # None => n.file[n.disp.owner[o]] = "pipe"
  /\ \A s \in Sockets : HasSocketStream(n.disp, s) => n.sock[s].notifier

\* A stream watches a descriptor.
HandleOf(n, o) == IF o \in Generics THEN n.disp.owner[o] ELSE n.sock[n.disp.owner[o]].handle
Serves(n, o, fd, dir) ==
  o \in Streams /\ n.disp.owner[o] # None /\ HandleOf(n, o) = fd /\ dir \in n.disp.flags[o]

\* What is taken for ready has been told and is watched; by the stream that Dispatch()
\* is at, if it may still ask for its output.
ReadyFits(n, c) ==
  /\ \A fd \in n.disp.input : <<fd, "in">> \in n.told /\ \E o \in Streams : Serves(n, o, fd, "in")
  /\ \A fd \in n.disp.output :
       /\ <<fd, "out">> \in n.told
       /\ \E o \in Streams :
            /\ Serves(n, o, fd, "out")
            /\ c.phase = "input" /\ c.fd = fd => o = c.stream /\ Key(n.disp, o) = c.key

\* A connection in progress has not been told of.
ToldFits(n) == \A fd \in Fds : <<fd, "out">> \in n.told => n.file[fd] # "connecting"

Base(n, c) ==
  /\ n \in Nets /\ Wired(n.disp) /\ Owned(n) /\ ReadyFits(n, c) /\ ToldFits(n)
  /\ n.disp.cursor = None <=> c.phase = "idle"

\* What a state says of the file.
FilesIn(state) ==
  CASE state = "IDLE" -> {"new"}
    [] state = "CONNECTING" -> {"connecting", "refused"} \cup Connections
    [] state = "LISTENING" -> Listeners
    [] OTHER -> Connections

SockOk(n, s) ==
  LET k == n.sock[s]
  IN  /\ k.state # "CLOSED" <=> k.handle # None
      /\ ~k.alive => k.state = "CLOSED"
      /\ IF k.protocol = "TCP" THEN k.state # "CLOSED" => n.file[k.handle] \in FilesIn(k.state)
         ELSE k.state \in {"CLOSED", "IDLE", "CONNECTED"}

WatchOk(n, s) == Watches(n.disp, s, IF n.sock[s].notifier THEN WantedFlags(n, s) ELSE {})

\* All is well but for s, whose methods are running.
Others(n, c, s) == Base(n, c) /\ \A u \in Sockets \ {s} : SockOk(n, u) /\ WatchOk(n, u)

Good(n, c) == Base(n, c) /\ \A s \in Sockets : SockOk(n, s) /\ WatchOk(n, s)

-----------------------------------------------------------------------------
\* What the parts depend on.

\* None and the names of things are apart.
LEMMA NoneApart ==
  /\ None \notin Sockets /\ None \notin Fds /\ None \notin Generics /\ None \notin SocketStreams
  /\ Sockets \subseteq Nat /\ Fds \subseteq Nat /\ Generics \subseteq Nat
  /\ SocketStreams \cap Generics = {} /\ Streams = SocketStreams \cup Generics
  BY StreamsAssumption DEF Streams

\* What a socket wants are directions,
LEMMA WantedFlagsType ==
  ASSUME NEW n, NEW s PROVE WantedFlags(n, s) \in SUBSET Directions
  BY DEF WantedFlags, Directions

\* which depend on its members only.
LEMMA WantedFlagsSame ==
  ASSUME NEW n, NEW m, NEW s, n.sock[s] = m.sock[s]
  PROVE  WantedFlags(n, s) = WantedFlags(m, s)
  BY DEF WantedFlags, IsTcp

\* Every stream stands for a socket or for a pipe.
LEMMA StreamOwner ==
  ASSUME NEW n, NEW c, Base(n, c), NEW o \in Streams, n.disp.owner[o] # None
  PROVE  /\ o \in Generics => n.disp.owner[o] \in Fds /\ n.file[n.disp.owner[o]] = "pipe"
         /\ o \notin Generics => o \in SocketStreams /\ n.disp.owner[o] \in Sockets
                                 /\ HasSocketStream(n.disp, n.disp.owner[o])
  BY NoneApart DEF Base, Wired, OneEach, Owned, HasSocketStream

\* A descriptor without a stream is not taken for ready: a free one, or that of a
\* socket that has none.
LEMMA Unheard ==
  ASSUME NEW n, NEW c, Base(n, c), NEW fd \in Fds,
         \/ n.file[fd] = "free"
         \/ \E s \in Sockets : n.sock[s].handle = fd /\ ~HasSocketStream(n.disp, s)
  PROVE  fd \notin n.disp.input /\ fd \notin n.disp.output
<1>1. ASSUME NEW o \in Streams, NEW dir \in Directions, Serves(n, o, fd, dir) PROVE FALSE
  <2>1. n.disp.owner[o] # None /\ HandleOf(n, o) = fd
    BY <1>1 DEF Serves
  <2>2. \A s \in Sockets : n.sock[s].handle = fd => n.file[fd] \notin {"free", "pipe"}
    BY NoneApart DEF Base, Owned, FilesOf
  <2>3. CASE o \in Generics
    BY <2>1, <2>2, <2>3, StreamOwner DEF HandleOf
  <2>4. CASE o \notin Generics
    <3>1. n.disp.owner[o] \in Sockets /\ HasSocketStream(n.disp, n.disp.owner[o]) /\ n.sock[n.disp.owner[o]].handle = fd
      BY <2>1, <2>4, StreamOwner DEF HandleOf
    <3>2. \A s \in Sockets : n.sock[s].handle = fd => s = n.disp.owner[o]
      BY <3>1, NoneApart DEF Base, Owned
    <3> QED  BY <2>2, <3>1, <3>2
  <2> QED  BY <2>3, <2>4
<1>2. ReadyFits(n, c)
  BY DEF Base
<1>3. fd \notin n.disp.input
  BY <1>1, <1>2 DEF ReadyFits, Directions
<1>4. fd \notin n.disp.output
  <2> SUFFICES ASSUME fd \in n.disp.output PROVE FALSE
    OBVIOUS
  <2>1. PICK o \in Streams : Serves(n, o, fd, "out")
    BY <1>2 DEF ReadyFits
  <2> QED  BY <1>1, <2>1 DEF Directions
<1> QED
  BY <1>3, <1>4

\* One descriptor, one stream.
LEMMA ServesUnique ==
  ASSUME NEW n, NEW c, Base(n, c), NEW fd \in Fds, NEW o \in Streams, NEW p \in Streams, NEW a, NEW b,
         Serves(n, o, fd, a), Serves(n, p, fd, b)
  PROVE  o = p
<1>1. \A s \in Sockets : n.sock[s].handle = fd => n.file[fd] # "pipe"
  BY NoneApart DEF Base, Owned, FilesOf
<1>2. CASE o \in Generics /\ p \in Generics
  BY <1>2, NoneApart DEF Base, Wired, OneEach, Serves, HandleOf
<1>3. CASE o \notin Generics /\ p \notin Generics
  <2>1. n.disp.owner[o] \in Sockets /\ n.disp.owner[p] \in Sockets /\ o \in SocketStreams /\ p \in SocketStreams
    BY <1>3, StreamOwner DEF Serves
  <2>2. n.sock[n.disp.owner[o]].handle = fd /\ n.sock[n.disp.owner[p]].handle = fd
    BY <1>3 DEF Serves, HandleOf
  <2>3. \A s, u \in Sockets : n.sock[s].handle = n.sock[u].handle => s = u \/ n.sock[s].handle = None
    BY DEF Base, Owned
  <2>4. n.disp.owner[o] = n.disp.owner[p]
    BY <2>1, <2>2, <2>3, NoneApart
  <2> QED  BY <1>3, <2>1, <2>4, NoneApart DEF Base, Wired, OneEach
<1>4. CASE o \in Generics /\ p \notin Generics
  BY <1>1, <1>4, StreamOwner DEF Serves, HandleOf
<1>5. CASE o \notin Generics /\ p \in Generics
  BY <1>1, <1>5, StreamOwner DEF Serves, HandleOf
<1> QED
  BY <1>2, <1>3, <1>4, <1>5

-----------------------------------------------------------------------------
\* Changes of a socket's members and of its file.

\* What is ready still is while nobody that is watched changes its descriptor.
LEMMA ReadyKept ==
  ASSUME NEW n, NEW c, Base(n, c), NEW s \in Sockets, NEW m,
         m.disp = n.disp, \A u \in Sockets \ {s} : m.sock[u] = n.sock[u],
         m.sock[s].handle = n.sock[s].handle \/ ~HasSocketStream(n.disp, s),
         \A t \in n.told : t \in m.told \/ t[1] \notin n.disp.input \cup n.disp.output
  PROVE  ReadyFits(m, c)
<1>1. ASSUME NEW o \in Streams, NEW fd, NEW dir, Serves(n, o, fd, dir) PROVE Serves(m, o, fd, dir)
  <2>1. CASE o \in Generics
    BY <1>1, <2>1 DEF Serves, HandleOf
  <2>2. CASE o \notin Generics
    <3>1. n.disp.owner[o] \in Sockets /\ HasSocketStream(n.disp, n.disp.owner[o])
      BY <1>1, <2>2, StreamOwner DEF Serves
    <3>2. m.sock[n.disp.owner[o]].handle = n.sock[n.disp.owner[o]].handle
      BY <3>1
    <3> QED  BY <1>1, <2>2, <3>2 DEF Serves, HandleOf
  <2> QED  BY <2>1, <2>2
<1>2. \A fd \in n.disp.input : <<fd, "in">> \in m.told /\ \E o \in Streams : Serves(m, o, fd, "in")
  BY <1>1 DEF Base, ReadyFits
<1>3. ASSUME NEW fd \in n.disp.output
      PROVE  /\ <<fd, "out">> \in m.told
             /\ \E o \in Streams :
                  /\ Serves(m, o, fd, "out")
                  /\ c.phase = "input" /\ c.fd = fd => o = c.stream /\ Key(m.disp, o) = c.key
  <2>1. <<fd, "out">> \in n.told
    BY DEF Base, ReadyFits
  <2>2. PICK o \in Streams :
          /\ Serves(n, o, fd, "out")
          /\ c.phase = "input" /\ c.fd = fd => o = c.stream /\ Key(n.disp, o) = c.key
    BY DEF Base, ReadyFits
  <2> QED  BY <1>1, <2>1, <2>2
<1> QED
  BY <1>2, <1>3 DEF ReadyFits

\* A socket is not touched by what happens to the others.
LEMMA SocketKept ==
  ASSUME NEW n, NEW u, SockOk(n, u), WatchOk(n, u), NEW m, m.disp = n.disp, m.sock[u] = n.sock[u],
         n.sock[u].handle # None => m.file[n.sock[u].handle] = n.file[n.sock[u].handle]
  PROVE  SockOk(m, u) /\ WatchOk(m, u)
<1>1. SockOk(m, u)
  BY DEF SockOk
<1>2. WantedFlags(m, u) = WantedFlags(n, u)
  BY WantedFlagsSame
<1>3. WatchOk(m, u)
  BY <1>2 DEF WatchOk
<1> QED  BY <1>1, <1>3

\* Members that are neither the handle nor, unless there is no handle, the protocol,
\* nor, unless there is no stream, the notifier.
LEMMA MembersChange ==
  ASSUME NEW n, NEW c, NEW s \in Sockets, Others(n, c, s), NEW m \in Nets,
         m.disp = n.disp, m.file = n.file, m.told = n.told, \A u \in Sockets \ {s} : m.sock[u] = n.sock[u],
         m.sock[s].handle = n.sock[s].handle,
         m.sock[s].protocol = n.sock[s].protocol \/ n.sock[s].handle = None,
         m.sock[s].notifier = n.sock[s].notifier \/ ~HasSocketStream(n.disp, s)
  PROVE  Others(m, c, s)
<1>1. Base(n, c)
  BY DEF Others
<1>2. ReadyFits(m, c)
  BY <1>1, ReadyKept
<1>3. Owned(m)
  BY <1>1 DEF Base, Owned
<1>4. ToldFits(m)
  BY <1>1 DEF Base, ToldFits
<1>5. ASSUME NEW u \in Sockets \ {s} PROVE SockOk(m, u) /\ WatchOk(m, u)
  BY SocketKept DEF Others
<1> QED
  BY <1>1, <1>2, <1>3, <1>4, <1>5 DEF Others, Base

\* The file of a socket changes.
LEMMA FileChanges ==
  ASSUME NEW n, NEW c, NEW s \in Sockets, Others(n, c, s), NEW fd \in Fds, n.sock[s].handle = fd,
         fd \notin n.disp.input, fd \notin n.disp.output,
         NEW state \in FilesOf(n.sock[s].protocol)
  PROVE  LET m == SetFile(n, fd, state)
         IN  /\ Others(m, c, s)
             /\ m.disp = n.disp /\ m.sock = n.sock /\ m.file = [n.file EXCEPT ![fd] = state]
             /\ m.told = {t \in n.told : t[1] # fd}
<1> DEFINE m == SetFile(n, fd, state)
<1>1. Base(n, c) /\ n \in Nets /\ fd # None
  BY NoneApart DEF Others, Base
<1>2. state \in FileStates \ {"free", "pipe"}
  BY DEF FilesOf, FileStates
<1>3. /\ m.disp = n.disp /\ m.sock = n.sock /\ m.file = [n.file EXCEPT ![fd] = state]
      /\ m.told = {t \in n.told : t[1] # fd} /\ m \in Nets
  BY <1>1, <1>2 DEF SetFile, Nets
<1> HIDE DEF m
<1>4. m.file[fd] = state /\ \A f \in Fds \ {fd} : m.file[f] = n.file[f]
  BY <1>1, <1>3 DEF Nets
<1>5. ReadyFits(m, c)
  BY <1>1, <1>3, ReadyKept
<1>6. Owned(m)
  <2>1. \A u \in Sockets \ {s} : n.sock[u].handle # fd
    BY <1>1 DEF Base, Owned
  <2>2. \A u \in Sockets : n.sock[u].handle # None => n.sock[u].handle \in Fds
    BY <1>1 DEF Nets, SocketRecords
  <2>3. \A u \in Sockets : m.sock[u].handle # None => m.file[m.sock[u].handle] \in FilesOf(m.sock[u].protocol)
    BY <1>1, <1>3, <1>4, <2>1, <2>2 DEF Base, Owned
  <2>4. \A f \in Fds : m.file[f] \notin {"free", "pipe"} => \E u \in Sockets : m.sock[u].handle = f
    BY <1>1, <1>3, <1>4 DEF Base, Owned
  <2>5. n.file[fd] # "pipe"
    BY <1>1 DEF Base, Owned, FilesOf
  <2>6. ASSUME NEW o \in Generics, m.disp.owner[o] # None PROVE m.file[m.disp.owner[o]] = "pipe"
    <3>1. n.disp.owner[o] \in Fds /\ n.file[n.disp.owner[o]] = "pipe"
      BY <1>1, <1>3, <2>6, StreamOwner, NoneApart
    <3> QED  BY <1>3, <1>4, <2>5, <3>1
  <2> QED  BY <1>1, <1>3, <2>3, <2>4, <2>6 DEF Base, Owned
<1>7. ToldFits(m)
  BY <1>1, <1>3, <1>4 DEF Base, ToldFits
<1>8. \A u \in Sockets \ {s} : SockOk(m, u) /\ WatchOk(m, u)
  <2>1. \A u \in Sockets \ {s} : n.sock[u].handle # None => m.file[n.sock[u].handle] = n.file[n.sock[u].handle]
    BY <1>1, <1>4 DEF Base, Owned, Nets, SocketRecords
  <2> TAKE u \in Sockets \ {s}
  <2>2. SockOk(n, u) /\ WatchOk(n, u)
    BY DEF Others
  <2> QED  BY <1>3, <2>1, <2>2, SocketKept
<1> QED
  BY <1>1, <1>3, <1>5, <1>6, <1>7, <1>8 DEF Others, Base, m

\* What a method leaves of a socket, and of the others.
Kin(n, m, s) ==
  /\ \A u \in Sockets \ {s} : m.sock[u] = n.sock[u]
  /\ m.sock[s].protocol = n.sock[s].protocol /\ m.sock[s].alive = n.sock[s].alive
  /\ m.sock[s].notifier = n.sock[s].notifier

\* A descriptor becomes free when the socket that has it is not watched any more.
LEMMA CloseHandleKeeps ==
  ASSUME NEW n, NEW c, NEW s \in Sockets, Others(n, c, s), ~HasSocketStream(n.disp, s)
  PROVE  LET m == CloseHandle(n, s)
         IN  /\ Others(m, c, s) /\ Kin(n, m, s)
             /\ m.disp = n.disp /\ m.sock[s].handle = None /\ m.sock[s].state = n.sock[s].state
<1> DEFINE fd == n.sock[s].handle
           m == CloseHandle(n, s)
<1>1. Base(n, c) /\ n \in Nets
  BY DEF Others, Base
<1>2. CASE fd = None
  BY <1>2 DEF CloseHandle, Kin
<1>3. CASE fd # None
  <2>1. fd \in Fds
    BY <1>1, <1>3 DEF Nets, SocketRecords
  <2>2. fd \notin n.disp.input /\ fd \notin n.disp.output
    BY <1>1, <2>1, Unheard
  <2>3. /\ m.disp = n.disp /\ m.file = [n.file EXCEPT ![fd] = "free"]
        /\ m.sock = [n.sock EXCEPT ![s] = [@ EXCEPT !.handle = None]]
        /\ m.told = {t \in n.told : t[1] # fd} /\ m \in Nets
    <3> DEFINE f == SetFile(n, fd, "free")
    <3>1. f.disp = n.disp /\ f.file = [n.file EXCEPT ![fd] = "free"] /\ f.sock = n.sock
          /\ f.told = {t \in n.told : t[1] # fd} /\ f \in Nets
      BY <1>1, <2>1 DEF SetFile, Nets, FileStates
    <3>2. m = [f EXCEPT !.sock[s].handle = None]
      BY <1>3 DEF CloseHandle
    <3> HIDE DEF f, m, fd
    <3>3. m.disp = f.disp /\ m.file = f.file /\ m.told = f.told /\ m.sock = [f.sock EXCEPT ![s].handle = None]
      BY <3>1, <3>2 DEF Nets
    <3>4. m \in Nets
      <4> DEFINE x == [f.sock EXCEPT ![s].handle = None]
      <4>1. x \in [Sockets -> SocketRecords]
        BY <3>1 DEF Nets, SocketRecords
      <4>2. m = [f EXCEPT !.sock = x]
        BY <3>2
      <4> HIDE DEF x
      <4> QED  BY <3>1, <4>1, <4>2 DEF Nets
    <3> QED  BY <3>1, <3>3, <3>4
  <2> HIDE DEF m
  <2>4. m.file[fd] = "free" /\ \A f \in Fds \ {fd} : m.file[f] = n.file[f]
    BY <1>1, <2>1, <2>3 DEF Nets
  <2>5. /\ \A u \in Sockets \ {s} : m.sock[u] = n.sock[u]
        /\ m.sock[s].handle = None /\ m.sock[s].state = n.sock[s].state
        /\ m.sock[s].protocol = n.sock[s].protocol /\ m.sock[s].alive = n.sock[s].alive
        /\ m.sock[s].notifier = n.sock[s].notifier
    BY <1>1, <2>3 DEF Nets, SocketRecords
  <2>6. ReadyFits(m, c)
    BY <1>1, <2>2, <2>3, <2>5, ReadyKept
  <2>7. \A u \in Sockets \ {s} : n.sock[u].handle # fd
    BY <1>1, <1>3 DEF Base, Owned
  <2>8. Owned(m)
    <3>1. \A u \in Sockets : n.sock[u].handle # None => n.sock[u].handle \in Fds
      BY <1>1 DEF Nets, SocketRecords
    <3>2. \A u \in Sockets : m.sock[u].handle # None => m.file[m.sock[u].handle] \in FilesOf(m.sock[u].protocol)
      BY <1>1, <2>4, <2>5, <2>7, <3>1 DEF Base, Owned
    <3>3. \A f \in Fds : m.file[f] \notin {"free", "pipe"} => \E u \in Sockets : m.sock[u].handle = f
      BY <1>1, <2>4, <2>5 DEF Base, Owned
    <3>4. n.file[fd] # "pipe"
      BY <1>1, <1>3 DEF Base, Owned, FilesOf
    <3>5. ASSUME NEW o \in Generics, m.disp.owner[o] # None PROVE m.file[m.disp.owner[o]] = "pipe"
      <4>1. n.disp.owner[o] \in Fds /\ n.file[n.disp.owner[o]] = "pipe"
        BY <1>1, <2>3, <3>5, StreamOwner, NoneApart
      <4> QED  BY <2>3, <2>4, <3>4, <4>1
    <3>6. \A u, v \in Sockets : m.sock[u].handle = m.sock[v].handle => u = v \/ m.sock[u].handle = None
      BY <1>1, <2>5 DEF Base, Owned
    <3> QED  BY <1>1, <2>3, <2>5, <3>2, <3>3, <3>5, <3>6 DEF Base, Owned
  <2>9. ToldFits(m)
    BY <1>1, <2>3, <2>4 DEF Base, ToldFits
  <2>10. \A u \in Sockets \ {s} : SockOk(m, u) /\ WatchOk(m, u)
    <3>1. \A u \in Sockets \ {s} : n.sock[u].handle # None => m.file[n.sock[u].handle] = n.file[n.sock[u].handle]
      BY <1>1, <2>4, <2>7 DEF Nets, SocketRecords
    <3> TAKE u \in Sockets \ {s}
    <3>2. SockOk(n, u) /\ WatchOk(n, u)
      BY DEF Others
    <3>3. /\ m.disp = n.disp /\ m.sock[u] = n.sock[u]
          /\ n.sock[u].handle # None => m.file[n.sock[u].handle] = n.file[n.sock[u].handle]
      BY <2>3, <2>5, <3>1
    <3> QED  BY <3>2, <3>3, SocketKept
  <2> QED
    BY <1>1, <2>3, <2>5, <2>6, <2>8, <2>9, <2>10 DEF Others, Base, Kin, m
<1> QED
  <2> HIDE DEF m
  <2> QED  BY <1>2, <1>3 DEF m

\* A socket that had no descriptor gets one that was free, and whatever members.
Takes(n, m, s, fd, state) ==
  /\ ~HasSocketStream(n.disp, s) /\ n.sock[s].handle = None
  /\ fd \in Fds /\ n.file[fd] = "free" /\ m \in Nets /\ m.disp = n.disp
  /\ \A u \in Sockets \ {s} : m.sock[u] = n.sock[u]
  /\ m.sock[s].handle = fd
  /\ state \in FilesOf(m.sock[s].protocol) /\ m.file = [n.file EXCEPT ![fd] = state]
  /\ \A t : t \in m.told <=> t \in n.told /\ t[1] # fd

\* A socket that is not watched takes a free descriptor.
LEMMA HandleTaken ==
  ASSUME NEW n, NEW c, NEW s \in Sockets, Others(n, c, s), NEW m, NEW fd, NEW state, Takes(n, m, s, fd, state)
  PROVE  Others(m, c, s)
<1> USE DEF Takes
<1>1. Base(n, c) /\ n \in Nets /\ fd # None
  BY NoneApart DEF Others, Base
<1>2. fd \notin n.disp.input /\ fd \notin n.disp.output
  BY <1>1, Unheard
<1>3. m.file[fd] = state /\ \A f \in Fds \ {fd} : m.file[f] = n.file[f]
  BY <1>1 DEF Nets
<1>4. \A u \in Sockets : n.sock[u].handle # fd
  BY <1>1 DEF Base, Owned, FilesOf
<1>5. ReadyFits(m, c)
  BY <1>1, <1>2, ReadyKept
<1>6. Owned(m)
  <2>1. \A u \in Sockets : n.sock[u].handle # None => n.sock[u].handle \in Fds
    BY <1>1 DEF Nets, SocketRecords
  <2>2. \A u \in Sockets : m.sock[u].handle # None => m.file[m.sock[u].handle] \in FilesOf(m.sock[u].protocol)
    BY <1>1, <1>3, <1>4, <2>1 DEF Base, Owned
  <2>3. \A f \in Fds : m.file[f] \notin {"free", "pipe"} => \E u \in Sockets : m.sock[u].handle = f
    BY <1>1, <1>3, NoneApart DEF Base, Owned
  <2>4. ASSUME NEW o \in Generics, m.disp.owner[o] # None PROVE m.file[m.disp.owner[o]] = "pipe"
    <3>1. n.disp.owner[o] \in Fds /\ n.file[n.disp.owner[o]] = "pipe"
      BY <1>1, <2>4, StreamOwner, NoneApart
    <3> QED  BY <1>3, <3>1
  <2>5. \A u, v \in Sockets : m.sock[u].handle = m.sock[v].handle => u = v \/ m.sock[u].handle = None
    BY <1>1, <1>4 DEF Base, Owned
  <2>6. \A u \in Sockets : HasSocketStream(m.disp, u) => m.sock[u].notifier
    BY <1>1 DEF Base, Owned
  <2> QED  BY <2>2, <2>3, <2>4, <2>5, <2>6 DEF Owned
<1>7. ToldFits(m)
  BY <1>1, <1>3 DEF Base, ToldFits
<1>8. \A u \in Sockets \ {s} : SockOk(m, u) /\ WatchOk(m, u)
  <2>1. \A u \in Sockets \ {s} : n.sock[u].handle # None => m.file[n.sock[u].handle] = n.file[n.sock[u].handle]
    BY <1>1, <1>3, <1>4 DEF Nets, SocketRecords
  <2> TAKE u \in Sockets \ {s}
  <2>2. SockOk(n, u) /\ WatchOk(n, u)
    BY DEF Others
  <2> QED  BY <2>1, <2>2, SocketKept
<1> QED
  BY <1>1, <1>5, <1>6, <1>7, <1>8 DEF Others, Base

-----------------------------------------------------------------------------
\* UpdateNotification().

\* Nothing but the streams of s changes.
Silent(n, m) ==
  /\ m.sock = n.sock /\ m.file = n.file /\ m.told = n.told
  /\ m.disp.input \subseteq n.disp.input /\ m.disp.output \subseteq n.disp.output

\* When a socket is watched anew the others are not touched.
LEMMA RewatchedKeeps ==
  ASSUME NEW n, NEW c, NEW s \in Sockets, Others(n, c, s), NEW flags \in SUBSET Directions,
         n.sock[s].notifier \/ flags = {}, NEW m \in Nets, Silent(n, m),
         Rewatched(n.disp, m.disp, s, n.sock[s].handle, flags)
  PROVE  Others(m, c, s)
<1> DEFINE fd == n.sock[s].handle
<1>1. Base(n, c) /\ n \in Nets /\ s # None
  BY NoneApart DEF Others, Base
<1>2. ASSUME NEW o \in Streams, NEW f \in Fds, NEW dir \in Directions, Serves(n, o, f, dir),
             f \in (IF dir = "in" THEN m.disp.input ELSE m.disp.output)
      PROVE  Serves(m, o, f, dir) /\ m.disp.owner[o] = n.disp.owner[o]
  <2>1. n.disp.owner[o] # None /\ HandleOf(n, o) = f /\ dir \in n.disp.flags[o] /\ dir \in {"in", "out"}
    BY <1>2 DEF Serves, Directions
  <2>2. CASE o \in Generics
    BY <2>1, <2>2 DEF Rewatched, Serves, HandleOf
  <2>3. CASE o \notin Generics
    <3>1. o \in SocketStreams /\ n.disp.owner[o] \in Sockets
      BY <1>1, <2>1, <2>3, StreamOwner
    <3>2. CASE n.disp.owner[o] # s
      <4>1. m.disp.owner[o] = n.disp.owner[o] /\ m.disp.flags[o] = n.disp.flags[o]
        BY <3>1, <3>2 DEF Rewatched
      <4> QED  BY <2>1, <2>3, <4>1 DEF Serves, HandleOf, Silent
    <3>3. CASE n.disp.owner[o] = s
      <4>1. f = fd
        BY <2>1, <2>3, <3>3 DEF HandleOf
      <4>2. m.disp.owner[o] = s /\ dir \in flags
        BY <1>2, <2>1, <3>1, <3>3, <4>1 DEF Rewatched
      <4>3. m.disp.flags[o] = flags
        BY <3>1, <4>2 DEF Rewatched, Watches
      <4> QED  BY <2>1, <2>3, <3>3, <4>2, <4>3 DEF Serves, HandleOf, Silent
    <3> QED  BY <3>2, <3>3
  <2> QED  BY <2>2, <2>3
<1>3. n.disp.input \subseteq Fds /\ n.disp.output \subseteq Fds
  BY <1>1 DEF Nets, Dispatchers
<1>4. ReadyFits(m, c)
  <2>1. ASSUME NEW f \in m.disp.input PROVE <<f, "in">> \in m.told /\ \E o \in Streams : Serves(m, o, f, "in")
    <3>1. f \in n.disp.input /\ f \in Fds
      BY <1>3 DEF Silent
    <3>2. <<f, "in">> \in n.told
      BY <1>1, <3>1 DEF Base, ReadyFits
    <3>3. PICK o \in Streams : Serves(n, o, f, "in")
      BY <1>1, <3>1 DEF Base, ReadyFits
    <3>4. Serves(m, o, f, "in")
      BY <1>2, <3>1, <3>3 DEF Directions
    <3> QED  BY <3>2, <3>4 DEF Silent
  <2>2. ASSUME NEW f \in m.disp.output
        PROVE  /\ <<f, "out">> \in m.told
               /\ \E o \in Streams :
                    /\ Serves(m, o, f, "out")
                    /\ c.phase = "input" /\ c.fd = f => o = c.stream /\ Key(m.disp, o) = c.key
    <3>1. f \in n.disp.output /\ f \in Fds
      BY <1>3 DEF Silent
    <3>2. <<f, "out">> \in n.told
      BY <1>1, <3>1 DEF Base, ReadyFits
    <3>3. PICK o \in Streams :
            /\ Serves(n, o, f, "out")
            /\ c.phase = "input" /\ c.fd = f => o = c.stream /\ Key(n.disp, o) = c.key
      BY <1>1, <3>1 DEF Base, ReadyFits
    <3>4. Serves(m, o, f, "out") /\ m.disp.owner[o] = n.disp.owner[o]
      BY <1>2, <3>1, <3>3 DEF Directions
    <3>5. Key(m.disp, o) = Key(n.disp, o)
      BY <3>4 DEF Key
    <3> QED  BY <3>2, <3>3, <3>4, <3>5 DEF Silent
  <2> QED  BY <2>1, <2>2 DEF ReadyFits
<1>5. \A u \in Sockets \ {s} : HasSocketStream(m.disp, u) <=> HasSocketStream(n.disp, u)
  BY DEF Rewatched, HasSocketStream
<1>6. Owned(m)
  <2>1. HasSocketStream(m.disp, s) => m.sock[s].notifier
    BY DEF Rewatched, Watches, Silent
  <2>2. \A o \in Generics : m.disp.owner[o] = n.disp.owner[o]
    BY DEF Rewatched
  <2> QED  BY <1>1, <1>5, <2>1, <2>2 DEF Base, Owned, Silent
<1>7. ToldFits(m)
  BY <1>1 DEF Base, ToldFits, Silent
<1>8. ASSUME NEW u \in Sockets \ {s} PROVE SockOk(m, u) /\ WatchOk(m, u)
  <2>1. SockOk(m, u)
    BY DEF SockOk, Others, Silent
  <2>2. WantedFlags(m, u) = WantedFlags(n, u) /\ m.sock[u] = n.sock[u]
    BY WantedFlagsSame DEF Silent
  <2>3. \A o \in SocketStreams : /\ m.disp.owner[o] = u <=> n.disp.owner[o] = u
                                 /\ n.disp.owner[o] = u => m.disp.flags[o] = n.disp.flags[o]
    BY DEF Rewatched
  <2>4. WatchOk(m, u)
    BY <1>5, <2>2, <2>3 DEF WatchOk, Watches, Others
  <2> QED  BY <2>1, <2>4
<1> QED
  BY <1>1, <1>4, <1>6, <1>7, <1>8 DEF Others, Base, Rewatched

\* So it is with UpdateSocketNotification(),
LEMMA NotificationSet ==
  ASSUME NEW n, NEW c, NEW s \in Sockets, Others(n, c, s), NEW flags \in SUBSET Directions,
         n.sock[s].notifier \/ flags = {}
  PROVE  LET m == [n EXCEPT !.disp = UpdateSocketNotification(@, s, n.sock[s].handle, flags)]
         IN  Others(m, c, s) /\ Silent(n, m) /\ Watches(m.disp, s, flags)
<1> DEFINE e == UpdateSocketNotification(n.disp, s, n.sock[s].handle, flags)
           m == [n EXCEPT !.disp = UpdateSocketNotification(@, s, n.sock[s].handle, flags)]
<1>1. n \in Nets /\ Wired(n.disp)
  BY DEF Others, Base
<1>2. Rewatched(n.disp, e, s, n.sock[s].handle, flags)
  BY <1>1, UpdateSocketNotificationRewatches
<1>3. m = [n EXCEPT !.disp = e]
  OBVIOUS
<1> HIDE DEF m, e
<1>4. e \in Dispatchers
  BY <1>2 DEF Rewatched, Wired
<1>5. m.sock = n.sock /\ m.file = n.file /\ m.told = n.told /\ m.disp = e /\ m \in Nets
  BY <1>1, <1>3, <1>4 DEF Nets
<1>6. Silent(n, m)
  BY <1>2, <1>5 DEF Silent, Rewatched
<1>7. Others(m, c, s)
  BY <1>2, <1>5, <1>6, RewatchedKeeps
<1> QED
  BY <1>2, <1>5, <1>6, <1>7 DEF Rewatched, m

\* with UpdateNotification(), which restores what is watched,
LEMMA UpdateKeeps ==
  ASSUME NEW n, NEW c, NEW s \in Sockets, Others(n, c, s)
  PROVE  LET m == UpdateNotification(n, s)
         IN  Others(m, c, s) /\ WatchOk(m, s) /\ Silent(n, m)
<1> DEFINE m == UpdateNotification(n, s)
<1>1. CASE ~n.sock[s].notifier
  <2>1. m = n
    BY <1>1 DEF UpdateNotification
  <2>2. ~HasSocketStream(n.disp, s)
    BY <1>1 DEF Others, Base, Owned
  <2>3. WatchOk(n, s)
    BY <1>1, <2>2 DEF WatchOk, Watches, HasSocketStream
  <2> QED  BY <2>1, <2>3 DEF Silent
<1>2. CASE n.sock[s].notifier
  <2> DEFINE w == WantedFlags(n, s)
  <2>1. w \in SUBSET Directions
    BY WantedFlagsType
  <2>2. m = [n EXCEPT !.disp = UpdateSocketNotification(@, s, n.sock[s].handle, w)]
    BY <1>2 DEF UpdateNotification
  <2> HIDE DEF m, w
  <2>3. Others(m, c, s) /\ Silent(n, m) /\ Watches(m.disp, s, w)
    BY <1>2, <2>1, <2>2, NotificationSet
  <2>4. WantedFlags(m, s) = w /\ m.sock[s].notifier
    BY <1>2, <2>3, WantedFlagsSame DEF Silent, w
  <2> QED  BY <2>3, <2>4 DEF WatchOk, m
<1> QED
  BY <1>1, <1>2

\* What is kept if members of s change and the dispatcher is told.
Follows(n, m, s) ==
  /\ m.file = n.file /\ m.told = n.told
  /\ m.disp.input \subseteq n.disp.input /\ m.disp.output \subseteq n.disp.output
  /\ Kin(n, m, s) /\ m.sock[s].handle = n.sock[s].handle

\* and with a change of the state, which calls it.
LEMMA EnteredKeeps ==
  ASSUME NEW n, NEW c, NEW s \in Sockets, Others(n, c, s), NEW state \in States
  PROVE  LET m == Entered(n, s, state)
         IN  /\ Others(m, c, s) /\ WatchOk(m, s) /\ Follows(n, m, s)
             /\ m.sock[s].state = state /\ m.sock[s].bound = n.sock[s].bound
<1> DEFINE l == SetState(n, s, state)
           m == Entered(n, s, state)
<1>1. n \in Nets
  BY DEF Others, Base
<1>2. /\ l \in Nets /\ l.disp = n.disp /\ l.file = n.file /\ l.told = n.told
      /\ l.sock = [n.sock EXCEPT ![s].state = state]
  <2> DEFINE x == [n.sock EXCEPT ![s].state = state]
  <2>1. x \in [Sockets -> SocketRecords]
    BY <1>1 DEF Nets, SocketRecords
  <2>2. l = [n EXCEPT !.sock = x]
    BY DEF SetState
  <2> HIDE DEF x, l
  <2> QED  BY <1>1, <2>1, <2>2 DEF Nets, x
<1>3. m = UpdateNotification(l, s)
  BY DEF Entered
<1> HIDE DEF l, m
<1>4. /\ \A u \in Sockets \ {s} : l.sock[u] = n.sock[u]
      /\ l.sock[s].handle = n.sock[s].handle /\ l.sock[s].protocol = n.sock[s].protocol
      /\ l.sock[s].notifier = n.sock[s].notifier /\ l.sock[s].alive = n.sock[s].alive
      /\ l.sock[s].bound = n.sock[s].bound /\ l.sock[s].state = state
  BY <1>1, <1>2 DEF Nets, SocketRecords
<1>5. Others(l, c, s)
  BY <1>2, <1>4, MembersChange
<1>6. Others(m, c, s) /\ WatchOk(m, s) /\ Silent(l, m)
  BY <1>3, <1>5, UpdateKeeps
<1> QED
  BY <1>2, <1>4, <1>6 DEF Silent, Follows, Kin, m

\* What a closed socket, or a TCP socket that has no connection, does not want.
LEMMA Unwatched ==
  ASSUME NEW n, NEW s, WatchOk(n, s),
         n.sock[s].state = "CLOSED" \/ (n.sock[s].protocol = "TCP" /\ n.sock[s].state = "IDLE")
  PROVE  ~HasSocketStream(n.disp, s)
<1>1. WantedFlags(n, s) = {}
  BY DEF WantedFlags, IsTcp
<1> QED
  BY <1>1 DEF WatchOk, Watches

\* A closed socket without a stream is watched for what it wants.
LEMMA ClosedWatch ==
  ASSUME NEW n, NEW s, ~HasSocketStream(n.disp, s), n.sock[s].state = "CLOSED"
  PROVE  WatchOk(n, s)
<1>1. WantedFlags(n, s) = {}
  BY DEF WantedFlags
<1> QED
  BY <1>1 DEF WatchOk, Watches, HasSocketStream

\* bound is one of a socket's members.
LEMMA BoundMember ==
  ASSUME NEW sock \in [Sockets -> SocketRecords], NEW s \in Sockets, NEW b \in BOOLEAN
  PROVE  [sock EXCEPT ![s].bound = b] \in [Sockets -> SocketRecords]
<1> DEFINE k == [sock[s] EXCEPT !.bound = b]
<1>1. k \in SocketRecords
  <2>1. sock[s] \in SocketRecords
    OBVIOUS
  <2> QED  BY <2>1 DEF SocketRecords
<1>2. [sock EXCEPT ![s].bound = b] = [sock EXCEPT ![s] = k]
  OBVIOUS
<1> HIDE DEF k
<1>3. [sock EXCEPT ![s] = k] \in [Sockets -> SocketRecords]
  BY <1>1
<1> QED
  BY <1>2, <1>3

\* All is well if it is for s and for the others.
LEMMA GoodIs ==
  ASSUME NEW n, NEW c, NEW s \in Sockets
  PROVE  Good(n, c) <=> Others(n, c, s) /\ SockOk(n, s) /\ WatchOk(n, s)
  BY DEF Good, Others

-----------------------------------------------------------------------------
\* Closing and opening.

\* A socket that is being opened or closed: what is watched is not yet known.
Opening(n, c, s) ==
  Others(n, c, s) /\ SockOk(n, s) /\ (WatchOk(n, s) \/ n.sock[s].state = "IDLE")

\* Methods of s may begin then.
LEMMA GoodOpening ==
  ASSUME NEW n, NEW c, NEW s \in Sockets, Good(n, c) PROVE Opening(n, c, s)
  BY DEF Good, Opening, Others

\* CloseUnconnected() leaves a closed socket, whatever connection is lost.
LEMMA CloseUnconnectedCloses ==
  ASSUME NEW n, NEW c, NEW s \in Sockets, Others(n, c, s),
         IsOpen(n, s) => n.sock[s].handle # None,
         ~IsOpen(n, s) => SockOk(n, s) /\ WatchOk(n, s)
  PROVE  LET m == CloseUnconnected(n, s)
         IN  Good(m, c) /\ Kin(n, m, s) /\ m.sock[s].state = "CLOSED"
<1> DEFINE m == CloseUnconnected(n, s)
<1>1. CASE ~IsOpen(n, s)
  <2>1. m = n
    BY <1>1 DEF CloseUnconnected
  <2> QED  BY <1>1, <2>1, GoodIs DEF IsOpen, Kin
<1>2. CASE IsOpen(n, s)
  <2> DEFINE k == Entered(n, s, "CLOSED")
             l == CloseHandle(k, s)
  <2>1. m = [l EXCEPT !.sock[s].bound = FALSE]
    BY <1>2 DEF CloseUnconnected
  <2> HIDE DEF k, l, m
  <2>2. Others(k, c, s) /\ WatchOk(k, s) /\ Follows(n, k, s) /\ k.sock[s].state = "CLOSED"
    BY EnteredKeeps DEF k, States
  <2>3. ~HasSocketStream(k.disp, s)
    BY <2>2, Unwatched
  <2>4. /\ Others(l, c, s) /\ Kin(k, l, s)
        /\ l.disp = k.disp /\ l.sock[s].handle = None /\ l.sock[s].state = k.sock[s].state
    BY <2>2, <2>3, CloseHandleKeeps DEF l
  <2>5. l \in Nets
    BY <2>4 DEF Others, Base
  <2>6. /\ m \in Nets /\ m.disp = l.disp /\ m.file = l.file /\ m.told = l.told
        /\ m.sock = [l.sock EXCEPT ![s].bound = FALSE]
    <3> DEFINE x == [l.sock EXCEPT ![s].bound = FALSE]
    <3>1. x \in [Sockets -> SocketRecords]
      <4>1. l.sock \in [Sockets -> SocketRecords]
        BY <2>5 DEF Nets
      <4> QED  BY <4>1, BoundMember
    <3>2. m = [l EXCEPT !.sock = x]
      BY <2>1
    <3> HIDE DEF x
    <3> QED  BY <2>5, <3>1, <3>2 DEF Nets, x
  <2>7. /\ \A u \in Sockets \ {s} : m.sock[u] = l.sock[u]
        /\ m.sock[s].handle = None /\ m.sock[s].state = "CLOSED"
        /\ m.sock[s].protocol = l.sock[s].protocol /\ m.sock[s].notifier = l.sock[s].notifier
        /\ m.sock[s].alive = l.sock[s].alive
    BY <2>2, <2>4, <2>5, <2>6 DEF Nets, SocketRecords
  <2>8. Others(m, c, s)
    <3>1. /\ m \in Nets /\ m.disp = l.disp /\ m.file = l.file /\ m.told = l.told
          /\ \A u \in Sockets \ {s} : m.sock[u] = l.sock[u]
          /\ m.sock[s].handle = l.sock[s].handle /\ m.sock[s].protocol = l.sock[s].protocol
          /\ m.sock[s].notifier = l.sock[s].notifier
      BY <2>4, <2>6, <2>7
    <3>2. Others(l, c, s)
      BY <2>4
    <3> QED  BY <3>1, <3>2, MembersChange
  <2>9. SockOk(m, s)
    BY <2>7 DEF SockOk
  <2>10. WatchOk(m, s)
    <3>1. m.disp = k.disp
      BY <2>4, <2>6
    <3>2. ~HasSocketStream(m.disp, s)
      BY <2>3, <3>1
    <3>3. m.sock[s].state = "CLOSED"
      BY <2>7
    <3> QED  BY <3>2, <3>3, ClosedWatch
  <2> QED
    BY <2>2, <2>4, <2>7, <2>8, <2>9, <2>10, GoodIs DEF Kin, Follows, m
<1> QED
  <2> HIDE DEF m
  <2> QED  BY <1>1, <1>2 DEF m

\* Disconnect() leaves a socket without a connection.
LEMMA DisconnectKeeps ==
  ASSUME NEW n, NEW c, NEW s \in Sockets, Good(n, c), NEW can \in BOOLEAN
  PROVE  LET m == Disconnect(n, s, can)
         IN  /\ Good(m, c) /\ Kin(n, m, s) /\ m.sock[s].state \notin {"CONNECTING", "CONNECTED"}
             /\ n.sock[s].bound /\ n.sock[s].protocol = "UDP" => m.sock[s].bound
<1> DEFINE m == Disconnect(n, s, can)
<1>1. CASE n.sock[s].state \notin {"CONNECTING", "CONNECTED"}
  <2>1. m = n
    BY <1>1 DEF Disconnect
  <2> QED  BY <1>1, <2>1 DEF Kin
<1>2. CASE n.sock[s].state \in {"CONNECTING", "CONNECTED"}
  <2> DEFINE k == Entered(n, s, "IDLE")
             fd == n.sock[s].handle
  <2>1. m = DisconnectHandle(k, s, can)
    BY <1>2 DEF Disconnect
  <2> HIDE DEF k, m
  <2>2. Others(n, c, s) /\ SockOk(n, s)
    BY DEF Good, Others
  <2>3. n \in Nets /\ fd \in Fds /\ fd # None /\ n.file[fd] \in FilesOf(n.sock[s].protocol)
    BY <1>2, <2>2, NoneApart DEF Others, Base, Owned, SockOk, Nets, SocketRecords
  <2>4. /\ Others(k, c, s) /\ WatchOk(k, s) /\ Follows(n, k, s)
        /\ k.sock[s].state = "IDLE" /\ k.sock[s].bound = n.sock[s].bound
    BY <2>2, EnteredKeeps DEF k, States
  <2>5. k.sock[s].handle = fd /\ k.sock[s].protocol = n.sock[s].protocol /\ k.sock[s].alive = n.sock[s].alive
    BY <2>4 DEF Follows, Kin
  <2>6. CASE n.sock[s].protocol # "TCP"
    <3>1. m = k
      BY <2>1, <2>5, <2>6 DEF DisconnectHandle, IsTcp
    <3>2. SockOk(k, s)
      BY <1>2, <2>2, <2>4, <2>5, <2>6 DEF SockOk
    <3> QED  BY <2>4, <3>1, <3>2, GoodIs DEF Follows, m
  <2>7. CASE n.sock[s].protocol = "TCP" /\ can
    <3>1. m = SetFile(k, fd, "new")
      BY <2>1, <2>5, <2>7 DEF DisconnectHandle, IsTcp
    <3>2. ~HasSocketStream(k.disp, s)
      BY <2>4, <2>5, <2>7, Unwatched
    <3>3. Base(k, c)
      BY <2>4 DEF Others
    <3>4. fd \notin k.disp.input /\ fd \notin k.disp.output
      BY <2>3, <2>5, <3>2, <3>3, Unheard
    <3>5. "new" \in FilesOf(k.sock[s].protocol)
      BY <2>5, <2>7 DEF FilesOf, FileStates
    <3>6. Others(m, c, s) /\ m.disp = k.disp /\ m.sock = k.sock /\ m.file = [k.file EXCEPT ![fd] = "new"]
      BY <2>3, <2>4, <2>5, <3>1, <3>4, <3>5, FileChanges
    <3>7. m.file[fd] = "new"
      BY <2>3, <3>3, <3>6 DEF Base, Nets
    <3>8. SockOk(m, s)
      BY <1>2, <2>2, <2>3, <2>4, <2>5, <2>7, <3>6, <3>7 DEF SockOk, FilesIn
    <3>9. WatchOk(m, s)
      <4>1. WantedFlags(m, s) = WantedFlags(k, s)
        BY <3>6, WantedFlagsSame
      <4> QED  BY <2>4, <3>6, <4>1 DEF WatchOk
    <3> QED  BY <2>4, <2>7, <3>6, <3>8, <3>9, GoodIs DEF Follows, Kin, m
  <2>8. CASE n.sock[s].protocol = "TCP" /\ ~can
    <3>1. m = CloseUnconnected(k, s)
      BY <2>1, <2>5, <2>8 DEF DisconnectHandle, IsTcp
    <3>2. IsOpen(k, s) /\ k.sock[s].handle # None
      BY <2>3, <2>4, <2>5 DEF IsOpen
    <3>3. Good(m, c) /\ Kin(k, m, s) /\ m.sock[s].state = "CLOSED"
      BY <2>4, <3>1, <3>2, CloseUnconnectedCloses
    <3> QED  BY <2>4, <2>8, <3>3 DEF Follows, Kin, m
  <2> QED  BY <2>6, <2>7, <2>8
<1> QED
  BY <1>1, <1>2

\* Close() leaves a closed socket, and all is well.
LEMMA CloseCloses ==
  ASSUME NEW n, NEW c, NEW s \in Sockets, Opening(n, c, s), NEW can \in BOOLEAN
  PROVE  LET m == Close(n, s, can)
         IN  Good(m, c) /\ Kin(n, m, s) /\ m.sock[s].state = "CLOSED"
<1> DEFINE m == Close(n, s, can)
<1>1. CASE IsConnected(n, s)
  <2> DEFINE k == Disconnect(n, s, can)
  <2>1. m = CloseUnconnected(k, s)
    BY <1>1 DEF Close
  <2> HIDE DEF k, m
  <2>2. Good(n, c)
    BY <1>1, GoodIs DEF Opening, IsConnected
  <2>3. Good(k, c) /\ Kin(n, k, s)
    BY <2>2, DisconnectKeeps DEF k
  <2>4. Others(k, c, s) /\ SockOk(k, s) /\ WatchOk(k, s)
    BY <2>3, GoodIs
  <2>5. IsOpen(k, s) => k.sock[s].handle # None
    BY <2>4 DEF SockOk, IsOpen
  <2>6. Good(m, c) /\ Kin(k, m, s) /\ m.sock[s].state = "CLOSED"
    BY <2>1, <2>4, <2>5, CloseUnconnectedCloses
  <2> QED  BY <2>3, <2>6 DEF Kin, m
<1>2. CASE ~IsConnected(n, s)
  <2>1. m = CloseUnconnected(n, s)
    BY <1>2 DEF Close
  <2> HIDE DEF m
  <2>2. Others(n, c, s) /\ SockOk(n, s) /\ (IsOpen(n, s) => n.sock[s].handle # None)
    BY DEF Opening, SockOk, IsOpen
  <2>3. ~IsOpen(n, s) => WatchOk(n, s)
    BY DEF Opening, IsOpen
  <2>4. Good(m, c) /\ Kin(n, m, s) /\ m.sock[s].state = "CLOSED"
    BY <2>1, <2>2, <2>3, CloseUnconnectedCloses
  <2> QED  BY <2>4 DEF m
<1> QED
  BY <1>1, <1>2

\* The next descriptor is a free one.
LEMMA NextFdIsFree ==
  ASSUME NEW n, FreeFds(n) # {} PROVE NextFd(n) \in Fds /\ n.file[NextFd(n)] = "free"
<1> DEFINE R == {p \in Nat \X Nat : p[1] < p[2]}
<1>1. IsWellFoundedOn(R, Nat)
  BY NatLessThanWellFounded DEF OpToRel
<1>2. FreeFds(n) \subseteq Nat
  BY NoneApart DEF FreeFds
<1> HIDE DEF R
<1>3. PICK k \in FreeFds(n) : \A j \in FreeFds(n) : <<j, k>> \notin R
  BY <1>1, <1>2, WFMin
<1>4. \A j \in FreeFds(n) : k <= j
  <2> TAKE j \in FreeFds(n)
  <2>1. j \in Nat /\ k \in Nat /\ <<j, k>> \notin R
    BY <1>2, <1>3
  <2>2. ~(j < k)
    BY <2>1 DEF R
  <2> QED  BY <2>1, <2>2
<1>5. NextFd(n) \in FreeFds(n)
  BY <1>3, <1>4 DEF NextFd
<1> QED
  BY <1>5 DEF FreeFds

\* The first part of Open(): the socket has a descriptor, or none was free.
LEMMA CreateHandleOpens ==
  ASSUME NEW n, NEW c, NEW s \in Sockets, Good(n, c), n.sock[s].state = "CLOSED", n.sock[s].alive
  PROVE  LET m == CreateHandle(n, s)
         IN  Opening(m, c, s) /\ Kin(n, m, s) /\ m.sock[s].state \in {"CLOSED", "IDLE"}
<1> DEFINE m == CreateHandle(n, s)
           fd == NextFd(n)
           file == IF IsTcp(n, s) THEN "new" ELSE "datagram"
<1>1. CASE FreeFds(n) = {}
  <2>1. m = n
    BY <1>1 DEF CreateHandle
  <2> QED  BY <2>1, GoodOpening DEF Kin
<1>2. CASE FreeFds(n) # {}
  <2>1. m = SetFile(SetState([n EXCEPT !.sock[s].handle = fd], s, "IDLE"), fd, file)
    BY <1>2 DEF CreateHandle
  <2>2. fd \in Fds /\ n.file[fd] = "free"
    BY <1>2, NextFdIsFree
  <2>3. file \in FileStates /\ file \in FilesOf(n.sock[s].protocol)
    BY DEF IsTcp, FileStates, FilesOf
  <2>4. n.sock[s].protocol = "TCP" => file = "new"
    BY DEF IsTcp
  <2> HIDE DEF m, fd, file
  <2>5. Others(n, c, s) /\ SockOk(n, s) /\ WatchOk(n, s) /\ n \in Nets
    BY GoodIs DEF Others, Base
  <2>6. n.sock[s].handle = None /\ ~HasSocketStream(n.disp, s)
    BY <2>5, Unwatched DEF SockOk
  <2> DEFINE x == [n.sock EXCEPT ![s].handle = fd]
             y == [x EXCEPT ![s].state = "IDLE"]
             k == [n EXCEPT !.sock = y]
  <2>7. x \in [Sockets -> SocketRecords]
    BY <2>2, <2>5 DEF Nets, SocketRecords
  <2>8. y \in [Sockets -> SocketRecords]
    <3> HIDE DEF x
    <3> QED  BY <2>7 DEF SocketRecords, States
  <2>9. SetState([n EXCEPT !.sock[s].handle = fd], s, "IDLE") = k
    <3>1. [n EXCEPT !.sock[s].handle = fd] = [n EXCEPT !.sock = x]
      OBVIOUS
    <3> DEFINE l == [n EXCEPT !.sock = x]
    <3>2. l.sock = x /\ SetState(l, s, "IDLE") = [l EXCEPT !.sock = y]
      <4>1. l.sock = x
        BY <2>5 DEF Nets
      <4> HIDE DEF x, l
      <4> QED  BY <4>1 DEF SetState
    <3>3. [l EXCEPT !.sock = y] = k
      BY <2>5 DEF Nets
    <3> QED  BY <3>1, <3>2, <3>3
  <2>10. /\ \A u \in Sockets \ {s} : y[u] = n.sock[u]
         /\ y[s].handle = fd /\ y[s].state = "IDLE" /\ y[s].protocol = n.sock[s].protocol
         /\ y[s].notifier = n.sock[s].notifier /\ y[s].alive = n.sock[s].alive
    <3>1. \A u \in Sockets \ {s} : y[u] = n.sock[u]
      BY <2>5 DEF Nets
    <3>2. /\ x[s].handle = fd /\ x[s].protocol = n.sock[s].protocol
          /\ x[s].notifier = n.sock[s].notifier /\ x[s].alive = n.sock[s].alive
      BY <2>5 DEF Nets, SocketRecords
    <3> HIDE DEF x
    <3>3. /\ y[s].handle = x[s].handle /\ y[s].state = "IDLE" /\ y[s].protocol = x[s].protocol
          /\ y[s].notifier = x[s].notifier /\ y[s].alive = x[s].alive
      BY <2>7 DEF SocketRecords
    <3> QED  BY <3>1, <3>2, <3>3
  <2> HIDE DEF x, y
  <2>11. k \in Nets /\ k.sock = y /\ k.file = n.file /\ k.disp = n.disp /\ k.told = n.told
    BY <2>5, <2>8 DEF Nets
  <2> HIDE DEF k
  <2>12. /\ m.sock = y /\ m.file = [n.file EXCEPT ![fd] = file] /\ m.disp = n.disp
         /\ m.told = {t \in n.told : t[1] # fd} /\ m \in Nets
    BY <2>1, <2>2, <2>3, <2>9, <2>11 DEF SetFile, Nets
  <2>13. Others(m, c, s)
    <3>1. m.sock[s].handle = fd /\ file \in FilesOf(m.sock[s].protocol)
      BY <2>3, <2>10, <2>12
    <3>2. \A u \in Sockets \ {s} : m.sock[u] = n.sock[u]
      BY <2>10, <2>12
    <3>3. m.disp = n.disp /\ m.file = [n.file EXCEPT ![fd] = file] /\ m \in Nets
          /\ \A t : t \in m.told <=> t \in n.told /\ t[1] # fd
      BY <2>12
    <3>4. Others(n, c, s) /\ n.file[fd] = "free" /\ fd \in Fds
      BY <2>2, <2>5
    <3>5. Takes(n, m, s, fd, file)
      BY <2>6, <3>1, <3>2, <3>3, <3>4 DEF Takes
    <3> QED  BY <3>4, <3>5, HandleTaken
  <2>14. m.file[fd] = file
    BY <2>2, <2>5, <2>12 DEF Nets
  <2>15. SockOk(m, s)
    BY <2>2, <2>4, <2>5, <2>10, <2>12, <2>14, NoneApart DEF SockOk, FilesIn
  <2> QED  BY <2>10, <2>12, <2>13, <2>15 DEF Opening, Kin, m
<1> QED
  BY <1>1, <1>2

\* bound is what Bind() sets, and the dispatcher is told.
LEMMA SetBoundKeeps ==
  ASSUME NEW n, NEW c, NEW s \in Sockets, Opening(n, c, s), NEW bound \in BOOLEAN
  PROVE  LET m == SetBound(n, s, bound)
         IN  /\ Good(m, c) /\ Kin(n, m, s) /\ m.sock[s].state = n.sock[s].state
             /\ IsOpen(m, s) => m.sock[s].bound = bound
<1> DEFINE m == SetBound(n, s, bound)
<1>1. CASE ~IsOpen(n, s)
  <2>1. m = n
    BY <1>1 DEF SetBound
  <2> QED  BY <1>1, <2>1, GoodIs DEF IsOpen, Kin, Opening
<1>2. CASE IsOpen(n, s)
  <2> DEFINE x == [n.sock EXCEPT ![s].bound = bound]
             k == [n EXCEPT !.sock = x]
  <2>1. m = UpdateNotification(k, s)
    BY <1>2 DEF SetBound
  <2> HIDE DEF m
  <2>2. Others(n, c, s) /\ SockOk(n, s) /\ n \in Nets
    BY DEF Opening, Others, Base
  <2>3. x \in [Sockets -> SocketRecords]
    BY <2>2 DEF Nets, SocketRecords
  <2>4. /\ \A u \in Sockets \ {s} : x[u] = n.sock[u]
        /\ x[s].handle = n.sock[s].handle /\ x[s].state = n.sock[s].state /\ x[s].protocol = n.sock[s].protocol
        /\ x[s].notifier = n.sock[s].notifier /\ x[s].alive = n.sock[s].alive /\ x[s].bound = bound
    BY <2>2 DEF Nets, SocketRecords
  <2> HIDE DEF x
  <2>5. k \in Nets /\ k.sock = x /\ k.file = n.file /\ k.disp = n.disp /\ k.told = n.told
    BY <2>2, <2>3 DEF Nets
  <2> HIDE DEF k
  <2>6. Others(k, c, s)
    BY <2>2, <2>4, <2>5, MembersChange
  <2>7. Others(m, c, s) /\ WatchOk(m, s) /\ Silent(k, m)
    BY <2>1, <2>6, UpdateKeeps
  <2>8. m.sock = x /\ m.file = n.file
    BY <2>5, <2>7 DEF Silent
  <2>9. SockOk(m, s)
    BY <2>2, <2>4, <2>8 DEF SockOk
  <2>10. Good(m, c)
    BY <2>7, <2>9, GoodIs
  <2> QED  BY <2>4, <2>8, <2>10 DEF Kin, m
<1> QED
  BY <1>1, <1>2

\* Open() without Bind().
LEMMA OpenUnboundOpens ==
  ASSUME NEW n, NEW c, NEW s \in Sockets, Opening(n, c, s), n.sock[s].alive, NEW can \in BOOLEAN
  PROVE  LET m == OpenUnbound(n, s, can)
         IN  Good(m, c) /\ Kin(n, m, s) /\ m.sock[s].state \in {"CLOSED", "IDLE"}
<1> DEFINE k == Close(n, s, can)
           l == CreateHandle(k, s)
           m == SetBound(l, s, FALSE)
<1>1. OpenUnbound(n, s, can) = m
  BY DEF OpenUnbound
<1>2. Good(k, c) /\ Kin(n, k, s) /\ k.sock[s].state = "CLOSED"
  BY CloseCloses
<1> HIDE DEF k
<1>3. Opening(l, c, s) /\ Kin(k, l, s) /\ l.sock[s].state \in {"CLOSED", "IDLE"}
  <2>1. k.sock[s].alive
    BY <1>2 DEF Kin
  <2> QED  BY <1>2, <2>1, CreateHandleOpens
<1> HIDE DEF l
<1>4. Good(m, c) /\ Kin(l, m, s) /\ m.sock[s].state = l.sock[s].state
  BY <1>3, SetBoundKeeps
<1> HIDE DEF m
<1> QED
  BY <1>1, <1>2, <1>3, <1>4 DEF Kin

\* Bind() in the midst of Open() may leave what is watched unknown, if it fails.
LEMMA BindKeeps ==
  ASSUME NEW n, NEW c, NEW s \in Sockets, Opening(n, c, s), n.sock[s].alive, NEW can \in BOOLEAN
  PROVE  LET m == Bind(n, s, can)
         IN  /\ Good(m, c) \/ (m = n /\ ~IsBound(m, s))
             /\ Kin(n, m, s) /\ m.sock[s].state \in {n.sock[s].state, "CLOSED", "IDLE"}
<1> DEFINE k == IF IsBound(n, s) THEN Close(n, s, can) ELSE n
           l == OpenForBind(k, s, can)
           m == BindHandle(l, s, can)
<1>1. Bind(n, s, can) = m
  BY DEF Bind
<1>2. /\ Opening(k, c, s) /\ Kin(n, k, s) /\ k.sock[s].state \in {n.sock[s].state, "CLOSED"}
      /\ IsOpen(k, s) => k = n /\ ~IsBound(n, s)
  <2>1. CASE IsBound(n, s)
    <3>1. k = Close(n, s, can)
      BY <2>1
    <3>2. Good(k, c) /\ Kin(n, k, s) /\ k.sock[s].state = "CLOSED"
      BY <3>1, CloseCloses
    <3> HIDE DEF k
    <3> QED  BY <3>2, GoodOpening DEF IsOpen
  <2>2. CASE ~IsBound(n, s)
    BY <2>2 DEF Kin
  <2> QED  BY <2>1, <2>2
<1> HIDE DEF k
<1>3. /\ Opening(l, c, s) /\ Kin(n, l, s) /\ l.sock[s].state \in {n.sock[s].state, "CLOSED", "IDLE"}
      /\ Good(l, c) \/ (l = n /\ ~IsBound(l, s))
  <2>1. CASE IsOpen(k, s)
    <3>1. l = n
      BY <1>2, <2>1 DEF OpenForBind
    <3> QED  BY <1>2, <2>1, <3>1 DEF Kin
  <2>2. CASE ~IsOpen(k, s)
    <3>1. l = OpenUnbound(k, s, can)
      BY <2>2 DEF OpenForBind
    <3>2. k.sock[s].alive
      BY <1>2 DEF Kin
    <3>3. Good(l, c) /\ Kin(k, l, s) /\ l.sock[s].state \in {"CLOSED", "IDLE"}
      BY <1>2, <3>1, <3>2, OpenUnboundOpens
    <3> HIDE DEF l
    <3> QED  BY <1>2, <3>3, GoodOpening DEF Kin
  <2> QED  BY <2>1, <2>2
<1> HIDE DEF l
<1>4. CASE can
  <2>1. m = SetBound(l, s, TRUE)
    BY <1>4 DEF BindHandle
  <2> HIDE DEF m
  <2>2. Good(m, c) /\ Kin(l, m, s) /\ m.sock[s].state = l.sock[s].state
    BY <1>3, <2>1, SetBoundKeeps
  <2> QED  BY <1>1, <1>3, <2>2 DEF Kin
<1>5. CASE ~can
  <2>1. m = l
    BY <1>5 DEF BindHandle
  <2> HIDE DEF m
  <2> QED  BY <1>1, <1>3, <2>1
<1> QED
  BY <1>4, <1>5

\* Open() leaves a socket bound or closed.
LEMMA OpenOpens ==
  ASSUME NEW n, NEW c, NEW s \in Sockets, Good(n, c), n.sock[s].alive, NEW can \in BOOLEAN
  PROVE  LET m == Open(n, s, can)
         IN  /\ Good(m, c) /\ Kin(n, m, s) /\ m.sock[s].state \in {"CLOSED", "IDLE"}
             /\ IsOpen(m, s) => m.sock[s].bound
<1> DEFINE j == Close(n, s, can)
           k == CreateHandle(j, s)
           l == Bind(k, s, can)
           m == CloseUnlessBound(l, s, can)
<1>1. Open(n, s, can) = m
  BY DEF Open
<1>2. Opening(n, c, s)
  BY GoodOpening
<1>3. Good(j, c) /\ Kin(n, j, s) /\ j.sock[s].state = "CLOSED"
  BY <1>2, CloseCloses
<1> HIDE DEF j
<1>4. Opening(k, c, s) /\ Kin(j, k, s) /\ k.sock[s].state \in {"CLOSED", "IDLE"}
  <2>1. j.sock[s].alive
    BY <1>3 DEF Kin
  <2> QED  BY <1>3, <2>1, CreateHandleOpens
<1> HIDE DEF k
<1>5. /\ Good(l, c) \/ (l = k /\ ~IsBound(l, s))
      /\ Kin(k, l, s) /\ l.sock[s].state \in {k.sock[s].state, "CLOSED", "IDLE"}
  <2>1. k.sock[s].alive
    BY <1>3, <1>4 DEF Kin
  <2> QED  BY <1>4, <2>1, BindKeeps
<1> HIDE DEF l
<1>6. CASE IsBound(l, s)
  <2>1. m = l
    BY <1>6 DEF CloseUnlessBound
  <2> HIDE DEF m
  <2>2. Good(l, c) /\ l.sock[s].state \in {"CLOSED", "IDLE"}
    BY <1>4, <1>5, <1>6
  <2>3. Kin(n, l, s)
    BY <1>3, <1>4, <1>5 DEF Kin
  <2>4. l.sock[s].bound
    BY <1>6 DEF IsBound
  <2> QED  BY <1>1, <2>1, <2>2, <2>3, <2>4
<1>7. CASE ~IsBound(l, s)
  <2>1. m = Close(l, s, can)
    BY <1>7 DEF CloseUnlessBound
  <2>2. Opening(l, c, s)
    BY <1>4, <1>5, GoodOpening
  <2>3. Good(m, c) /\ Kin(l, m, s) /\ m.sock[s].state = "CLOSED"
    BY <2>1, <2>2, CloseCloses
  <2> HIDE DEF m
  <2> QED  BY <1>1, <1>3, <1>4, <1>5, <2>3 DEF Kin, IsOpen
<1> QED
  BY <1>6, <1>7

-----------------------------------------------------------------------------
\* Connections.

\* Members that the state does not depend on, and the dispatcher is told.
LEMMA SettingKeeps ==
  ASSUME NEW n, NEW c, NEW s \in Sockets, Good(n, c), NEW x \in [Sockets -> SocketRecords],
         \A u \in Sockets \ {s} : x[u] = n.sock[u],
         x[s].handle = n.sock[s].handle, x[s].state = n.sock[s].state, x[s].protocol = n.sock[s].protocol,
         x[s].notifier = n.sock[s].notifier, x[s].alive = n.sock[s].alive
  PROVE  LET m == UpdateNotification([n EXCEPT !.sock = x], s)
         IN  Good(m, c) /\ m.sock = x
<1> DEFINE k == [n EXCEPT !.sock = x]
           m == UpdateNotification(k, s)
<1>1. Others(n, c, s) /\ SockOk(n, s) /\ n \in Nets
  BY GoodIs DEF Others, Base
<1>2. k \in Nets /\ k.sock = x /\ k.file = n.file /\ k.disp = n.disp /\ k.told = n.told
  BY <1>1 DEF Nets
<1> HIDE DEF k
<1>3. Others(k, c, s)
  BY <1>1, <1>2, MembersChange
<1>4. Others(m, c, s) /\ WatchOk(m, s) /\ Silent(k, m)
  BY <1>3, UpdateKeeps
<1> HIDE DEF m
<1>5. m.sock = x /\ m.file = n.file
  BY <1>2, <1>4 DEF Silent
<1>6. SockOk(m, s)
  BY <1>1, <1>5 DEF SockOk
<1>7. Good(m, c) /\ m.sock = x
  BY <1>4, <1>5, <1>6, GoodIs
<1> QED
  BY <1>7 DEF m, k

\* A closed socket becomes another.
LEMMA ReplacedKeeps ==
  ASSUME NEW n, NEW c, NEW s \in Sockets, Good(n, c), n.sock[s].state = "CLOSED",
         NEW k \in SocketRecords, k.state = "CLOSED", k.handle = None
  PROVE  Good([n EXCEPT !.sock = [@ EXCEPT ![s] = k]], c)
<1> DEFINE x == [n.sock EXCEPT ![s] = k]
           m == [n EXCEPT !.sock = x]
<1>1. Others(n, c, s) /\ SockOk(n, s) /\ WatchOk(n, s) /\ n \in Nets
  BY GoodIs DEF Others, Base
<1>2. ~HasSocketStream(n.disp, s) /\ n.sock[s].handle = None
  BY <1>1, Unwatched DEF SockOk
<1>3. x \in [Sockets -> SocketRecords] /\ x[s] = k /\ \A u \in Sockets \ {s} : x[u] = n.sock[u]
  BY <1>1 DEF Nets
<1> HIDE DEF x
<1>4. m \in Nets /\ m.sock = x /\ m.file = n.file /\ m.disp = n.disp /\ m.told = n.told
  BY <1>1, <1>3 DEF Nets
<1> HIDE DEF m
<1>5. m.sock[s].handle = n.sock[s].handle
  BY <1>2, <1>3, <1>4
<1>6. Others(m, c, s)
  BY <1>1, <1>2, <1>3, <1>4, <1>5, MembersChange
<1>7. SockOk(m, s)
  BY <1>3, <1>4 DEF SockOk
<1>8. WatchOk(m, s)
  BY <1>2, <1>3, <1>4, ClosedWatch
<1>9. Good(m, c)
  BY <1>6, <1>7, <1>8, GoodIs
<1>10. m = [n EXCEPT !.sock = [@ EXCEPT ![s] = k]]
  BY DEF m, x
<1> QED
  BY <1>9, <1>10

\* A connection goes on: what has been told of its descriptor still is.
LEMMA FileMoves ==
  ASSUME NEW n, NEW c, NEW s \in Sockets, Good(n, c), n.sock[s].handle # None, n.sock[s].protocol = "TCP",
         NEW state \in FilesIn(n.sock[s].state), state # "connecting"
  PROVE  Good([n EXCEPT !.file[n.sock[s].handle] = state], c)
<1> DEFINE fd == n.sock[s].handle
           m == [n EXCEPT !.file[fd] = state]
<1>1. Base(n, c) /\ n \in Nets
  BY DEF Good, Base
<1>2. fd \in Fds
  BY <1>1 DEF Nets, SocketRecords
<1>3. state \in FileStates /\ state \in FilesOf("TCP") /\ state \notin {"free", "pipe"}
  BY DEF FilesIn, FilesOf, FileStates, Listeners, Connections
<1>4. /\ m.disp = n.disp /\ m.sock = n.sock /\ m.told = n.told /\ m \in Nets
      /\ m.file[fd] = state /\ \A f \in Fds \ {fd} : m.file[f] = n.file[f]
  BY <1>1, <1>2, <1>3 DEF Nets
<1> HIDE DEF m
<1>5. ReadyFits(m, c)
  BY <1>1, <1>4 DEF Base, ReadyFits, Serves, HandleOf
<1>6. \A u \in Sockets \ {s} : n.sock[u].handle # fd
  BY <1>1 DEF Base, Owned
<1>7. \A u \in Sockets : n.sock[u].handle # None => n.sock[u].handle \in Fds
  BY <1>1 DEF Nets, SocketRecords
<1>8. Owned(m)
  <2>1. \A u \in Sockets : m.sock[u].handle # None => m.file[m.sock[u].handle] \in FilesOf(m.sock[u].protocol)
    BY <1>1, <1>3, <1>4, <1>6, <1>7 DEF Base, Owned
  <2>2. \A f \in Fds : m.file[f] \notin {"free", "pipe"} => \E u \in Sockets : m.sock[u].handle = f
    BY <1>1, <1>4 DEF Base, Owned
  <2>3. n.file[fd] # "pipe"
    BY <1>1 DEF Base, Owned, FilesOf
  <2>4. ASSUME NEW o \in Generics, m.disp.owner[o] # None PROVE m.file[m.disp.owner[o]] = "pipe"
    <3>1. n.disp.owner[o] \in Fds /\ n.file[n.disp.owner[o]] = "pipe"
      BY <1>1, <1>4, <2>4, StreamOwner, NoneApart
    <3> QED  BY <1>4, <2>3, <3>1
  <2> QED  BY <1>1, <1>4, <2>1, <2>2, <2>4 DEF Base, Owned
<1>9. ToldFits(m)
  BY <1>1, <1>4 DEF Base, ToldFits
<1>10. ASSUME NEW u \in Sockets \ {s} PROVE SockOk(m, u) /\ WatchOk(m, u)
  <2>1. SockOk(n, u) /\ WatchOk(n, u)
    BY DEF Good
  <2>2. n.sock[u].handle # None => m.file[n.sock[u].handle] = n.file[n.sock[u].handle]
    BY <1>4, <1>6, <1>7
  <2> QED  BY <1>4, <2>1, <2>2, SocketKept
<1>11. SockOk(m, s)
  <2>1. SockOk(n, s)
    BY DEF Good
  <2> QED  BY <1>4, <2>1 DEF SockOk
<1>12. WatchOk(m, s)
  <2>1. WatchOk(n, s) /\ WantedFlags(m, s) = WantedFlags(n, s)
    BY <1>4, WantedFlagsSame DEF Good
  <2> QED  BY <1>4, <2>1 DEF WatchOk
<1>13. Good(m, c)
  BY <1>1, <1>4, <1>5, <1>8, <1>9, <1>10, <1>11, <1>12 DEF Good, Base
<1> QED
  BY <1>13 DEF m

\* bound does not matter to what a TCP socket wants.
LEMMA BoundLater ==
  ASSUME NEW n, NEW c, NEW s \in Sockets, Good(n, c), n.sock[s].protocol = "TCP" \/ n.sock[s].bound = TRUE
  PROVE  Good([n EXCEPT !.sock[s].bound = TRUE], c)
<1> DEFINE x == [n.sock EXCEPT ![s].bound = TRUE]
           m == [n EXCEPT !.sock = x]
<1>1. Others(n, c, s) /\ SockOk(n, s) /\ WatchOk(n, s) /\ n \in Nets
  BY GoodIs DEF Others, Base
<1>2. x \in [Sockets -> SocketRecords]
  <2>1. n.sock \in [Sockets -> SocketRecords]
    BY <1>1 DEF Nets
  <2> QED  BY <2>1, BoundMember
<1>3. /\ \A u \in Sockets \ {s} : x[u] = n.sock[u]
      /\ x[s].handle = n.sock[s].handle /\ x[s].state = n.sock[s].state /\ x[s].protocol = n.sock[s].protocol
      /\ x[s].notifier = n.sock[s].notifier /\ x[s].alive = n.sock[s].alive /\ x[s].bound = TRUE
      /\ x[s].listener = n.sock[s].listener /\ x[s].input = n.sock[s].input /\ x[s].output = n.sock[s].output
  BY <1>1 DEF Nets, SocketRecords
<1> HIDE DEF x
<1>4. m \in Nets /\ m.sock = x /\ m.file = n.file /\ m.disp = n.disp /\ m.told = n.told
  BY <1>1, <1>2 DEF Nets
<1> HIDE DEF m
<1>5. Others(m, c, s)
  BY <1>1, <1>3, <1>4, MembersChange
<1>6. SockOk(m, s)
  BY <1>1, <1>3, <1>4 DEF SockOk
<1>7. WantedFlags(m, s) = WantedFlags(n, s)
  BY <1>3, <1>4 DEF WantedFlags, IsTcp
<1>8. WatchOk(m, s)
  BY <1>1, <1>3, <1>4, <1>7 DEF WatchOk
<1>9. Good(m, c)
  BY <1>5, <1>6, <1>8, GoodIs
<1>10. m = [n EXCEPT !.sock[s].bound = TRUE]
  BY DEF m, x
<1> QED
  BY <1>9, <1>10

\* The call of connect() and what follows it.
LEMMA ConnectHandleKeeps ==
  ASSUME NEW n, NEW c, NEW s \in Sockets, Good(n, c), NEW outcome \in {"up", "connecting", "fails"},
         n.sock[s].protocol = "TCP" \/ (n.sock[s].bound /\ outcome # "connecting") \/ n.sock[s].state = "CLOSED"
  PROVE  Good(ConnectHandle(n, s, outcome), c)
<1> DEFINE fd == n.sock[s].handle
           b == IF IsTcp(n, s) THEN SetFile(n, fd, outcome) ELSE n
           state == IF outcome = "up" THEN "CONNECTED" ELSE "CONNECTING"
           k == Entered(b, s, state)
<1>1. Others(n, c, s) /\ SockOk(n, s) /\ WatchOk(n, s) /\ n \in Nets
  BY GoodIs DEF Others, Base
<1>2. CASE ~IsOpen(n, s) \/ outcome = "fails" \/ (IsTcp(n, s) /\ n.file[fd] # "new")
  BY <1>2 DEF ConnectHandle
<1>3. CASE ~(~IsOpen(n, s) \/ outcome = "fails" \/ (IsTcp(n, s) /\ n.file[fd] # "new"))
  <2>1. ConnectHandle(n, s, outcome) = [k EXCEPT !.sock[s].bound = TRUE]
    BY <1>3 DEF ConnectHandle
  <2>2. /\ IsOpen(n, s) /\ outcome \in {"up", "connecting"} /\ fd \in Fds /\ fd # None
        /\ n.sock[s].alive /\ state \in States
    BY <1>1, <1>3 DEF SockOk, IsOpen, Nets, SocketRecords, States
  <2>3. state # "CLOSED" /\ state \in {"CONNECTED", "CONNECTING"}
    OBVIOUS
  <2>4. /\ Others(b, c, s) /\ b.sock = n.sock
        /\ n.sock[s].protocol = "TCP" => b.file[fd] = outcome
    <3>1. CASE IsTcp(n, s)
      <4>1. n.sock[s].state = "IDLE"
        BY <1>1, <1>3, <3>1, <2>2 DEF SockOk, IsTcp, IsOpen, FilesIn, Listeners, Connections, Nets, SocketRecords, States
      <4>2. ~HasSocketStream(n.disp, s)
        BY <1>1, <3>1, <4>1, Unwatched DEF IsTcp
      <4>3. Base(n, c)
        BY DEF Good
      <4>4. fd \notin n.disp.input /\ fd \notin n.disp.output
        BY <2>2, <4>2, <4>3, Unheard
      <4>5. outcome \in FilesOf(n.sock[s].protocol)
        BY <2>2, <3>1 DEF IsTcp, FilesOf, FileStates, Connections
      <4>6. b = SetFile(n, fd, outcome)
        BY <3>1
      <4> HIDE DEF b
      <4>7. Others(b, c, s) /\ b.sock = n.sock /\ b.file = [n.file EXCEPT ![fd] = outcome]
        BY <1>1, <2>2, <4>4, <4>5, <4>6, FileChanges
      <4> QED  BY <1>1, <2>2, <4>7 DEF Nets
    <3>2. CASE ~IsTcp(n, s)
      BY <1>1, <3>2 DEF IsTcp
    <3> QED  BY <3>1, <3>2
  <2> HIDE DEF b
  <2>5. /\ Others(k, c, s) /\ WatchOk(k, s) /\ Follows(b, k, s)
        /\ k.sock[s].state = state /\ k.sock[s].bound = b.sock[s].bound
    BY <2>2, <2>4, EnteredKeeps
  <2> HIDE DEF k
  <2>6. /\ k.sock[s].handle = fd /\ k.sock[s].protocol = n.sock[s].protocol /\ k.sock[s].alive
        /\ k.sock[s].bound = n.sock[s].bound /\ k.file = b.file
    BY <2>2, <2>4, <2>5 DEF Follows, Kin
  <2>7. n.sock[s].protocol # "TCP" => n.sock[s].bound = TRUE /\ outcome = "up" /\ n.sock[s].protocol = "UDP"
    BY <1>1, <2>2 DEF IsOpen, Nets, SocketRecords
  <2>8. SockOk(k, s)
    BY <2>2, <2>3, <2>4, <2>5, <2>6, <2>7 DEF SockOk, FilesIn, Connections
  <2>9. Good(k, c)
    BY <2>5, <2>8, GoodIs
  <2>10. k.sock[s].protocol = "TCP" \/ k.sock[s].bound = TRUE
    BY <2>6, <2>7
  <2>11. Good([k EXCEPT !.sock[s].bound = TRUE], c)
    BY <2>9, <2>10, BoundLater
  <2> QED  BY <2>1, <2>11
<1> QED
  BY <1>2, <1>3

\* Connect(), with the Open() it may begin with.
LEMMA ConnectKeeps ==
  ASSUME NEW n, NEW c, NEW s \in Sockets, Good(n, c), n.sock[s].alive, NEW can \in BOOLEAN,
         NEW outcome \in {"up", "connecting", "fails"}, outcome = "connecting" => IsTcp(n, s),
         IsTcp(n, s) \/ IsBound(n, s) \/ ~IsOpen(n, s)
  PROVE  Good(Connect(n, s, can, outcome), c)
<1> DEFINE k == IF IsConnected(n, s) THEN Disconnect(n, s, can) ELSE n
           l == OpenForConnect(k, s, can)
<1>1. Connect(n, s, can, outcome) = ConnectHandle(l, s, outcome)
  BY DEF Connect
<1>2. n \in Nets /\ (n.sock[s].protocol = "TCP" <=> IsTcp(n, s)) /\ n.sock[s].protocol \in {"TCP", "UDP"}
  BY DEF Good, Base, Nets, SocketRecords, IsTcp
<1>3. /\ Good(k, c) /\ Kin(n, k, s)
      /\ n.sock[s].protocol = "TCP" \/ k.sock[s].bound \/ k.sock[s].state = "CLOSED"
  <2>1. CASE IsConnected(n, s)
    <3>1. k = Disconnect(n, s, can)
      BY <2>1
    <3>2. IsTcp(n, s) \/ n.sock[s].bound
      BY <2>1 DEF IsConnected, IsOpen, IsBound
    <3>3. /\ Good(k, c) /\ Kin(n, k, s)
          /\ n.sock[s].bound /\ n.sock[s].protocol = "UDP" => k.sock[s].bound
      BY <3>1, DisconnectKeeps
    <3> QED  BY <1>2, <3>2, <3>3
  <2>2. CASE ~IsConnected(n, s)
    BY <1>2, <2>2 DEF Kin, IsBound, IsOpen
  <2> QED  BY <2>1, <2>2
<1> HIDE DEF k
<1>4. /\ Good(l, c) /\ Kin(k, l, s)
      /\ n.sock[s].protocol = "TCP" \/ l.sock[s].bound \/ l.sock[s].state = "CLOSED"
  <2>1. CASE IsOpen(k, s)
    BY <1>3, <2>1 DEF OpenForConnect, Kin
  <2>2. CASE ~IsOpen(k, s)
    <3>1. l = Open(k, s, can)
      BY <2>2 DEF OpenForConnect
    <3>2. k.sock[s].alive
      BY <1>3 DEF Kin
    <3> HIDE DEF l
    <3>3. Good(l, c) /\ Kin(k, l, s) /\ (IsOpen(l, s) => l.sock[s].bound)
      BY <1>3, <3>1, <3>2, OpenOpens
    <3> QED  BY <3>3 DEF IsOpen
  <2> QED  BY <2>1, <2>2
<1> HIDE DEF l
<1>5. l.sock[s].protocol = n.sock[s].protocol
  BY <1>3, <1>4 DEF Kin
<1>6. l.sock[s].protocol = "TCP" \/ (l.sock[s].bound /\ outcome # "connecting") \/ l.sock[s].state = "CLOSED"
  BY <1>2, <1>4, <1>5
<1> QED
  BY <1>1, <1>4, <1>6, ConnectHandleKeeps

\* Listen() of a socket that is not connected or connecting.
LEMMA ListenKeeps ==
  ASSUME NEW n, NEW c, NEW s \in Sockets, Good(n, c), n.sock[s].alive, NEW can \in BOOLEAN,
         n.sock[s].state \notin {"CONNECTING", "CONNECTED"}
  PROVE  Good(Listen(n, s, can), c)
<1> DEFINE l == IF IsBound(n, s) THEN n ELSE Bind(n, s, can)
           fd == l.sock[s].handle
           k == Entered(l, s, "LISTENING")
           m == SetListening(k, s)
<1>1. Good(l, c) /\ l.sock[s].state \notin {"CONNECTING", "CONNECTED"}
  <2>1. CASE IsBound(n, s)
    BY <2>1
  <2>2. CASE ~IsBound(n, s)
    <3>1. l = Bind(n, s, can)
      BY <2>2
    <3> HIDE DEF l
    <3>2. Opening(n, c, s)
      BY GoodOpening
    <3>3. /\ Good(l, c) \/ (l = n /\ ~IsBound(l, s))
          /\ l.sock[s].state \in {n.sock[s].state, "CLOSED", "IDLE"}
      BY <3>1, <3>2, BindKeeps
    <3> QED  BY <3>3
  <2> QED  BY <2>1, <2>2
<1>2. Listen(n, s, can) = ListenHandle(l, s)
  BY DEF Listen
<1> HIDE DEF l
<1>3. CASE ~IsTcp(l, s) \/ ~IsBound(l, s)
  BY <1>1, <1>2, <1>3 DEF ListenHandle
<1>4. CASE IsTcp(l, s) /\ IsBound(l, s)
  <2>1. Listen(n, s, can) = m
    BY <1>2, <1>4 DEF ListenHandle
  <2>2. Others(l, c, s) /\ SockOk(l, s) /\ WatchOk(l, s) /\ l \in Nets /\ Base(l, c)
    BY <1>1, GoodIs DEF Others, Base
  <2>3. /\ fd \in Fds /\ fd # None /\ l.sock[s].alive /\ l.sock[s].protocol = "TCP"
        /\ l.sock[s].state \in {"IDLE", "LISTENING"} /\ l.file[fd] \in FilesIn(l.sock[s].state)
    BY <1>1, <1>4, <2>2, NoneApart DEF SockOk, IsTcp, IsBound, IsOpen, Nets, SocketRecords, States
  <2>4. /\ Others(k, c, s) /\ WatchOk(k, s) /\ Follows(l, k, s) /\ k.sock[s].state = "LISTENING"
    BY <2>2, EnteredKeeps DEF States
  <2> HIDE DEF k
  <2>5. /\ k.sock[s].handle = fd /\ k.sock[s].protocol = "TCP" /\ k.sock[s].alive /\ k.file = l.file
    BY <2>3, <2>4 DEF Follows, Kin
  <2>6. CASE l.file[fd] = "new"
    <3>1. l.sock[s].state = "IDLE"
      BY <2>3, <2>6 DEF FilesIn, Listeners
    <3>2. ~HasSocketStream(l.disp, s)
      BY <2>2, <2>3, <3>1, Unwatched
    <3>3. fd \notin l.disp.input /\ fd \notin l.disp.output
      BY <2>2, <2>3, <3>2, Unheard
    <3>4. fd \notin k.disp.input /\ fd \notin k.disp.output
      BY <2>4, <3>3 DEF Follows
    <3>5. m = SetFile(k, fd, "listening")
      BY <2>5, <2>6 DEF SetListening
    <3> HIDE DEF m
    <3>6. "listening" \in FilesOf(k.sock[s].protocol)
      BY <2>5 DEF FilesOf, FileStates, Listeners
    <3>7. Others(m, c, s) /\ m.disp = k.disp /\ m.sock = k.sock /\ m.file = [k.file EXCEPT ![fd] = "listening"]
      BY <2>3, <2>4, <2>5, <3>4, <3>5, <3>6, FileChanges
    <3>8. m.file[fd] = "listening"
      BY <2>2, <2>3, <2>5, <3>7 DEF Nets
    <3>9. SockOk(m, s)
      BY <2>3, <2>4, <2>5, <3>7, <3>8 DEF SockOk, FilesIn, Listeners
    <3>10. WatchOk(m, s)
      <4>1. WantedFlags(m, s) = WantedFlags(k, s)
        BY <3>7, WantedFlagsSame
      <4> QED  BY <2>4, <3>7, <4>1 DEF WatchOk
    <3> QED  BY <2>1, <3>7, <3>9, <3>10, GoodIs
  <2>7. CASE l.file[fd] # "new"
    <3>1. m = k
      BY <2>5, <2>7 DEF SetListening
    <3>2. l.file[fd] \in Listeners
      BY <2>3, <2>7 DEF FilesIn
    <3>3. SockOk(k, s)
      BY <2>3, <2>4, <2>5, <3>2 DEF SockOk, FilesIn
    <3> QED  BY <2>1, <2>4, <3>1, <3>3, GoodIs
  <2> QED  BY <2>6, <2>7
<1> QED
  BY <1>3, <1>4

\* Entered() is a matter of the sockets and the dispatcher.
LEMMA EnteredIs ==
  ASSUME NEW n \in Nets, NEW m \in Nets, m.sock = n.sock, m.disp = n.disp, NEW s, NEW state
  PROVE  /\ Entered(m, s, state).sock = Entered(n, s, state).sock
         /\ Entered(m, s, state).disp = Entered(n, s, state).disp
         /\ Entered(m, s, state).file = m.file /\ Entered(m, s, state).told = m.told
<1> DEFINE k(l) == SetState(l, s, state)
           U(l) == UpdateSocketNotification(l.disp, s, l.sock[s].handle, WantedFlags(l, s))
<1>1. ASSUME NEW l \in Nets
      PROVE  /\ k(l).sock = [l.sock EXCEPT ![s].state = state]
             /\ k(l).disp = l.disp /\ k(l).file = l.file /\ k(l).told = l.told
             /\ DOMAIN k(l) = {"sock", "file", "disp", "told"}
  BY DEF Nets, SetState
<1>2. ASSUME NEW l \in Nets
      PROVE  /\ Entered(l, s, state).sock = k(l).sock
             /\ Entered(l, s, state).disp = IF k(l).sock[s].notifier THEN U(k(l)) ELSE k(l).disp
             /\ Entered(l, s, state).file = k(l).file /\ Entered(l, s, state).told = k(l).told
  <2>1. Entered(l, s, state) = UpdateNotification(k(l), s)
    BY DEF Entered
  <2>2. DOMAIN k(l) = {"sock", "file", "disp", "told"}
    BY <1>1
  <2> HIDE DEF k
  <2>3. CASE ~k(l).sock[s].notifier
    BY <2>1, <2>3 DEF UpdateNotification
  <2>4. CASE k(l).sock[s].notifier
    <3>1. UpdateNotification(k(l), s) = [k(l) EXCEPT !.disp = U(k(l))]
      BY <2>4 DEF UpdateNotification
    <3> HIDE DEF U
    <3> QED  BY <2>1, <2>2, <2>4, <3>1
  <2> QED  BY <2>3, <2>4
<1>3. k(m).sock = k(n).sock /\ k(m).disp = k(n).disp
  <2>1. k(m).sock = [m.sock EXCEPT ![s].state = state] /\ k(m).disp = m.disp
    BY <1>1
  <2>2. k(n).sock = [n.sock EXCEPT ![s].state = state] /\ k(n).disp = n.disp
    BY <1>1
  <2> HIDE DEF k
  <2> QED  BY <2>1, <2>2
<1>4. U(k(m)) = U(k(n))
  <2>1. WantedFlags(k(m), s) = WantedFlags(k(n), s)
    BY <1>3, WantedFlagsSame
  <2> HIDE DEF k
  <2> QED  BY <1>3, <2>1
<1>5. k(m).file = m.file /\ k(m).told = m.told
  BY <1>1
<1> HIDE DEF k, U
<1> QED
  BY <1>2, <1>3, <1>4, <1>5

\* net by its fields.
Net(sock, file, disp, told) == [sock |-> sock, file |-> file, disp |-> disp, told |-> told]

\* Every net is made of its fields,
LEMMA NetIs == ASSUME NEW n \in Nets PROVE n = Net(n.sock, n.file, n.disp, n.told)
  BY DEF Nets, Net

\* which are these,
LEMMA NetFields ==
  ASSUME NEW sock, NEW file, NEW disp, NEW told
  PROVE  /\ Net(sock, file, disp, told).sock = sock /\ Net(sock, file, disp, told).file = file
         /\ Net(sock, file, disp, told).disp = disp /\ Net(sock, file, disp, told).told = told
  BY DEF Net

\* and a new file forgets what was told of its descriptor.
LEMMA NetFile ==
  ASSUME NEW sock, NEW file, NEW disp, NEW told, NEW fd, NEW state
  PROVE  SetFile(Net(sock, file, disp, told), fd, state) =
           Net(sock, [file EXCEPT ![fd] = state], disp, {t \in told : t[1] # fd})
<1> DEFINE f == [file EXCEPT ![fd] = state]
           w == {t \in told : t[1] # fd}
           n == Net(sock, file, disp, told)
           m == SetFile(n, fd, state)
<1>1. n \in [sock : {sock}, file : {file}, disp : {disp}, told : {told}]
  BY DEF Net
<1>2. n.file = file /\ n.told = told
  BY NetFields
<1> HIDE DEF n
<1>3. m \in [sock : {sock}, file : {f}, disp : {disp}, told : {w}]
  <2>1. m = [[n EXCEPT !.file = f] EXCEPT !.told = w]
    BY <1>1, <1>2 DEF SetFile
  <2> HIDE DEF m, f, w
  <2> DEFINE l == [n EXCEPT !.file = f]
  <2>2. l \in [sock : {sock}, file : {f}, disp : {disp}, told : {told}]
    BY <1>1
  <2>3. m = [l EXCEPT !.told = w]
    BY <2>1
  <2> HIDE DEF l
  <2> QED  BY <2>2, <2>3
<1> HIDE DEF m, f, w
<1>4. m = Net(sock, f, disp, w)
  BY <1>3 DEF Net
<1> QED
  BY <1>4 DEF m, f, w, n

\* What a server has accepted is taken by one descriptor more.
LEMMA PendingIsListening ==
  ASSUME NEW n, NEW c, NEW s \in Sockets, Good(n, c), IsTcp(n, s),
         n.sock[s].handle # None, n.file[n.sock[s].handle] = "pending"
  PROVE  /\ n.sock[s].state = "LISTENING" /\ n.sock[s].alive /\ n.sock[s].handle \in Fds
         /\ Good([n EXCEPT !.file[n.sock[s].handle] = "listening"], c)
<1>1. SockOk(n, s) /\ n \in Nets
  BY DEF Good, Base
<1>2. n.sock[s].state = "LISTENING" /\ n.sock[s].alive /\ n.sock[s].handle \in Fds
  BY <1>1 DEF SockOk, IsTcp, FilesIn, Connections, Nets, SocketRecords, States
<1>3. "listening" \in FilesIn(n.sock[s].state)
  BY <1>2 DEF FilesIn, Listeners
<1>4. n.sock[s].protocol = "TCP"
  BY DEF IsTcp
<1> QED
  BY <1>2, <1>3, <1>4, FileMoves

\* Accept() into another socket, which is closed.
LEMMA AcceptOther ==
  ASSUME NEW n, NEW c, NEW s \in Sockets, Good(n, c), IsTcp(n, s), NEW t \in Sockets, t # s,
         n.sock[s].handle # None, FreeFds(n) # {}, n.file[n.sock[s].handle] = "pending",
         n.sock[t].state = "CLOSED"
  PROVE  Good(Accept(n, s, t), c)
<1> DEFINE fd == NextFd(n)
           h == n.sock[s].handle
           a == [n EXCEPT !.file[h] = "listening"]
           clone == [n EXCEPT !.sock[t] = [n.sock[s] EXCEPT !.listener = FALSE]]
           open == [clone EXCEPT !.file[h] = "listening"]
           taken == SetFile(open, fd, "up")
           ready == [taken EXCEPT !.sock[t].listener = n.sock[s].listener]
           r == [ready EXCEPT !.sock[t].handle = fd]
           m == Entered(r, t, "CONNECTED")
<1>1. Accept(n, s, t) = m
  BY DEF Accept
<1>2. n.sock[s].state = "LISTENING" /\ n.sock[s].alive /\ h \in Fds /\ Good(a, c)
  BY PendingIsListening
<1>3. fd \in Fds /\ n.file[fd] = "free" /\ fd # h /\ fd # None
  BY NextFdIsFree, NoneApart
<1> HIDE DEF fd, h
<1>4. n \in Nets /\ n.sock[s] \in SocketRecords /\ n.sock[s].protocol = "TCP"
  BY DEF Good, Base, Nets, IsTcp
<1>5. a \in Nets /\ a.sock = n.sock /\ a.disp = n.disp /\ a.told = n.told /\ a.file = [n.file EXCEPT ![h] = "listening"]
  BY <1>2, <1>4 DEF Nets, Good, Base
<1>6. a.file[fd] = "free"
  BY <1>3, <1>4, <1>5 DEF Nets
<1> DEFINE k == [n.sock[s] EXCEPT !.listener = FALSE]
           k2 == [k EXCEPT !.listener = n.sock[s].listener]
           k3 == [k2 EXCEPT !.handle = fd]
<1>7. /\ k3 \in SocketRecords /\ k3.handle = fd /\ k3.protocol = "TCP" /\ k3.alive
  BY <1>2, <1>3, <1>4 DEF SocketRecords
<1>8. r = Net([n.sock EXCEPT ![t] = k3], [a.file EXCEPT ![fd] = "up"], n.disp, {w \in n.told : w[1] # fd})
  <2> HIDE DEF a
  <2>1. clone = Net([n.sock EXCEPT ![t] = k], n.file, n.disp, n.told)
    <3>1. n = Net(n.sock, n.file, n.disp, n.told)
      BY <1>4, NetIs
    <3> HIDE DEF k
    <3>2. [Net(n.sock, n.file, n.disp, n.told) EXCEPT !.sock[t] = k] =
            Net([n.sock EXCEPT ![t] = k], n.file, n.disp, n.told)
      BY DEF Net
    <3> QED  BY <3>1, <3>2 DEF k
  <2> HIDE DEF clone, k
  <2>2. open = Net([n.sock EXCEPT ![t] = k], a.file, n.disp, n.told)
    <3> DEFINE x == [n.sock EXCEPT ![t] = k]
    <3>1. clone = Net(x, n.file, n.disp, n.told)
      BY <2>1
    <3> HIDE DEF x
    <3>2. [Net(x, n.file, n.disp, n.told) EXCEPT !.file[h] = "listening"] =
            Net(x, [n.file EXCEPT ![h] = "listening"], n.disp, n.told)
      BY DEF Net
    <3> QED  BY <1>5, <3>1, <3>2 DEF x
  <2> HIDE DEF open
  <2>3. taken = Net([n.sock EXCEPT ![t] = k], [a.file EXCEPT ![fd] = "up"], n.disp, {w \in n.told : w[1] # fd})
    BY <2>2, NetFile
  <2> HIDE DEF taken
  <2> DEFINE x == [n.sock EXCEPT ![t] = k]
             f == [a.file EXCEPT ![fd] = "up"]
             w == {v \in n.told : v[1] # fd}
             listener == n.sock[s].listener
  <2>4. [x EXCEPT ![t].listener = listener] = [n.sock EXCEPT ![t] = k2]
    BY <1>4 DEF Nets
  <2>5. [[n.sock EXCEPT ![t] = k2] EXCEPT ![t].handle = fd] = [n.sock EXCEPT ![t] = k3]
    <3> HIDE DEF k2
    <3> QED  BY <1>4 DEF Nets
  <2>6. taken = Net(x, f, n.disp, w)
    BY <2>3
  <2> HIDE DEF x, f, w, listener, k2, k3
  <2>7. ready = Net([n.sock EXCEPT ![t] = k2], f, n.disp, w)
    <3>1. [Net(x, f, n.disp, w) EXCEPT !.sock[t].listener = listener] =
            Net([x EXCEPT ![t].listener = listener], f, n.disp, w)
      BY DEF Net
    <3>2. ready = [taken EXCEPT !.sock[t].listener = listener]
      BY DEF listener
    <3> HIDE DEF ready
    <3> QED  BY <2>4, <2>6, <3>1, <3>2
  <2> HIDE DEF ready
  <2>8. r = Net([n.sock EXCEPT ![t] = k3], f, n.disp, w)
    <3> DEFINE y == [n.sock EXCEPT ![t] = k2]
    <3>1. ready = Net(y, f, n.disp, w) /\ [n.sock EXCEPT ![t] = k3] = [y EXCEPT ![t].handle = fd]
      BY <2>5, <2>7
    <3> HIDE DEF y
    <3>2. [Net(y, f, n.disp, w) EXCEPT !.sock[t].handle = fd] = Net([y EXCEPT ![t].handle = fd], f, n.disp, w)
      BY DEF Net
    <3> QED  BY <3>1, <3>2
  <2> QED  BY <2>8 DEF f, w
<1> HIDE DEF r, k3, a
<1>81. /\ r.sock = [n.sock EXCEPT ![t] = k3] /\ r.file = [a.file EXCEPT ![fd] = "up"]
       /\ r.disp = n.disp /\ r.told = {w \in n.told : w[1] # fd}
  <2> DEFINE x == [n.sock EXCEPT ![t] = k3]
             f == [a.file EXCEPT ![fd] = "up"]
             w == {v \in n.told : v[1] # fd}
  <2>1. r = Net(x, f, n.disp, w)
    BY <1>8
  <2> HIDE DEF x, f, w
  <2>2. r.sock = x /\ r.file = f /\ r.disp = n.disp /\ r.told = w
    BY <2>1, NetFields
  <2> QED  BY <2>2 DEF x, f, w
<1>9. r \in Nets
  <2>1. r.sock \in [Sockets -> SocketRecords]
    BY <1>4, <1>7, <1>81 DEF Nets
  <2>2. r.file \in [Fds -> FileStates] /\ r.told \in SUBSET (Fds \X Directions) /\ r.disp \in Dispatchers
    <3>1. "up" \in FileStates /\ a.file \in [Fds -> FileStates]
      BY <1>5 DEF Nets, FileStates, Connections
    <3>2. n.told \in SUBSET (Fds \X Directions) /\ n.disp \in Dispatchers
      BY <1>4 DEF Nets
    <3>3. r.file \in [Fds -> FileStates]
      BY <1>81, <3>1
    <3>4. r.told \subseteq n.told /\ r.disp = n.disp
      BY <1>81
    <3> QED  BY <3>2, <3>3, <3>4
  <2> QED  BY <1>8, <1>81, <2>1, <2>2 DEF Nets, Net
<1>10. Others(a, c, t) /\ ~HasSocketStream(a.disp, t) /\ a.sock[t].handle = None
  <2>1. Others(a, c, t) /\ SockOk(a, t) /\ WatchOk(a, t)
    BY <1>2, GoodIs
  <2> QED  BY <1>5, <2>1, Unwatched DEF SockOk
<1>11. Others(r, c, t)
  <2>1. /\ \A u \in Sockets \ {t} : r.sock[u] = a.sock[u]
        /\ r.sock[t].handle = fd /\ r.disp = a.disp
    BY <1>4, <1>5, <1>7, <1>81 DEF Nets
  <2> DEFINE up == "up"
  <2>2. up \in FilesOf(r.sock[t].protocol)
    BY <1>4, <1>7, <1>81 DEF FilesOf, FileStates, Connections, Nets
  <2>3. \A w : w \in r.told <=> w \in a.told /\ w[1] # fd
    BY <1>5, <1>81
  <2>4. r.file = [a.file EXCEPT ![fd] = up]
    BY <1>81
  <2> HIDE DEF up
  <2>5. Takes(a, r, t, fd, up)
    BY <1>3, <1>6, <1>9, <1>10, <2>1, <2>2, <2>3, <2>4 DEF Takes
  <2> QED  BY <1>10, <2>5, HandleTaken
<1>12. Others(m, c, t) /\ WatchOk(m, t) /\ Follows(r, m, t) /\ m.sock[t].state = "CONNECTED"
  BY <1>11, EnteredKeeps DEF States
<1> HIDE DEF m
<1>13. SockOk(m, t)
  <2>1. r.sock[t] = k3 /\ r.file[fd] = "up"
    BY <1>3, <1>4, <1>5, <1>81 DEF Nets
  <2>2. m.sock[t].handle = fd /\ m.sock[t].protocol = "TCP" /\ m.sock[t].alive /\ m.file[fd] = "up"
    BY <1>7, <1>12, <2>1 DEF Follows, Kin
  <2> QED  BY <1>3, <1>12, <2>2 DEF SockOk, FilesIn, Connections
<1> QED
  BY <1>1, <1>12, <1>13, GoodIs

\* The server itself takes the connection.
LEMMA AcceptSelf ==
  ASSUME NEW n, NEW c, NEW s \in Sockets, Good(n, c), IsTcp(n, s),
         n.sock[s].handle # None, FreeFds(n) # {}, n.file[n.sock[s].handle] = "pending"
  PROVE  Good(Accept(n, s, s), c)
<1> DEFINE fd == NextFd(n)
           h == n.sock[s].handle
           a == [n EXCEPT !.file[h] = "listening"]
           taken == SetFile(a, fd, "up")
           x == Entered(taken, s, "CLOSED")
           y == Entered(a, s, "CLOSED")
           ready == CloseHandle(x, s)
           z == CloseHandle(y, s)
           r == [ready EXCEPT !.sock[s].handle = fd]
           m == Entered(r, s, "CONNECTED")
<1>1. Accept(n, s, s) = m
  BY DEF Accept
<1>2. n.sock[s].alive /\ h \in Fds /\ Good(a, c)
  BY PendingIsListening
<1>3. fd \in Fds /\ n.file[fd] = "free" /\ fd # h /\ fd # None /\ h # None
  BY NextFdIsFree, NoneApart
<1> HIDE DEF fd, h
<1>4. n \in Nets /\ n.sock[s] \in SocketRecords /\ n.sock[s].protocol = "TCP"
  BY DEF Good, Base, Nets, IsTcp
<1>5. a \in Nets /\ a.sock = n.sock /\ a.disp = n.disp /\ a.told = n.told /\ a.file = [n.file EXCEPT ![h] = "listening"]
  BY <1>2, <1>4 DEF Nets, Good, Base
<1>6. a.file[fd] = "free"
  BY <1>3, <1>4, <1>5 DEF Nets
<1> HIDE DEF a
<1>7. /\ taken.disp = a.disp /\ taken.sock = a.sock /\ taken.told = {w \in a.told : w[1] # fd}
      /\ taken.file = [a.file EXCEPT ![fd] = "up"] /\ taken \in Nets
  BY <1>3, <1>5 DEF SetFile, Nets, FileStates, Connections
<1> HIDE DEF taken
<1>8. /\ x.sock = y.sock /\ x.disp = y.disp /\ x.file = taken.file /\ x.told = taken.told
      /\ y.file = a.file /\ y.told = a.told
  BY <1>5, <1>7, EnteredIs
<1>9. /\ Others(y, c, s) /\ WatchOk(y, s) /\ Follows(a, y, s) /\ y.sock[s].state = "CLOSED"
  <2>1. Others(a, c, s)
    BY <1>2, GoodIs
  <2> QED  BY <2>1, EnteredKeeps DEF States
<1> HIDE DEF x, y
<1>10. ~HasSocketStream(y.disp, s) /\ y \in Nets
  BY <1>9, Unwatched DEF Others, Base
<1>11. y.sock[s].handle = h /\ y.sock[s].protocol = "TCP" /\ y.sock[s].alive
  BY <1>2, <1>4, <1>5, <1>9 DEF Follows, Kin, h
<1>12. Others(z, c, s) /\ Kin(y, z, s) /\ z.disp = y.disp /\ z.sock[s].handle = None
  BY <1>9, <1>10, CloseHandleKeeps
<1>13. /\ z.sock = [y.sock EXCEPT ![s].handle = None] /\ z.file = [a.file EXCEPT ![h] = "free"]
       /\ z.told = {w \in a.told : w[1] # h}
  BY <1>3, <1>8, <1>10, <1>11 DEF CloseHandle, SetFile, Nets
<1> HIDE DEF z
<1>14. z \in Nets
  BY <1>12 DEF Others, Base
<1>15. /\ r.sock = [z.sock EXCEPT ![s].handle = fd] /\ r.disp = z.disp
       /\ r.file = [z.file EXCEPT ![fd] = "up"]
       /\ \A w : w \in r.told <=> w \in z.told /\ w[1] # fd
       /\ r = [sock |-> r.sock, file |-> r.file, disp |-> r.disp, told |-> r.told]
  <2>1. x.sock[s].handle = h
    BY <1>8, <1>11
  <2>2. /\ DOMAIN x = {"sock", "file", "disp", "told"}
        /\ x = [sock |-> x.sock, file |-> x.file, disp |-> x.disp, told |-> x.told]
    <3>1. DOMAIN taken = {"sock", "file", "disp", "told"}
      BY <1>7 DEF Nets
    <3> QED  BY <3>1 DEF x, Entered, UpdateNotification, SetState
  <2>3. ready = [SetFile(x, h, "free") EXCEPT !.sock[s].handle = None]
    BY <1>3, <2>1 DEF CloseHandle
  <2>4. /\ ready.sock = [y.sock EXCEPT ![s].handle = None] /\ ready.disp = y.disp
        /\ ready.file = [taken.file EXCEPT ![h] = "free"] /\ ready.told = {w \in taken.told : w[1] # h}
        /\ ready = [sock |-> ready.sock, file |-> ready.file, disp |-> ready.disp, told |-> ready.told]
    <3> HIDE DEF ready
    <3> QED  BY <1>8, <2>2, <2>3 DEF SetFile
  <2> HIDE DEF ready
  <2>5. /\ r.sock = [ready.sock EXCEPT ![s].handle = fd] /\ r.disp = ready.disp
        /\ r.file = ready.file /\ r.told = ready.told
        /\ r = [sock |-> r.sock, file |-> r.file, disp |-> r.disp, told |-> r.told]
    BY <2>4
  <2>6. ready.file = [z.file EXCEPT ![fd] = "up"]
    BY <1>3, <1>5, <1>7, <1>13, <2>4 DEF Nets
  <2>7. \A w : w \in ready.told <=> w \in z.told /\ w[1] # fd
    BY <1>7, <1>13, <2>4
  <2>8. ready.sock = z.sock /\ ready.disp = z.disp
    BY <1>12, <1>13, <2>4
  <2> HIDE DEF r
  <2> QED  BY <2>5, <2>6, <2>7, <2>8
<1> HIDE DEF r
<1>16. r \in Nets
  <2>1. r.sock \in [Sockets -> SocketRecords]
    BY <1>3, <1>14, <1>15 DEF Nets, SocketRecords
  <2>2. r.file \in [Fds -> FileStates] /\ r.told \in SUBSET (Fds \X Directions) /\ r.disp \in Dispatchers
    <3>1. "up" \in FileStates
      BY DEF FileStates, Connections
    <3>2. /\ z.file \in [Fds -> FileStates] /\ z.told \in SUBSET (Fds \X Directions)
          /\ z.disp \in Dispatchers
      BY <1>14 DEF Nets
    <3>3. r.file \in [Fds -> FileStates]
      BY <1>15, <3>1, <3>2
    <3>4. r.told \subseteq z.told /\ r.disp = z.disp
      BY <1>15
    <3> QED  BY <3>2, <3>3, <3>4
  <2> QED  BY <1>15, <2>1, <2>2 DEF Nets
<1>17. /\ \A u \in Sockets \ {s} : r.sock[u] = z.sock[u]
       /\ r.sock[s].handle = fd /\ r.sock[s].protocol = "TCP" /\ r.sock[s].alive
  <2>1. z.sock[s].protocol = "TCP" /\ z.sock[s].alive
    BY <1>11, <1>12 DEF Kin
  <2> QED  BY <1>14, <1>15, <2>1 DEF Nets, SocketRecords
<1>18. Others(r, c, s)
  <2>1. ~HasSocketStream(z.disp, s) /\ z.file[fd] = "free"
    BY <1>3, <1>5, <1>6, <1>10, <1>12, <1>13 DEF Nets
  <2> DEFINE up == "up"
  <2>2. up \in FilesOf(r.sock[s].protocol)
    BY <1>17 DEF FilesOf, FileStates, Connections
  <2>3. \A u \in Sockets \ {s} : r.sock[u] = z.sock[u]
    BY <1>17
  <2>4. r.file = [z.file EXCEPT ![fd] = up] /\ r.disp = z.disp /\ r.sock[s].handle = fd
    BY <1>15, <1>17
  <2>5. \A w : w \in r.told <=> w \in z.told /\ w[1] # fd
    BY <1>15
  <2> HIDE DEF up
  <2>6. Takes(z, r, s, fd, up)
    BY <1>3, <1>12, <1>16, <2>1, <2>2, <2>3, <2>4, <2>5 DEF Takes
  <2> QED  BY <1>12, <2>6, HandleTaken
<1>19. Others(m, c, s) /\ WatchOk(m, s) /\ Follows(r, m, s) /\ m.sock[s].state = "CONNECTED"
  BY <1>18, EnteredKeeps DEF States
<1> HIDE DEF m
<1>20. SockOk(m, s)
  <2>1. r.file[fd] = "up"
    BY <1>3, <1>14, <1>15 DEF Nets
  <2>2. m.sock[s].handle = fd /\ m.sock[s].protocol = "TCP" /\ m.sock[s].alive /\ m.file[fd] = "up"
    BY <1>17, <1>19, <2>1 DEF Follows, Kin
  <2> QED  BY <1>3, <1>19, <2>2 DEF SockOk, FilesIn, Connections
<1> QED
  BY <1>1, <1>19, <1>20, GoodIs

\* Accept(), in either case and when it fails.
LEMMA AcceptKeeps ==
  ASSUME NEW n, NEW c, NEW s \in Sockets, Good(n, c), n.sock[s].alive, IsTcp(n, s), NEW t \in Sockets,
         t = s \/ n.sock[t].state = "CLOSED"
  PROVE  Good(Accept(n, s, t), c)
<1> DEFINE fails == n.sock[s].handle = None \/ FreeFds(n) = {} \/ n.file[n.sock[s].handle] # "pending"
<1>1. CASE ~fails
  BY <1>1, AcceptOther, AcceptSelf
<1>2. CASE fails /\ t = s
  BY <1>2 DEF Accept
<1>3. CASE fails /\ t # s
  <2> DEFINE clone == [n EXCEPT !.sock[t] = [n.sock[s] EXCEPT !.listener = FALSE]]
             k == [n.sock[s] EXCEPT !.listener = FALSE]
             k2 == [k EXCEPT !.handle = None]
             k3 == [k2 EXCEPT !.state = "CLOSED"]
             m == [clone EXCEPT !.sock[t].handle = None, !.sock[t].state = "CLOSED"]
  <2>1. Accept(n, s, t) = m
    BY <1>3 DEF Accept
  <2>2. n \in Nets /\ n.sock[s] \in SocketRecords
    BY DEF Good, Base, Nets
  <2>3. m = [n EXCEPT !.sock = [@ EXCEPT ![t] = k3]]
    <3>1. clone = [n EXCEPT !.sock = [@ EXCEPT ![t] = k]]
      OBVIOUS
    <3>2. /\ clone.sock = [n.sock EXCEPT ![t] = k]
            /\ clone \in [{"sock", "file", "disp", "told"} -> {clone.sock, clone.file, clone.disp, clone.told}]
      BY <2>2, <3>1 DEF Nets
    <3>3. [clone EXCEPT !.sock[t].handle = None] = [n EXCEPT !.sock = [@ EXCEPT ![t] = k2]]
      BY <2>2 DEF Nets
    <3> DEFINE l == [clone EXCEPT !.sock[t].handle = None]
    <3>4. m = [l EXCEPT !.sock[t].state = "CLOSED"]
      OBVIOUS
    <3> HIDE DEF m, l, k2, clone
    <3>5. l = [n EXCEPT !.sock = [@ EXCEPT ![t] = k2]]
      BY <3>3 DEF l
    <3>6. [l EXCEPT !.sock[t].state = "CLOSED"] = [n EXCEPT !.sock = [@ EXCEPT ![t] = k3]]
      BY <2>2, <3>5 DEF Nets
    <3> QED  BY <3>4, <3>6
  <2>4. k3 \in SocketRecords /\ k3.state = "CLOSED" /\ k3.handle = None
    BY <2>2 DEF SocketRecords, States
  <2> HIDE DEF k3, m
  <2>5. n.sock[t].state = "CLOSED"
    BY <1>3
  <2> QED  BY <2>1, <2>3, <2>4, <2>5, ReplacedKeeps
<1> QED
  BY <1>1, <1>2, <1>3

-----------------------------------------------------------------------------
\* Settings, and what OnNotify() does.

\* StartInputNotification() and StopInputNotification().
LEMMA InputKeeps ==
  ASSUME NEW n, NEW c, NEW s \in Sockets, Good(n, c), NEW on \in BOOLEAN
  PROVE  Good(UpdateNotification([n EXCEPT !.sock[s].input = on], s), c)
<1> DEFINE x == [n.sock EXCEPT ![s].input = on]
<1>1. n \in Nets
  BY DEF Good, Base
<1>2. /\ x \in [Sockets -> SocketRecords] /\ \A u \in Sockets \ {s} : x[u] = n.sock[u]
      /\ x[s].handle = n.sock[s].handle /\ x[s].state = n.sock[s].state /\ x[s].protocol = n.sock[s].protocol
      /\ x[s].notifier = n.sock[s].notifier /\ x[s].alive = n.sock[s].alive
  BY <1>1 DEF Nets, SocketRecords
<1>3. [n EXCEPT !.sock[s].input = on] = [n EXCEPT !.sock = x]
  OBVIOUS
<1> HIDE DEF x
<1> QED
  BY <1>2, <1>3, SettingKeeps

\* SetListener().
LEMMA ListenerKeeps ==
  ASSUME NEW n, NEW c, NEW s \in Sockets, Good(n, c), NEW on \in BOOLEAN
  PROVE  Good(SetListener(n, s, on), c)
<1> DEFINE x == [n.sock EXCEPT ![s].listener = on]
<1>1. n \in Nets
  BY DEF Good, Base
<1>2. /\ x \in [Sockets -> SocketRecords] /\ \A u \in Sockets \ {s} : x[u] = n.sock[u]
      /\ x[s].handle = n.sock[s].handle /\ x[s].state = n.sock[s].state /\ x[s].protocol = n.sock[s].protocol
      /\ x[s].notifier = n.sock[s].notifier /\ x[s].alive = n.sock[s].alive
  BY <1>1 DEF Nets, SocketRecords
<1>3. SetListener(n, s, on) = UpdateNotification([n EXCEPT !.sock = x], s)
  BY DEF SetListener
<1> HIDE DEF x
<1> QED
  BY <1>2, <1>3, SettingKeeps

\* StartOutputNotification() and StopOutputNotification(), and what Send() leaves.
LEMMA OutputKeeps ==
  ASSUME NEW n, NEW c, NEW s \in Sockets, Good(n, c), NEW on \in BOOLEAN
  PROVE  Good(WithOutput(n, s, on), c)
<1> DEFINE x == [n.sock EXCEPT ![s].output = on]
<1>1. n \in Nets
  BY DEF Good, Base
<1>2. /\ x \in [Sockets -> SocketRecords] /\ \A u \in Sockets \ {s} : x[u] = n.sock[u]
      /\ x[s].handle = n.sock[s].handle /\ x[s].state = n.sock[s].state /\ x[s].protocol = n.sock[s].protocol
      /\ x[s].notifier = n.sock[s].notifier /\ x[s].alive = n.sock[s].alive
  BY <1>1 DEF Nets, SocketRecords
<1>3. WithOutput(n, s, on) = UpdateNotification([n EXCEPT !.sock = x], s)
  BY DEF WithOutput
<1> HIDE DEF x
<1> QED
  BY <1>2, <1>3, SettingKeeps

\* Shutdown().
LEMMA ShutdownKeeps ==
  ASSUME NEW n, NEW c, NEW s \in Sockets, Good(n, c), NEW can \in BOOLEAN
  PROVE  Good(Shutdown(n, s, can), c)
<1>1. Good(WithOutput(n, s, FALSE), c)
  BY OutputKeeps
<1>2. Good(WithOutput(WithOutput(n, s, FALSE), s, TRUE), c)
  BY <1>1, OutputKeeps
<1> QED
  BY <1>1, <1>2 DEF Shutdown

\* SetNotifier(), which takes back the notification of the old one first.
LEMMA NotifierKeeps ==
  ASSUME NEW n, NEW c, NEW s \in Sockets, Good(n, c), NEW on \in BOOLEAN
  PROVE  Good(SetNotifier(n, s, on), c)
<1> DEFINE detached == [n EXCEPT !.disp = UpdateSocketNotification(@, s, n.sock[s].handle, {})]
           m == IF IsOpen(n, s) /\ ~on THEN detached ELSE n
           x == [m.sock EXCEPT ![s].notifier = on]
           set == [m EXCEPT !.sock = x]
           p == UpdateNotification(set, s)
<1>1. CASE n.sock[s].notifier = on
  BY <1>1 DEF SetNotifier
<1>2. CASE n.sock[s].notifier # on
  <2>1. SetNotifier(n, s, on) = IF IsOpen(n, s) THEN p ELSE set
    BY <1>2 DEF SetNotifier
  <2>2. Others(n, c, s) /\ SockOk(n, s) /\ WatchOk(n, s) /\ Base(n, c) /\ n \in Nets
    BY GoodIs DEF Others, Base
  <2>3. Others(m, c, s) /\ ~HasSocketStream(m.disp, s) /\ m.sock = n.sock /\ m.file = n.file
    <3>1. CASE IsOpen(n, s) /\ ~on
      <4>1. m = [n EXCEPT !.disp = UpdateSocketNotification(@, s, n.sock[s].handle, {})]
        BY <3>1
      <4> HIDE DEF m
      <4>2. Others(m, c, s) /\ Silent(n, m) /\ Watches(m.disp, s, {})
        BY <2>2, <4>1, NotificationSet
      <4> QED  BY <4>2 DEF Silent, Watches
    <3>2. CASE IsOpen(n, s) /\ on
      <4>1. ~n.sock[s].notifier
        BY <1>2, <2>2, <3>2 DEF Nets, SocketRecords
      <4>2. m = n
        BY <3>2
      <4> QED  BY <2>2, <4>1, <4>2 DEF Base, Owned
    <3>3. CASE ~IsOpen(n, s)
      <4>1. m = n
        BY <3>3
      <4>2. ~HasSocketStream(n.disp, s)
        BY <2>2, <3>3, Unwatched DEF IsOpen
      <4> QED  BY <2>2, <4>1, <4>2
    <3> QED  BY <3>1, <3>2, <3>3
  <2> HIDE DEF m
  <2>4. m \in Nets
    BY <2>3 DEF Others, Base
  <2>5. /\ x \in [Sockets -> SocketRecords] /\ \A u \in Sockets \ {s} : x[u] = m.sock[u]
        /\ x[s].handle = m.sock[s].handle /\ x[s].state = m.sock[s].state /\ x[s].protocol = m.sock[s].protocol
        /\ x[s].alive = m.sock[s].alive
    BY <2>4 DEF Nets, SocketRecords
  <2> HIDE DEF x
  <2>6. set \in Nets /\ set.sock = x /\ set.file = m.file /\ set.disp = m.disp /\ set.told = m.told
    BY <2>4, <2>5 DEF Nets
  <2> HIDE DEF set
  <2>7. Others(set, c, s)
    BY <2>3, <2>5, <2>6, MembersChange
  <2>8. SockOk(set, s)
    BY <2>2, <2>3, <2>5, <2>6 DEF SockOk
  <2>9. CASE IsOpen(n, s)
    <3>1. Others(p, c, s) /\ WatchOk(p, s) /\ Silent(set, p)
      BY <2>7, UpdateKeeps
    <3> HIDE DEF p
    <3>2. SockOk(p, s)
      BY <2>8, <3>1 DEF SockOk, Silent
    <3> QED  BY <2>1, <2>9, <3>1, <3>2, GoodIs
  <2>10. CASE ~IsOpen(n, s)
    <3>1. WatchOk(set, s)
      BY <2>3, <2>5, <2>6, <2>10, ClosedWatch DEF IsOpen
    <3> QED  BY <2>1, <2>7, <2>8, <2>10, <3>1, GoodIs
  <2> QED  BY <2>9, <2>10
<1> QED
  BY <1>1, <1>2

\* The destructor.
LEMMA DeleteKeeps ==
  ASSUME NEW n, NEW c, NEW s \in Sockets, Good(n, c), NEW can \in BOOLEAN
  PROVE  Good([Close(n, s, can) EXCEPT !.sock[s] = DeadSocket], c)
<1> DEFINE m == Close(n, s, can)
<1>1. Opening(n, c, s)
  BY GoodOpening
<1>2. Good(m, c) /\ m.sock[s].state = "CLOSED"
  BY <1>1, CloseCloses
<1> HIDE DEF m
<1>3. DeadSocket \in SocketRecords /\ DeadSocket.state = "CLOSED" /\ DeadSocket.handle = None
  BY DEF DeadSocket, NewSocket, SocketRecords, States
<1>4. [m EXCEPT !.sock[s] = DeadSocket] = [m EXCEPT !.sock = [@ EXCEPT ![s] = DeadSocket]]
  OBVIOUS
<1>5. Good([m EXCEPT !.sock[s] = DeadSocket], c)
  BY <1>2, <1>3, <1>4, ReplacedKeeps
<1> QED
  BY <1>5 DEF m

\* The constructor.
LEMMA CreateKeeps ==
  ASSUME NEW n, NEW c, NEW s \in Sockets, Good(n, c), ~n.sock[s].alive, NEW p \in {"TCP", "UDP"}
  PROVE  Good([n EXCEPT !.sock[s] = NewSocket(p)], c)
<1> DEFINE k == NewSocket(p)
<1>1. n.sock[s].state = "CLOSED"
  BY DEF Good, SockOk
<1>2. k \in SocketRecords /\ k.state = "CLOSED" /\ k.handle = None
  BY DEF NewSocket, SocketRecords, States
<1> HIDE DEF k
<1>3. [n EXCEPT !.sock[s] = k] = [n EXCEPT !.sock = [@ EXCEPT ![s] = k]]
  OBVIOUS
<1>4. Good([n EXCEPT !.sock[s] = k], c)
  BY <1>1, <1>2, <1>3, ReplacedKeeps
<1> QED
  BY <1>4 DEF k

\* Output of a connection in progress has been told only if it is not any more.
LEMMA NotifyOutputKeeps ==
  ASSUME NEW n, NEW c, NEW s \in Sockets, Good(n, c), NEW can \in BOOLEAN,
         <<n.sock[s].handle, "out">> \in n.told
  PROVE  Good(NotifyOutput(n, s, can).net, c)
<1> DEFINE k == Entered(n, s, "CONNECTED")
           fd == n.sock[s].handle
           fails == n.file[fd] \in {"refused", "reset"}
<1>1. NotifyOutput(n, s, can).net = IF n.sock[s].state # "CONNECTING" THEN n
                                    ELSE IF fails THEN Disconnect(n, s, can) ELSE k
  BY DEF NotifyOutput, Told
<1>2. CASE n.sock[s].state # "CONNECTING"
  BY <1>1, <1>2
<1>3. CASE n.sock[s].state = "CONNECTING" /\ fails
  <2>1. Good(Disconnect(n, s, can), c)
    BY DisconnectKeeps
  <2> QED  BY <1>1, <1>3, <2>1
<1>4. CASE n.sock[s].state = "CONNECTING" /\ ~fails
  <2>1. Others(n, c, s) /\ SockOk(n, s) /\ Base(n, c) /\ n \in Nets
    BY GoodIs DEF Others, Base
  <2>2. n.sock[s].protocol = "TCP" /\ n.sock[s].alive /\ fd # None /\ fd \in Fds
    BY <1>4, <2>1 DEF SockOk, Nets, SocketRecords
  <2>3. n.file[fd] # "connecting"
    BY <2>1, <2>2 DEF Base, ToldFits
  <2>4. n.file[fd] \in Connections
    BY <1>4, <2>1, <2>2, <2>3 DEF SockOk, FilesIn
  <2>5. /\ Others(k, c, s) /\ WatchOk(k, s) /\ Follows(n, k, s) /\ k.sock[s].state = "CONNECTED"
    BY <2>1, EnteredKeeps DEF States
  <2> HIDE DEF k
  <2>6. SockOk(k, s)
    BY <2>2, <2>4, <2>5 DEF SockOk, FilesIn, Follows, Kin
  <2> QED  BY <1>1, <1>4, <2>5, <2>6, GoodIs
<1> QED
  BY <1>2, <1>3, <1>4

-----------------------------------------------------------------------------
\* Descriptors with a callback.

\* A pipe that is not watched.
LEMMA PipeKeeps ==
  ASSUME NEW n, NEW c, Good(n, c), NEW fd \in Fds, n.file[fd] \in {"free", "pipe"},
         n.file[fd] = "free" \/ ~HasGenericStream(n.disp, fd), NEW state \in {"free", "pipe"}
  PROVE  Good(SetFile(n, fd, state), c)
<1> DEFINE m == SetFile(n, fd, state)
<1>1. Base(n, c) /\ n \in Nets
  BY DEF Good, Base
<1>2. /\ m.disp = n.disp /\ m.sock = n.sock /\ m.told = {t \in n.told : t[1] # fd} /\ m \in Nets
      /\ m.file = [n.file EXCEPT ![fd] = state]
  BY <1>1 DEF SetFile, Nets, FileStates
<1> HIDE DEF m
<1>3. m.file[fd] = state /\ \A f \in Fds \ {fd} : m.file[f] = n.file[f]
  BY <1>1, <1>2 DEF Nets
<1>4. \A u \in Sockets : n.sock[u].handle # fd
  BY <1>1, NoneApart DEF Base, Owned, FilesOf
<1>5. \A o \in Generics : n.disp.owner[o] # fd
  <2> SUFFICES ASSUME NEW o \in Generics, n.disp.owner[o] = fd PROVE FALSE
    OBVIOUS
  <2>1. n.file[fd] = "pipe"
    BY <1>1, NoneApart DEF Base, Owned
  <2> QED  BY <2>1 DEF HasGenericStream
<1>6. ASSUME NEW o \in Streams, NEW dir, Serves(n, o, fd, dir) PROVE FALSE
  BY <1>1, <1>4, <1>5, <1>6, StreamOwner DEF Serves, HandleOf
<1>7. ASSUME NEW o \in Streams, NEW f, NEW dir PROVE Serves(n, o, f, dir) <=> Serves(m, o, f, dir)
  BY <1>2 DEF Serves, HandleOf
<1>8. ReadyFits(m, c)
  <2>1. ReadyFits(n, c)
    BY <1>1 DEF Base
  <2>2. ASSUME NEW f \in m.disp.input PROVE <<f, "in">> \in m.told /\ \E o \in Streams : Serves(m, o, f, "in")
    <3>1. <<f, "in">> \in n.told
      BY <1>2, <2>1 DEF ReadyFits
    <3>2. PICK o \in Streams : Serves(n, o, f, "in")
      BY <1>2, <2>1 DEF ReadyFits
    <3>3. f # fd
      BY <1>6, <3>2
    <3> QED  BY <1>2, <1>7, <3>1, <3>2, <3>3
  <2>3. ASSUME NEW f \in m.disp.output
        PROVE  /\ <<f, "out">> \in m.told
               /\ \E o \in Streams :
                    /\ Serves(m, o, f, "out")
                    /\ c.phase = "input" /\ c.fd = f => o = c.stream /\ Key(m.disp, o) = c.key
    <3>1. <<f, "out">> \in n.told
      BY <1>2, <2>1 DEF ReadyFits
    <3>2. PICK o \in Streams :
            /\ Serves(n, o, f, "out")
            /\ c.phase = "input" /\ c.fd = f => o = c.stream /\ Key(n.disp, o) = c.key
      BY <1>2, <2>1 DEF ReadyFits
    <3>3. f # fd
      BY <1>6, <3>2
    <3> QED  BY <1>2, <1>7, <3>1, <3>2, <3>3
  <2> QED  BY <2>2, <2>3 DEF ReadyFits
<1>9. \A u \in Sockets : n.sock[u].handle # None => m.file[n.sock[u].handle] = n.file[n.sock[u].handle]
  BY <1>1, <1>3, <1>4 DEF Nets, SocketRecords
<1>10. Owned(m)
  <2>1. \A u \in Sockets : m.sock[u].handle # None => m.file[m.sock[u].handle] \in FilesOf(m.sock[u].protocol)
    BY <1>1, <1>2, <1>9 DEF Base, Owned
  <2>2. \A f \in Fds : m.file[f] \notin {"free", "pipe"} => \E u \in Sockets : m.sock[u].handle = f
    BY <1>1, <1>2, <1>3 DEF Base, Owned
  <2>3. ASSUME NEW o \in Generics, m.disp.owner[o] # None PROVE m.file[m.disp.owner[o]] = "pipe"
    <3>1. n.disp.owner[o] \in Fds /\ n.file[n.disp.owner[o]] = "pipe"
      BY <1>1, <1>2, <2>3, StreamOwner, NoneApart
    <3> QED  BY <1>2, <1>3, <1>5, <3>1
  <2> QED  BY <1>1, <1>2, <2>1, <2>2, <2>3 DEF Base, Owned
<1>11. ToldFits(m)
  BY <1>1, <1>2, <1>3 DEF Base, ToldFits
<1>12. ASSUME NEW u \in Sockets PROVE SockOk(m, u) /\ WatchOk(m, u)
  <2>1. SockOk(n, u) /\ WatchOk(n, u)
    BY DEF Good
  <2>2. n.sock[u].handle # None => m.file[n.sock[u].handle] = n.file[n.sock[u].handle]
    BY <1>9
  <2> QED  BY <1>2, <2>1, <2>2, SocketKept
<1>13. Good(m, c)
  BY <1>1, <1>2, <1>8, <1>10, <1>11, <1>12 DEF Good, Base
<1> QED
  BY <1>13 DEF m

\* Streams of pipes may change without the sockets.
LEMMA ChangedKeeps ==
  ASSUME NEW n, NEW c, Good(n, c), NEW fd \in Fds, n.file[fd] = "pipe", NEW e, Changed(n.disp, e, fd)
  PROVE  Good([n EXCEPT !.disp = e], c)
<1> DEFINE m == [n EXCEPT !.disp = e]
<1>1. Base(n, c) /\ n \in Nets
  BY DEF Good, Base
<1>2. m.disp = e /\ m.sock = n.sock /\ m.told = n.told /\ m.file = n.file /\ m \in Nets /\ Wired(e)
  BY <1>1 DEF Nets, Changed, Wired
<1> HIDE DEF m
<1>3. ASSUME NEW o \in Streams, NEW f \in Fds, NEW dir \in Directions, Serves(n, o, f, dir),
             f \in (IF dir = "in" THEN e.input ELSE e.output)
      PROVE  Serves(m, o, f, dir) /\ e.owner[o] = n.disp.owner[o]
  <2>1. n.disp.owner[o] # None /\ HandleOf(n, o) = f /\ dir \in n.disp.flags[o] /\ dir \in {"in", "out"}
    BY <1>3 DEF Serves, Directions
  <2>2. CASE o \notin Generics
    <3>1. o \in SocketStreams
      BY <2>2 DEF Streams
    <3>2. e.owner[o] = n.disp.owner[o] /\ e.flags[o] = n.disp.flags[o]
      BY <3>1 DEF Changed
    <3> QED  BY <1>2, <2>1, <2>2, <3>2 DEF Serves, HandleOf
  <2>3. CASE o \in Generics
    <3>1. n.disp.owner[o] = f
      BY <2>1, <2>3 DEF HandleOf
    <3>2. e.owner[o] = f /\ dir \in e.flags[o]
      <4>1. CASE f # fd
        BY <2>1, <2>3, <3>1, <4>1 DEF Changed
      <4>2. CASE f = fd
        BY <1>3, <2>1, <2>3, <3>1, <4>2 DEF Changed
      <4> QED  BY <4>1, <4>2
    <3> QED  BY <1>2, <2>1, <2>3, <3>1, <3>2 DEF Serves, HandleOf
  <2> QED  BY <2>2, <2>3
<1>4. n.disp.input \subseteq Fds /\ n.disp.output \subseteq Fds /\ e.input \subseteq n.disp.input /\ e.output \subseteq n.disp.output
  BY <1>1 DEF Nets, Dispatchers, Changed
<1>5. ReadyFits(m, c)
  <2>1. ReadyFits(n, c)
    BY <1>1 DEF Base
  <2>2. ASSUME NEW f \in m.disp.input PROVE <<f, "in">> \in m.told /\ \E o \in Streams : Serves(m, o, f, "in")
    <3>1. f \in Fds /\ f \in n.disp.input /\ f \in e.input
      BY <1>2, <1>4
    <3>2. <<f, "in">> \in n.told
      BY <2>1, <3>1 DEF ReadyFits
    <3>3. PICK o \in Streams : Serves(n, o, f, "in")
      BY <2>1, <3>1 DEF ReadyFits
    <3>4. Serves(m, o, f, "in")
      BY <1>3, <3>1, <3>3 DEF Directions
    <3> QED  BY <1>2, <3>2, <3>4
  <2>3. ASSUME NEW f \in m.disp.output
        PROVE  /\ <<f, "out">> \in m.told
               /\ \E o \in Streams :
                    /\ Serves(m, o, f, "out")
                    /\ c.phase = "input" /\ c.fd = f => o = c.stream /\ Key(m.disp, o) = c.key
    <3>1. f \in Fds /\ f \in n.disp.output /\ f \in e.output
      BY <1>2, <1>4
    <3>2. <<f, "out">> \in n.told
      BY <2>1, <3>1 DEF ReadyFits
    <3>3. PICK o \in Streams :
            /\ Serves(n, o, f, "out")
            /\ c.phase = "input" /\ c.fd = f => o = c.stream /\ Key(n.disp, o) = c.key
      BY <2>1, <3>1 DEF ReadyFits
    <3>4. Serves(m, o, f, "out") /\ e.owner[o] = n.disp.owner[o]
      BY <1>3, <3>1, <3>3 DEF Directions
    <3>5. Key(m.disp, o) = Key(n.disp, o)
      BY <1>2, <3>4 DEF Key
    <3> QED  BY <1>2, <3>2, <3>3, <3>4, <3>5
  <2> QED  BY <2>2, <2>3 DEF ReadyFits
<1>6. \A u \in Sockets : HasSocketStream(e, u) <=> HasSocketStream(n.disp, u)
  BY DEF Changed, HasSocketStream
<1>7. Owned(m)
  <2>1. ASSUME NEW o \in Generics, e.owner[o] # None PROVE m.file[e.owner[o]] = "pipe"
    <3>1. e.owner[o] \in Fds
      BY <1>2, <2>1 DEF Wired, OneEach
    <3>2. CASE e.owner[o] = fd
      BY <1>2, <3>2
    <3>3. CASE e.owner[o] # fd
      <4>1. n.disp.owner[o] = e.owner[o]
        BY <3>1, <3>3 DEF Changed
      <4> QED  BY <1>1, <1>2, <2>1, <4>1 DEF Base, Owned
    <3> QED  BY <3>2, <3>3
  <2> QED  BY <1>1, <1>2, <1>6, <2>1 DEF Base, Owned
<1>8. ToldFits(m)
  BY <1>1, <1>2 DEF Base, ToldFits
<1>9. ASSUME NEW u \in Sockets PROVE SockOk(m, u) /\ WatchOk(m, u)
  <2>1. SockOk(n, u) /\ WatchOk(n, u)
    BY DEF Good
  <2>2. SockOk(m, u)
    BY <1>2, <2>1 DEF SockOk
  <2>3. WantedFlags(m, u) = WantedFlags(n, u)
    BY <1>2, WantedFlagsSame
  <2>4. \A o \in SocketStreams : e.owner[o] = n.disp.owner[o] /\ e.flags[o] = n.disp.flags[o]
    BY DEF Changed
  <2>5. WatchOk(m, u)
    BY <1>2, <1>6, <2>1, <2>3, <2>4 DEF WatchOk, Watches
  <2> QED  BY <2>2, <2>5
<1>10. Good(m, c)
  BY <1>1, <1>2, <1>5, <1>7, <1>8, <1>9 DEF Good, Base, Changed
<1> QED
  BY <1>10 DEF m

\* Callbacks that are installed and removed.
LEMMA GenericKeeps ==
  ASSUME NEW n, NEW c, Good(n, c), NEW fd \in Fds, n.file[fd] = "pipe", NEW dir \in Directions
  PROVE  /\ HasGenericStream(n.disp, fd) \/ (dir = "in" /\ n.disp.genericPool # <<>>) =>
              Good([n EXCEPT !.disp = InstallGeneric(@, fd, dir)], c)
         /\ Good([n EXCEPT !.disp = RemoveGeneric(@, fd, dir)], c)
<1>1. Wired(n.disp)
  BY DEF Good, Base
<1>2. HasGenericStream(n.disp, fd) \/ (dir = "in" /\ n.disp.genericPool # <<>>) =>
        Changed(n.disp, InstallGeneric(n.disp, fd, dir), fd)
  BY <1>1, InstallGenericChanges
<1>3. Changed(n.disp, RemoveGeneric(n.disp, fd, dir), fd)
  BY <1>1, RemoveGenericChanges
<1> QED
  BY <1>2, <1>3, ChangedKeeps

-----------------------------------------------------------------------------
\* The descriptor sets and the iterator of Dispatch().

\* The sets and the iterator of a round.
LEMMA RedirectedWired ==
  ASSUME NEW d, Wired(d), NEW in \in SUBSET Fds, NEW out \in SUBSET Fds, NEW cur,
         cur = None \/ Stands(cur, Table(d))
  PROVE  Wired(Disp(d.owner, d.flags, d.socketPool, d.genericPool, in, out, cur, d.dangling))
<1> DEFINE e == Disp(d.owner, d.flags, d.socketPool, d.genericPool, in, out, cur, d.dangling)
<1>1. d \in Dispatchers
  BY DEF Wired
<1>2. /\ e.owner = d.owner /\ e.flags = d.flags /\ e.socketPool = d.socketPool /\ e.genericPool = d.genericPool
      /\ e.cursor = cur /\ e.dangling = d.dangling
  BY DEF Disp
<1>3. cur \in Cursor \cup {None}
  BY DEF Stands
<1>4. e \in Dispatchers
  BY <1>1, <1>3 DEF Dispatchers, Disp
<1> HIDE DEF e
<1>5. Table(e) = Table(d)
  BY <1>2, TableIs
<1>6. Wired(e)
  BY <1>2, <1>4, <1>5 DEF Wired
<1> QED
  BY <1>6 DEF e

\* What concerns Dispatch() alone does not change what the sockets have.
LEMMA RedirectedKeeps ==
  ASSUME NEW n, NEW c, Good(n, c), NEW e, Wired(e), e.owner = n.disp.owner, e.flags = n.disp.flags,
         NEW told \in SUBSET (Fds \X Directions), NEW m, m = Net(n.sock, n.file, e, told),
         NEW b, ReadyFits(m, b), ToldFits(m), e.cursor = None <=> b.phase = "idle"
  PROVE  Good(m, b)
<1>1. Base(n, c) /\ n \in Nets
  BY DEF Good, Base
<1>2. m.sock = n.sock /\ m.file = n.file /\ m.disp = e /\ m.told = told
  BY NetFields
<1>3. m \in Nets
  BY <1>1 DEF Nets, Net, Wired
<1>4. \A u \in Sockets : HasSocketStream(e, u) <=> HasSocketStream(n.disp, u)
  BY DEF HasSocketStream
<1>5. Owned(m)
  BY <1>1, <1>2, <1>4 DEF Base, Owned
<1>6. ASSUME NEW u \in Sockets PROVE SockOk(m, u) /\ WatchOk(m, u)
  <2>1. SockOk(n, u) /\ WatchOk(n, u)
    BY DEF Good
  <2>2. SockOk(m, u)
    BY <1>2, <2>1 DEF SockOk
  <2>3. WantedFlags(m, u) = WantedFlags(n, u)
    BY <1>2, WantedFlagsSame
  <2>4. WatchOk(m, u)
    BY <1>2, <1>4, <2>1, <2>3 DEF WatchOk, Watches
  <2> QED  BY <2>2, <2>4
<1> QED
  BY <1>2, <1>3, <1>5, <1>6 DEF Good, Base

\* All is well wherever the iterator stands.
LEMMA CursorMoves ==
  ASSUME NEW n, NEW c, Good(n, c), c.phase # "idle", NEW cur, Stands(cur, Table(n.disp))
  PROVE  LET m == [n EXCEPT !.disp.cursor = cur]
         IN  /\ Good(m, c) /\ m.sock = n.sock /\ m.file = n.file /\ m.told = n.told
             /\ m.disp.owner = n.disp.owner /\ m.disp.flags = n.disp.flags
             /\ m.disp.input = n.disp.input /\ m.disp.output = n.disp.output
<1> DEFINE d == n.disp
           e == Disp(d.owner, d.flags, d.socketPool, d.genericPool, d.input, d.output, cur, d.dangling)
           m == [n EXCEPT !.disp.cursor = cur]
<1>1. n \in Nets /\ d \in Dispatchers /\ Base(n, c)
  BY DEF Good, Base, Nets
<1>2. cur \in Cursor /\ cur # None
  BY NoCursor DEF Stands
<1>3. [d EXCEPT !.cursor = cur] = e
  BY <1>1, <1>2 DEF Dispatchers, Disp
<1>4. m = Net(n.sock, n.file, e, n.told)
  <2>1. m = [n EXCEPT !.disp = e]
    BY <1>3
  <2> HIDE DEF e, m
  <2> QED  BY <1>1, <2>1 DEF Nets, Net
<1>5. /\ m.sock = n.sock /\ m.file = n.file /\ m.told = n.told
      /\ m.disp.owner = n.disp.owner /\ m.disp.flags = n.disp.flags
      /\ m.disp.input = n.disp.input /\ m.disp.output = n.disp.output
  <2> HIDE DEF m, e
  <2>1. m.sock = n.sock /\ m.file = n.file /\ m.told = n.told /\ m.disp = e
    BY <1>4, NetFields
  <2>2. e.owner = d.owner /\ e.flags = d.flags /\ e.input = d.input /\ e.output = d.output
    BY DEF Disp, e
  <2> QED  BY <2>1, <2>2
<1> HIDE DEF m
<1>6. ReadyFits(m, c)
  <2>1. \A o, f, dir : Serves(m, o, f, dir) <=> Serves(n, o, f, dir)
    BY <1>5 DEF Serves, HandleOf
  <2>2. \A o : Key(m.disp, o) = Key(n.disp, o)
    BY <1>5 DEF Key
  <2>3. ReadyFits(n, c)
    BY <1>1 DEF Base
  <2> QED  BY <1>5, <2>1, <2>2, <2>3 DEF ReadyFits
<1>7. ToldFits(m)
  BY <1>1, <1>5 DEF Base, ToldFits
<1>8. d.input \in SUBSET Fds /\ d.output \in SUBSET Fds /\ n.told \in SUBSET (Fds \X Directions)
  BY <1>1 DEF Dispatchers, Nets
<1>9. Good(m, c)
  <2>1. Wired(e)
    <3>1. Wired(d)
      BY <1>1 DEF Base
    <3> HIDE DEF d
    <3> QED  BY <1>8, <3>1, RedirectedWired DEF d
  <2>2. e.owner = n.disp.owner /\ e.flags = n.disp.flags /\ e.cursor = cur
    BY DEF Disp
  <2> HIDE DEF e
  <2> QED  BY <1>2, <1>4, <1>6, <1>7, <1>8, <2>1, <2>2, RedirectedKeeps
<1> QED
  BY <1>5, <1>9 DEF m

\* Dispatch() goes on.
LEMMA ScanGoes ==
  ASSUME NEW n, NEW c, Good(n, c), c.phase # "idle", NEW b, b.phase \in {"scan", "output"}
  PROVE  Good(n, b)
<1>1. ReadyFits(n, b)
  BY DEF Good, Base, ReadyFits
<1> QED
  BY <1>1 DEF Good, Base

\* And when Dispatch() turns to a stream that serves the descriptor.
LEMMA ScanCalls ==
  ASSUME NEW n, NEW c, Good(n, c), c.phase # "idle", NEW b, b.phase = "input",
         b.fd \in Fds, b.stream \in Streams, Serves(n, b.stream, b.fd, "in"), Key(n.disp, b.stream) = b.key
  PROVE  Good(n, b)
<1>1. Base(n, c) /\ ReadyFits(n, c)
  BY DEF Good, Base
<1>2. ASSUME NEW fd \in n.disp.output
      PROVE  /\ <<fd, "out">> \in n.told
             /\ \E o \in Streams :
                  /\ Serves(n, o, fd, "out")
                  /\ b.phase = "input" /\ b.fd = fd => o = b.stream /\ Key(n.disp, o) = b.key
  <2>1. <<fd, "out">> \in n.told
    BY <1>1 DEF ReadyFits
  <2>2. PICK o \in Streams : Serves(n, o, fd, "out")
    BY <1>1 DEF ReadyFits
  <2>3. b.fd = fd => o = b.stream
    BY <1>1, <2>2, ServesUnique
  <2> QED  BY <2>1, <2>2, <2>3
<1>3. ReadyFits(n, b)
  BY <1>1, <1>2 DEF ReadyFits
<1> QED
  BY <1>3 DEF Good, Base

\* The stream that the iterator is at.
LEMMA StreamAtIs ==
  ASSUME NEW d, NEW k \in Table(d)
  PROVE  LET o == StreamAt(d, k) IN o \in Streams /\ d.owner[o] # None /\ Key(d, o) = k
<1>1. \E o \in Active(d) : Key(d, o) = k
  BY DEF Table
<1>2. StreamAt(d, k) \in Active(d) /\ Key(d, StreamAt(d, k)) = k
  BY <1>1 DEF StreamAt
<1> QED
  BY <1>2 DEF Active

\* A stream stands for a socket that wants just what it is watched for.
LEMMA ServedWants ==
  ASSUME NEW n, NEW c, Good(n, c), NEW o \in Streams, NEW fd, NEW dir, Serves(n, o, fd, dir)
  PROVE  LET k == Key(n.disp, o)
         IN  /\ fd \in Fds
             /\ k \in Generics => o = k /\ n.disp.owner[o] = fd
             /\ k \notin Generics => /\ k \in Sockets /\ n.disp.owner[o] = k /\ n.sock[k].handle = fd
                                     /\ dir \in WantedFlags(n, k) /\ n.sock[k].alive
<1>1. Base(n, c) /\ n \in Nets /\ n.disp.owner[o] # None /\ HandleOf(n, o) = fd /\ dir \in n.disp.flags[o]
  BY DEF Good, Base, Serves
<1>2. CASE o \in Generics
  <2>1. Key(n.disp, o) = o
    BY <1>2 DEF Key
  <2>2. n.disp.owner[o] \in Fds /\ n.disp.owner[o] = fd
    BY <1>1, <1>2, StreamOwner DEF HandleOf
  <2> QED  BY <1>2, <2>1, <2>2
<1>3. CASE o \notin Generics
  <2> DEFINE k == n.disp.owner[o]
  <2>1. Key(n.disp, o) = k
    BY <1>3 DEF Key
  <2>2. k \in Sockets /\ o \in SocketStreams
    BY <1>1, <1>3, StreamOwner
  <2>3. k \notin Generics
    BY <2>2, StreamsAssumption
  <2>4. n.sock[k].handle = fd
    BY <1>1, <1>3 DEF HandleOf
  <2>5. SockOk(n, k) /\ WatchOk(n, k)
    BY <2>2 DEF Good
  <2>6. dir \in WantedFlags(n, k)
    BY <1>1, <2>2, <2>5 DEF WatchOk, Watches
  <2>7. n.sock[k].state # "CLOSED"
    BY <2>6 DEF WantedFlags
  <2>8. n.sock[k].alive /\ n.sock[k].handle # None
    BY <2>5, <2>7 DEF SockOk
  <2>9. n.sock[k].handle \in Fds
    BY <1>1, <2>2, <2>8 DEF Nets, SocketRecords
  <2> HIDE DEF k
  <2> QED  BY <2>1, <2>2, <2>3, <2>4, <2>6, <2>8, <2>9 DEF k
<1> QED
  BY <1>2, <1>3

-----------------------------------------------------------------------------
\* The steps.

Tells == {None} \cup ((Sockets \cup Generics) \X Events)

IInv == Good(net, scan) /\ event \in Tells

\* Who is called exists, wants it, and has been told of: the body of CallsFit.
CallFit(dir) ==
  LET k == scan'.key
      owner == net.disp.owner[scan'.stream]
  IN  IF k \in Generics THEN <<owner, dir>> \in net.told
      ELSE /\ net.sock[k].alive /\ owner = k
           /\ dir \in WantedFlags(net, k)
           /\ <<net.sock[k].handle, dir>> \in net.told
           /\ event'[2] # "INVALID_EVENT"

\* A notification that is wanted is of a valid event.
LEMMA WantedIsValid ==
  ASSUME NEW n, NEW s, SockOk(n, s), n.sock[s].state \in States,
         n.sock[s].protocol \in {"TCP", "UDP"}
  PROVE  /\ "in" \in WantedFlags(n, s) => NotifyInput(n, s).event \in Events \ {"INVALID_EVENT"}
         /\ \A can \in BOOLEAN :
              "out" \in WantedFlags(n, s) => NotifyOutput(n, s, can).event \in Events \ {"INVALID_EVENT"}
<1> DEFINE state == n.sock[s].state
<1>1. /\ "in" \in WantedFlags(n, s) => state \in {"IDLE", "LISTENING", "CONNECTED"}
      /\ "out" \in WantedFlags(n, s) => state \in {"IDLE", "CONNECTING", "CONNECTED"}
  BY DEF WantedFlags, SockOk, IsTcp, States
<1>2. NotifyInput(n, s).event = IF state = "LISTENING" THEN "ACCEPT"
                                ELSE IF state \in {"IDLE", "CONNECTED"} THEN "RECV" ELSE "INVALID_EVENT"
  BY DEF NotifyInput, Told
<1>3. ASSUME NEW can \in BOOLEAN, state \in {"IDLE", "CONNECTING", "CONNECTED"}
      PROVE  NotifyOutput(n, s, can).event \in {"SEND", "ERROR_", "CONNECT"}
  BY <1>3 DEF NotifyOutput, Told
<1> QED
  BY <1>1, <1>2, <1>3 DEF Events

\* A stream is called for what it watches and what has been told of its descriptor.
LEMMA CallKeeps ==
  ASSUME NEW n, Good(n, scan), scan.phase # "idle", NEW dir \in Directions, NEW o \in Streams, NEW k, NEW fd,
         Serves(n, o, fd, dir), Key(n.disp, o) = k, <<fd, dir>> \in n.told, Call(n, dir, o, k, fd)
  PROVE  /\ Good(net', scan') /\ event' \in Tells /\ scan'.phase = (IF dir = "in" THEN "input" ELSE "output")
         /\ n.sock = net.sock /\ n.told = net.told /\ n.disp.owner = net.disp.owner => CallFit(dir)
<1> DEFINE b == [phase |-> IF dir = "in" THEN "input" ELSE "output", stream |-> o, key |-> k, fd |-> fd]
<1>0. PICK can \in BOOLEAN :
        \E told \in {IF k \in Generics THEN Told(n, dir)
                     ELSE IF dir = "in" THEN NotifyInput(n, k) ELSE NotifyOutput(n, k, can)} :
          net' = told.net /\ event' = <<k, told.event>> /\ scan' = b
  BY DEF Call
<1> DEFINE told == IF k \in Generics THEN Told(n, dir)
                   ELSE IF dir = "in" THEN NotifyInput(n, k) ELSE NotifyOutput(n, k, can)
<1>1. net' = told.net /\ event' = <<k, told.event>> /\ scan' = b
  BY <1>0
<1>2. /\ fd \in Fds
      /\ k \in Generics => o = k /\ n.disp.owner[o] = fd
      /\ k \notin Generics => /\ k \in Sockets /\ n.disp.owner[o] = k /\ n.sock[k].handle = fd
                              /\ dir \in WantedFlags(n, k) /\ n.sock[k].alive
  BY ServedWants
<1>3. /\ b.phase = (IF dir = "in" THEN "input" ELSE "output") /\ b.stream = o /\ b.key = k /\ b.fd = fd
  OBVIOUS
<1> HIDE DEF b, told
<1>4. Good(n, b)
  <2>1. CASE dir = "in"
    BY <1>2, <1>3, <2>1, ScanCalls
  <2>2. CASE dir # "in"
    BY <1>3, <2>2, ScanGoes
  <2> QED  BY <2>1, <2>2
<1>5. CASE k \in Generics
  <2>1. told.net = n /\ told.event = dir
    BY <1>5 DEF Told, told
  <2>2. event' \in Tells
    BY <1>1, <1>5, <2>1 DEF Tells, Events, Directions
  <2>3. n.told = net.told /\ n.disp.owner = net.disp.owner => CallFit(dir)
    BY <1>1, <1>2, <1>3, <1>5 DEF CallFit
  <2> QED  BY <1>1, <1>3, <1>4, <2>1, <2>2, <2>3
<1>6. CASE k \notin Generics
  <2>1. SockOk(n, k) /\ n.sock[k].state \in States /\ n.sock[k].protocol \in {"TCP", "UDP"}
    BY <1>2, <1>6 DEF Good, Base, Nets, SocketRecords
  <2>2. told = IF dir = "in" THEN NotifyInput(n, k) ELSE NotifyOutput(n, k, can)
    BY <1>6 DEF told
  <2>3. Good(told.net, b)
    <3>1. CASE dir = "in"
      <4>1. told.net = n
        BY <2>2, <3>1 DEF NotifyInput, Told
      <4> QED  BY <1>4, <4>1
    <3>2. CASE dir # "in"
      <4>1. <<n.sock[k].handle, "out">> \in n.told
        BY <1>2, <1>6, <3>2 DEF Directions
      <4>2. Good(NotifyOutput(n, k, can).net, b)
        BY <1>2, <1>4, <1>6, <4>1, NotifyOutputKeeps
      <4> QED  BY <2>2, <3>2, <4>2
    <3> QED  BY <3>1, <3>2
  <2>4. told.event \in Events \ {"INVALID_EVENT"}
    <3>1. dir \in WantedFlags(n, k)
      BY <1>2, <1>6
    <3>2. CASE dir = "in"
      BY <2>1, <2>2, <3>1, <3>2, WantedIsValid
    <3>3. CASE dir # "in"
      BY <2>1, <2>2, <3>1, <3>3, WantedIsValid DEF Directions
    <3> QED  BY <3>2, <3>3
  <2>5. event' = <<k, told.event>> /\ event' \in Tells /\ event'[2] # "INVALID_EVENT"
    BY <1>1, <1>2, <1>6, <2>4 DEF Tells
  <2>6. n.sock = net.sock /\ n.told = net.told /\ n.disp.owner = net.disp.owner => CallFit(dir)
    <3> SUFFICES ASSUME n.sock = net.sock, n.told = net.told, n.disp.owner = net.disp.owner PROVE CallFit(dir)
      OBVIOUS
    <3>1. WantedFlags(net, k) = WantedFlags(n, k)
      BY WantedFlagsSame
    <3> QED  BY <1>1, <1>2, <1>3, <1>6, <2>5, <3>1 DEF CallFit
  <2> QED  BY <1>1, <1>3, <2>3, <2>5, <2>6
<1> QED
  BY <1>5, <1>6

\* What Wait() and Dispatch() do, and that who is called fits.
Dispatched ==
  /\ Good(net', scan') /\ event' \in Tells
  /\ scan'.phase = "input" /\ scan.phase # "input" => CallFit("in")
  /\ scan'.phase = "output" /\ scan.phase # "output" => CallFit("out")

\* Handle() is HandleOf() of the present net.
LEMMA HandleIs ==
  ASSUME NEW o \in Streams PROVE Handle(o) = HandleOf(net, o)
  BY DEF Handle, HandleOf

\* A stream that Dispatch() finds to be ready serves its descriptor, which was told.
LEMMA AskServes ==
  ASSUME NEW n, Good(n, scan), NEW o \in Streams, n.disp.owner[o] # None, NEW dir \in Directions,
         Ask(n.disp, dir, o, HandleOf(n, o))
  PROVE  Serves(n, o, HandleOf(n, o), dir) /\ <<HandleOf(n, o), dir>> \in n.told
<1>1. ReadyFits(n, scan)
  BY DEF Good, Base
<1> QED
  BY <1>1 DEF Ask, Serves, ReadyFits, Directions

\* The next stream of the table.
LEMMA VisitKeeps == ASSUME IInv, Visit PROVE Dispatched
<1> DEFINE d == net.disp
           k == d.cursor.next
           o == StreamAt(d, k)
           fd == Handle(o)
<1>1. scan.phase = "scan" /\ ~d.dangling /\ k # None
  BY DEF Visit
<1>2. PICK cur \in Iter!Moved(d.cursor, Table(d)) :
        LET n == [net EXCEPT !.disp.cursor = cur]
        IN  IF Ask(d, "in", o, fd) THEN Call(n, "in", o, k, fd)
            ELSE IF Ask(d, "out", o, fd) THEN Call(n, "out", o, k, fd)
            ELSE net' = n /\ UNCHANGED <<scan, event>>
  BY DEF Visit
<1> DEFINE n == [net EXCEPT !.disp.cursor = cur]
<1>3. Good(net, scan) /\ Base(net, scan) /\ Wired(d) /\ d \in Dispatchers /\ event \in Tells
  BY DEF IInv, Good, Base, Wired
<1>4. d.cursor \in Cursor /\ Stands(d.cursor, Table(d)) /\ k \in Table(d) /\ Table(d) \in SUBSET Keys
  <2>1. d.cursor # None
    BY <1>1, <1>3 DEF Base
  <2>2. d.cursor \in Cursor /\ Stands(d.cursor, Table(d))
    BY <1>1, <1>3, <2>1 DEF Wired, Dispatchers
  <2>3. Table(d) \in SUBSET Keys
    BY <1>3, TableIs, TableInKeys DEF Wired
  <2> QED  BY <1>1, <2>2, <2>3 DEF Stands
<1>5. o \in Streams /\ d.owner[o] # None /\ Key(d, o) = k
  BY <1>4, StreamAtIs
<1>6. Stands(cur, Table(d))
  BY <1>1, <1>2, <1>4, MovedStands
<1>7. /\ Good(n, scan) /\ n.sock = net.sock /\ n.file = net.file /\ n.told = net.told
      /\ n.disp.owner = d.owner /\ n.disp.flags = d.flags /\ n.disp.input = d.input /\ n.disp.output = d.output
  BY <1>1, <1>3, <1>6, CursorMoves
<1>8. fd = HandleOf(n, o) /\ Key(n.disp, o) = k
  BY <1>5, <1>7, HandleIs DEF HandleOf, Key
<1> HIDE DEF n, o, k, fd, d
<1>9. CASE Ask(d, "in", o, fd)
  <2>1. Call(n, "in", o, k, fd)
    BY <1>2, <1>9 DEF n
  <2>2. Ask(n.disp, "in", o, fd) /\ n.disp.owner[o] # None
    BY <1>5, <1>7, <1>9 DEF Ask
  <2>3. Serves(n, o, fd, "in") /\ <<fd, "in">> \in n.told
    BY <1>5, <1>7, <1>8, <2>2, AskServes DEF Directions
  <2>4. Good(net', scan') /\ event' \in Tells /\ scan'.phase = "input" /\ CallFit("in")
    BY <1>1, <1>5, <1>7, <1>8, <2>1, <2>3, CallKeeps DEF Directions, d
  <2> QED  BY <2>4 DEF Dispatched
<1>10. CASE ~Ask(d, "in", o, fd) /\ Ask(d, "out", o, fd)
  <2>1. Call(n, "out", o, k, fd)
    BY <1>2, <1>10 DEF n
  <2>2. Ask(n.disp, "out", o, fd) /\ n.disp.owner[o] # None
    BY <1>5, <1>7, <1>10 DEF Ask
  <2>3. Serves(n, o, fd, "out") /\ <<fd, "out">> \in n.told
    BY <1>5, <1>7, <1>8, <2>2, AskServes DEF Directions
  <2>4. Good(net', scan') /\ event' \in Tells /\ scan'.phase = "output" /\ CallFit("out")
    BY <1>1, <1>5, <1>7, <1>8, <2>1, <2>3, CallKeeps DEF Directions, d
  <2> QED  BY <2>4 DEF Dispatched
<1>11. CASE ~Ask(d, "in", o, fd) /\ ~Ask(d, "out", o, fd)
  <2>1. net' = n /\ scan' = scan /\ event' = event
    BY <1>2, <1>11 DEF n
  <2> QED  BY <1>1, <1>3, <1>7, <2>1 DEF Dispatched
<1> QED
  BY <1>9, <1>10, <1>11

\* The phases.
LEMMA ScanningIs ==
  /\ Scanning.phase = "scan" /\ Idle.phase = "idle"
  BY DEF Scanning, Idle

\* A callback has returned, and nothing else is asked for.
LEMMA ReturnsKeep ==
  ASSUME IInv, scan.phase \in {"input", "output"}, scan' = Scanning, event' = None, net' = net
  PROVE  Dispatched
<1>1. Good(net, Scanning)
  BY ScanGoes, ScanningIs DEF IInv
<1> QED
  BY <1>1, ScanningIs DEF Dispatched, Tells

\* An input has been served.
LEMMA InputReturnsKeeps == ASSUME IInv, InputReturns PROVE Dispatched
<1> DEFINE o == scan.stream
           fd == scan.fd
<1>1. CASE Ask(net.disp, "out", o, fd)
  <2>1. scan.phase = "input" /\ Call(net, "out", o, scan.key, fd)
    BY <1>1 DEF InputReturns
  <2>2. Good(net, scan) /\ ReadyFits(net, scan)
    BY DEF IInv, Good, Base
  <2>3. fd \in net.disp.output
    BY <1>1 DEF Ask
  <2>4. /\ <<fd, "out">> \in net.told /\ o \in Streams
        /\ Serves(net, o, fd, "out") /\ Key(net.disp, o) = scan.key
    BY <2>1, <2>2, <2>3 DEF ReadyFits
  <2> HIDE DEF o, fd
  <2>5. Good(net', scan') /\ event' \in Tells /\ scan'.phase = "output" /\ CallFit("out")
    BY <2>1, <2>2, <2>4, CallKeeps DEF Directions
  <2> QED  BY <2>5 DEF Dispatched
<1>2. CASE ~Ask(net.disp, "out", o, fd)
  BY <1>2, ReturnsKeep DEF InputReturns
<1> QED
  BY <1>1, <1>2

\* An output has been served.
LEMMA OutputReturnsKeeps == ASSUME IInv, OutputReturns PROVE Dispatched
  BY ReturnsKeep DEF OutputReturns

\* The sets and the iterator are set anew.
Redirected(n, in, out, cur, told) ==
  [n EXCEPT !.told = told, !.disp.input = in, !.disp.output = out, !.disp.cursor = cur]

\* A round's sets, iterator and tellings by the fields of net.
LEMMA Redirection ==
  ASSUME NEW n \in Nets, NEW in, NEW out, NEW cur, NEW told, NEW d, d = n.disp
  PROVE  Redirected(n, in, out, cur, told) =
           Net(n.sock, n.file, Disp(d.owner, d.flags, d.socketPool, d.genericPool, in, out, cur, d.dangling), told)
<1> DEFINE e(i, j, k) == Disp(d.owner, d.flags, d.socketPool, d.genericPool, i, j, k, d.dangling)
           l1 == [n EXCEPT !.told = told]
           l2 == [l1 EXCEPT !.disp.input = in]
           l3 == [l2 EXCEPT !.disp.output = out]
           l4 == [l3 EXCEPT !.disp.cursor = cur]
<1>1. d \in Dispatchers
  BY DEF Nets
<1>2. d = e(d.input, d.output, d.cursor)
  BY <1>1 DEF Dispatchers, Disp
<1>3. /\ [d EXCEPT !.input = in] = e(in, d.output, d.cursor)
      /\ [e(in, d.output, d.cursor) EXCEPT !.output = out] = e(in, out, d.cursor)
      /\ [e(in, out, d.cursor) EXCEPT !.cursor = cur] = e(in, out, cur)
  BY <1>1 DEF Dispatchers, Disp
<1> HIDE DEF e
<1>4. l1 = Net(n.sock, n.file, d, told)
  BY DEF Nets, Net
<1> HIDE DEF l1
<1>5. l2 = Net(n.sock, n.file, e(in, d.output, d.cursor), told)
  <2>1. [Net(n.sock, n.file, d, told) EXCEPT !.disp.input = in] = Net(n.sock, n.file, [d EXCEPT !.input = in], told)
    BY DEF Net
  <2> QED  BY <1>3, <1>4, <2>1
<1> HIDE DEF l2
<1>6. l3 = Net(n.sock, n.file, e(in, out, d.cursor), told)
  <2> DEFINE f == e(in, d.output, d.cursor)
  <2>1. l2 = Net(n.sock, n.file, f, told) /\ [f EXCEPT !.output = out] = e(in, out, d.cursor)
    BY <1>3, <1>5
  <2> HIDE DEF f
  <2>2. [Net(n.sock, n.file, f, told) EXCEPT !.disp.output = out] = Net(n.sock, n.file, [f EXCEPT !.output = out], told)
    BY DEF Net
  <2> QED  BY <2>1, <2>2
<1> HIDE DEF l3
<1>7. l4 = Net(n.sock, n.file, e(in, out, cur), told)
  <2> DEFINE f == e(in, out, d.cursor)
  <2>1. l3 = Net(n.sock, n.file, f, told) /\ [f EXCEPT !.cursor = cur] = e(in, out, cur)
    BY <1>3, <1>6
  <2> HIDE DEF f
  <2>2. [Net(n.sock, n.file, f, told) EXCEPT !.disp.cursor = cur] = Net(n.sock, n.file, [f EXCEPT !.cursor = cur], told)
    BY DEF Net
  <2> QED  BY <2>1, <2>2
<1>8. [n EXCEPT !.told = told, !.disp.input = in, !.disp.output = out, !.disp.cursor = cur] = l4
  BY DEF l1, l2, l3
<1> QED
  BY <1>7, <1>8 DEF e, Redirected

\* What Wait() asks select() for are the descriptors that streams serve.
LEMMA WantedIs ==
  ASSUME Good(net, scan), NEW w \in Wanted
  PROVE  /\ w \in Fds \X Directions /\ w = <<w[1], w[2]>>
         /\ \E o \in Streams : Serves(net, o, w[1], w[2])
<1>1. PICK o \in Active(net.disp) : w \in {<<Handle(o), dir>> : dir \in net.disp.flags[o]}
  BY DEF Wanted
<1>2. PICK dir \in net.disp.flags[o] : w = <<Handle(o), dir>>
  BY <1>1
<1>3. o \in Streams /\ net.disp.owner[o] # None
  BY DEF Active
<1>4. dir \in Directions
  BY <1>3 DEF Good, Base, Nets, Dispatchers
<1>5. Serves(net, o, Handle(o), dir)
  BY <1>3, HandleIs DEF Serves
<1>6. Handle(o) \in Fds
  BY <1>3, <1>5, ServedWants
<1> QED
  BY <1>2, <1>3, <1>4, <1>5, <1>6

\* Wait().
LEMMA WaitKeeps == ASSUME IInv, Wait PROVE Dispatched
<1> DEFINE d == net.disp
           cur == Iter!Start(Table(d))
<1>1. PICK told \in SUBSET {w \in Wanted : MayBeReady(net.file[w[1]], w[2])} :
        net' = [net EXCEPT !.told = told,
                           !.disp.input = {t[1] : t \in {u \in told : u[2] = "in"}},
                           !.disp.output = {t[1] : t \in {u \in told : u[2] = "out"}},
                           !.disp.cursor = Iter!Start(Table(net.disp))]
  BY DEF Wait
<1>2. scan.phase = "idle" /\ scan' = Scanning /\ event' = None
  BY DEF Wait
<1>3. Good(net, scan) /\ Base(net, scan) /\ net \in Nets /\ Wired(d)
  BY DEF IInv, Good, Base
<1> DEFINE in == {t[1] : t \in {u \in told : u[2] = "in"}}
           out == {t[1] : t \in {u \in told : u[2] = "out"}}
           e == Disp(d.owner, d.flags, d.socketPool, d.genericPool, in, out, cur, d.dangling)
<1>4. \A w \in told : /\ w \in Fds \X Directions /\ w = <<w[1], w[2]>> /\ MayBeReady(net.file[w[1]], w[2])
                      /\ \E o \in Streams : Serves(net, o, w[1], w[2])
  BY <1>3, WantedIs
<1>5. /\ \A fd \in in : <<fd, "in">> \in told
      /\ \A fd \in out : <<fd, "out">> \in told
  BY <1>4
<1>6. /\ \A fd \in in : fd \in Fds /\ \E o \in Streams : Serves(net, o, fd, "in")
      /\ \A fd \in out : fd \in Fds /\ \E o \in Streams : Serves(net, o, fd, "out")
  <2>1. ASSUME NEW fd \in in PROVE fd \in Fds /\ \E o \in Streams : Serves(net, o, fd, "in")
    <3>1. <<fd, "in">> \in told
      BY <1>5
    <3>2. <<fd, "in">>[1] = fd /\ <<fd, "in">>[2] = "in"
      OBVIOUS
    <3> QED  BY <1>4, <3>1, <3>2
  <2>2. ASSUME NEW fd \in out PROVE fd \in Fds /\ \E o \in Streams : Serves(net, o, fd, "out")
    <3>1. <<fd, "out">> \in told
      BY <1>5
    <3>2. <<fd, "out">>[1] = fd /\ <<fd, "out">>[2] = "out"
      OBVIOUS
    <3> QED  BY <1>4, <3>1, <3>2
  <2> QED  BY <2>1, <2>2
<1>7. net' = Net(net.sock, net.file, e, told)
  <2>1. net' = Redirected(net, in, out, cur, told)
    BY <1>1 DEF Redirected
  <2> HIDE DEF in, out, cur
  <2> QED  BY <1>3, <2>1, Redirection DEF d
<1> HIDE DEF in, out
<1>8. Stands(cur, Table(d))
  <2>1. Table(d) \in SUBSET Keys
    BY <1>3, TableIs, TableInKeys DEF Wired
  <2> HIDE DEF d
  <2> QED  BY <2>1, StartStands
<1> HIDE DEF cur
<1>9. Wired(e)
  <2>1. in \in SUBSET Fds /\ out \in SUBSET Fds
    BY <1>6
  <2> HIDE DEF d
  <2> QED  BY <1>3, <1>8, <2>1, RedirectedWired
<1>10. e.owner = d.owner /\ e.flags = d.flags /\ e.input = in /\ e.output = out /\ e.cursor = cur
  BY DEF Disp
<1> HIDE DEF e
<1>11. net'.sock = net.sock /\ net'.file = net.file /\ net'.disp = e /\ net'.told = told
  BY <1>7, NetFields
<1>12. ReadyFits(net', Scanning)
  <2>1. \A o, fd, dir : Serves(net, o, fd, dir) => Serves(net', o, fd, dir)
    BY <1>10, <1>11 DEF Serves, HandleOf
  <2> QED  BY <1>5, <1>6, <1>10, <1>11, <2>1, ScanningIs DEF ReadyFits
<1>13. ToldFits(net')
  <2> SUFFICES ASSUME NEW fd \in Fds, <<fd, "out">> \in told PROVE net.file[fd] # "connecting"
    BY <1>11 DEF ToldFits
  <2>1. <<fd, "out">>[1] = fd /\ <<fd, "out">>[2] = "out"
    OBVIOUS
  <2>2. MayBeReady(net.file[fd], "out")
    BY <1>4, <2>1
  <2> QED  BY <2>2 DEF MayBeReady, MustBeReady
<1>14. told \in SUBSET (Fds \X Directions)
  BY <1>4
<1>15. cur # None
  BY <1>8, NoCursor DEF Stands
<1>16. Good(net', Scanning)
  BY <1>3, <1>7, <1>9, <1>10, <1>12, <1>13, <1>14, <1>15, RedirectedKeeps, ScanningIs
<1> QED
  BY <1>2, <1>16, ScanningIs DEF Dispatched, Tells

\* The end of Dispatch().
LEMMA EndDispatchKeeps == ASSUME IInv, EndDispatch PROVE Dispatched
<1> DEFINE d == net.disp
           e == Disp(d.owner, d.flags, d.socketPool, d.genericPool, {}, {}, None, d.dangling)
<1>1. /\ net' = [net EXCEPT !.told = {}, !.disp.input = {}, !.disp.output = {}, !.disp.cursor = None]
      /\ scan' = Idle /\ event' = None
  BY DEF EndDispatch
<1>2. Good(net, scan) /\ net \in Nets /\ Wired(d)
  BY DEF IInv, Good, Base
<1>3. net' = Net(net.sock, net.file, e, {})
  <2>1. net' = Redirected(net, {}, {}, None, {})
    BY <1>1 DEF Redirected
  <2> QED  BY <1>2, <2>1, Redirection
<1>4. Wired(e)
  <2>1. Wired(Disp(d.owner, d.flags, d.socketPool, d.genericPool, {}, {}, None, d.dangling))
    <3> HIDE DEF d
    <3> QED  BY <1>2, RedirectedWired
  <2> QED  BY <2>1
<1>5. e.owner = d.owner /\ e.flags = d.flags /\ e.input = {} /\ e.output = {} /\ e.cursor = None
  BY DEF Disp
<1> HIDE DEF e
<1>6. net'.disp = e /\ net'.told = {}
  BY <1>3, NetFields
<1>7. ReadyFits(net', Idle) /\ ToldFits(net')
  BY <1>5, <1>6 DEF ReadyFits, ToldFits
<1>8. Good(net', Idle)
  <2> DEFINE told == {}
  <2>1. told \in SUBSET (Fds \X Directions) /\ net' = Net(net.sock, net.file, e, told)
    BY <1>3
  <2> HIDE DEF told
  <2> QED  BY <1>2, <1>4, <1>5, <1>7, <2>1, RedirectedKeeps, ScanningIs
<1> QED
  BY <1>1, <1>8, ScanningIs DEF Dispatched, Tells

\* Every step of the dispatcher.
LEMMA DispatchingKeeps == ASSUME IInv, Dispatching PROVE Dispatched
  BY WaitKeeps, VisitKeeps, InputReturnsKeeps, OutputReturnsKeeps, EndDispatchKeeps DEF Dispatching

\* The other end.
LEMMA PeerKeeps == ASSUME IInv, Peer PROVE IInv'
<1>1. PICK fd \in Fds, state \in FileStates :
        /\ \/ net.file[fd] = "connecting" /\ state \in {"up", "refused"}
           \/ net.file[fd] = "up" /\ state \in {"ended", "reset"}
           \/ net.file[fd] = "listening" /\ state = "pending"
        /\ net' = [net EXCEPT !.file[fd] = state]
        /\ event' = None /\ scan' = scan
  BY DEF Peer
<1>2. Good(net, scan) /\ Base(net, scan) /\ net \in Nets
  BY DEF IInv, Good, Base
<1>3. PICK s \in Sockets : net.sock[s].handle = fd
  BY <1>1, <1>2 DEF Base, Owned
<1>4. SockOk(net, s) /\ fd # None
  BY <1>2, NoneApart DEF Good
<1>5. net.sock[s].protocol = "TCP"
  BY <1>1, <1>2, <1>3, <1>4 DEF Base, Owned, FilesOf
<1>6. net.file[fd] \in FilesIn(net.sock[s].state) /\ net.sock[s].state \in States
  BY <1>2, <1>3, <1>4, <1>5 DEF SockOk, Nets, SocketRecords
<1>7. state \in FilesIn(net.sock[s].state) /\ state # "connecting"
  BY <1>1, <1>6 DEF FilesIn, States, Listeners, Connections
<1>8. Good(net', scan)
  BY <1>1, <1>2, <1>3, <1>4, <1>5, <1>7, FileMoves
<1> QED
  BY <1>1, <1>8 DEF IInv, Tells

-----------------------------------------------------------------------------
\* What users call.

\* The assumption: nobody connects an open UDP socket that is not bound, or calls
\* Listen() for a socket that is connected or connecting.
Orderly == {"connect unbound", "listen connected"} \cap Calls = {}

\* A call that leaves all well keeps the invariant,
LEMMA DoesKeeps ==
  ASSUME IInv, NEW call, NEW n, Does(call, n), Good(n, scan) PROVE IInv' /\ scan' = scan
<1>1. net' = n /\ event' = None /\ scan' = scan
  BY DEF Does
<1> QED
  BY <1>1 DEF IInv, Tells

\* and so does one that tells the listener itself.
LEMMA DoesAndTellsKeeps ==
  ASSUME IInv, NEW call, NEW s \in Sockets, NEW told, DoesAndTells(call, s, told), Good(told.net, scan),
         told.event \in Events
  PROVE  IInv' /\ scan' = scan
<1>1. net' = told.net /\ event' = <<s, told.event>> /\ scan' = scan
  BY DEF DoesAndTells
<1> QED
  BY <1>1 DEF IInv, Tells

\* The calls that open, bind, close and so on.
LEMMA SocketCallKeeps ==
  ASSUME Orderly, IInv, NEW s \in Sockets, Alive(s), NEW can \in BOOLEAN, SocketCall(s, can)
  PROVE  IInv' /\ scan' = scan
<1>1. Good(net, scan) /\ Opening(net, scan, s) /\ net.sock[s].alive
  BY GoodOpening DEF IInv, Alive
<1>2. CASE Does("open", Open(net, s, can))
  <2>1. Good(Open(net, s, can), scan)
    BY <1>1, OpenOpens
  <2> QED  BY <1>2, <2>1, DoesKeeps
<1>3. CASE Does("unbound", OpenUnbound(net, s, can))
  <2>1. Good(OpenUnbound(net, s, can), scan)
    BY <1>1, OpenUnboundOpens
  <2> QED  BY <1>3, <2>1, DoesKeeps
<1>4. CASE Does("bind", Bind(net, s, can))
  <2>1. Good(Bind(net, s, can), scan)
    BY <1>1, BindKeeps
  <2> QED  BY <1>4, <2>1, DoesKeeps
<1>5. CASE Does("close", Close(net, s, can))
  <2>1. Good(Close(net, s, can), scan)
    BY <1>1, CloseCloses
  <2> QED  BY <1>5, <2>1, DoesKeeps
<1>6. CASE Does("disconnect", Disconnect(net, s, can))
  <2>1. Good(Disconnect(net, s, can), scan)
    BY <1>1, DisconnectKeeps
  <2> QED  BY <1>6, <2>1, DoesKeeps
<1>7. CASE Does(IF net.sock[s].state \in {"CONNECTING", "CONNECTED"} THEN "listen connected" ELSE "listen",
                Listen(net, s, can))
  <2>1. net.sock[s].state \notin {"CONNECTING", "CONNECTED"}
    BY <1>7 DEF Does, Orderly
  <2>2. Good(Listen(net, s, can), scan)
    BY <1>1, <2>1, ListenKeeps
  <2> QED  BY <1>7, <2>2, DoesKeeps
<1>8. CASE Does("shutdown", Shutdown(net, s, can))
  <2>1. Good(Shutdown(net, s, can), scan)
    BY <1>1, ShutdownKeeps
  <2> QED  BY <1>8, <2>1, DoesKeeps
<1>9. CASE Does("delete", [Close(net, s, can) EXCEPT !.sock[s] = DeadSocket])
  <2>1. Good([Close(net, s, can) EXCEPT !.sock[s] = DeadSocket], scan)
    BY <1>1, DeleteKeeps
  <2> QED  BY <1>9, <2>1, DoesKeeps
<1> QED
  BY <1>2, <1>3, <1>4, <1>5, <1>6, <1>7, <1>8, <1>9 DEF SocketCall

\* Connect().
LEMMA ConnectCallKeeps ==
  ASSUME Orderly, IInv, NEW s \in Sockets, Alive(s), NEW can \in BOOLEAN, ConnectCall(s, can)
  PROVE  IInv' /\ scan' = scan
<1>1. PICK outcome \in {"up", "connecting", "fails"} :
        /\ outcome = "connecting" => net.sock[s].notifier /\ IsTcp(net, s)
        /\ Does(IF IsTcp(net, s) \/ IsBound(net, s) \/ ~IsOpen(net, s) THEN "connect" ELSE "connect unbound",
                Connect(net, s, can, outcome))
  BY DEF ConnectCall
<1>2. IsTcp(net, s) \/ IsBound(net, s) \/ ~IsOpen(net, s)
  BY <1>1 DEF Does, Orderly
<1>3. Good(Connect(net, s, can, outcome), scan)
  BY <1>1, <1>2, ConnectKeeps DEF IInv, Alive
<1> QED
  BY <1>1, <1>3, DoesKeeps

\* Accept().
LEMMA AcceptCallKeeps ==
  ASSUME IInv, NEW s \in Sockets, Alive(s), AcceptCall(s) PROVE IInv' /\ scan' = scan
<1>1. PICK t \in Sockets : /\ t = s \/ (net.sock[t].alive /\ net.sock[t].state = "CLOSED")
                           /\ IsTcp(net, s) /\ Does("accept", Accept(net, s, t))
  BY DEF AcceptCall
<1>2. Good(Accept(net, s, t), scan)
  BY <1>1, AcceptKeeps DEF IInv, Alive
<1> QED
  BY <1>1, <1>2, DoesKeeps

\* What users switch on and off.
LEMMA SettingsKeep ==
  ASSUME IInv, NEW s \in Sockets, Settings(s) PROVE IInv' /\ scan' = scan
<1>1. PICK on \in BOOLEAN :
        \/ Does("notifier", SetNotifier(net, s, on))
        \/ Does("listener", SetListener(net, s, on))
        \/ Does("input", SetInput(net, s, on))
        \/ Does("output", SetOutput(net, s, on))
  BY DEF Settings
<1>2. Good(net, scan)
  BY DEF IInv
<1>3. /\ Good(SetNotifier(net, s, on), scan) /\ Good(SetListener(net, s, on), scan)
      /\ Good(SetInput(net, s, on), scan) /\ Good(SetOutput(net, s, on), scan)
  BY <1>2, NotifierKeeps, ListenerKeeps, InputKeeps, OutputKeeps DEF SetInput, SetOutput
<1> QED
  BY <1>1, <1>3, DoesKeeps

\* A new socket.
LEMMA CreateCallKeeps ==
  ASSUME IInv, NEW s \in Sockets, Create(s) PROVE IInv' /\ scan' = scan
<1>1. PICK p \in Protocols : Does("create", [net EXCEPT !.sock[s] = NewSocket(p)])
  BY DEF Create
<1>2. ~net.sock[s].alive /\ p \in {"TCP", "UDP"}
  BY SocketAssumption DEF Create, Alive
<1>3. Good([net EXCEPT !.sock[s] = NewSocket(p)], scan)
  BY <1>2, CreateKeeps DEF IInv
<1> QED
  BY <1>1, <1>3, DoesKeeps

\* Send() and Recv(), which end a connection.
LEMMA TransferKeeps ==
  ASSUME IInv, NEW s \in Sockets, NEW can \in BOOLEAN, Transfer(s, can) PROVE IInv' /\ scan' = scan
<1> DEFINE e == NotifyError(net, s, can)
           z == NotifyNone(net, s, can)
<1>1. Good(Disconnect(net, s, can), scan)
  BY DisconnectKeeps DEF IInv
<1>2. e.net = Disconnect(net, s, can) /\ e.event \in Events
  BY DEF NotifyError, Told, Events
<1>3. z.net = Disconnect(net, s, can) /\ z.event \in Events
  BY DEF NotifyNone, Told, Events
<1>4. \/ DoesAndTells("send", s, e) \/ DoesAndTells("recv", s, e)
      \/ DoesAndTells("recv", s, z) \/ DoesAndTells("empty", s, z)
  BY DEF Transfer
<1> HIDE DEF e, z
<1>5. Good(e.net, scan) /\ Good(z.net, scan)
  BY <1>1, <1>2, <1>3
<1>6. ASSUME NEW call, DoesAndTells(call, s, e) PROVE IInv' /\ scan' = scan
  BY <1>2, <1>5, <1>6, DoesAndTellsKeeps
<1>7. ASSUME NEW call, DoesAndTells(call, s, z) PROVE IInv' /\ scan' = scan
  BY <1>3, <1>5, <1>7, DoesAndTellsKeeps
<1> QED
  BY <1>4, <1>6, <1>7

\* Pipes and their callbacks.
LEMMA GenericCallKeeps ==
  ASSUME IInv, NEW fd \in Fds, GenericCall(fd) PROVE IInv' /\ scan' = scan
<1>1. Good(net, scan)
  BY DEF IInv
<1>2. CASE fd \in FreeFds(net) /\ Does("pipe", SetFile(net, fd, "pipe"))
  <2>1. Good(SetFile(net, fd, "pipe"), scan)
    BY <1>1, <1>2, PipeKeeps DEF FreeFds
  <2> QED  BY <1>2, <2>1, DoesKeeps
<1>3. CASE net.file[fd] = "pipe" /\ ~HasGenericStream(net.disp, fd) /\ Does("pipe", SetFile(net, fd, "free"))
  <2>1. Good(SetFile(net, fd, "free"), scan)
    BY <1>1, <1>3, PipeKeeps
  <2> QED  BY <1>3, <2>1, DoesKeeps
<1>4. ASSUME NEW dir \in Directions, net.file[fd] = "pipe",
             \/ /\ dir = "in" \/ HasGenericStream(net.disp, fd)
                /\ HasGenericStream(net.disp, fd) \/ net.disp.genericPool # <<>>
                /\ Does("install", [net EXCEPT !.disp = InstallGeneric(@, fd, dir)])
             \/ Does("remove", [net EXCEPT !.disp = RemoveGeneric(@, fd, dir)])
      PROVE  IInv' /\ scan' = scan
  <2>1. CASE /\ HasGenericStream(net.disp, fd) \/ (dir = "in" /\ net.disp.genericPool # <<>>)
             /\ Does("install", [net EXCEPT !.disp = InstallGeneric(@, fd, dir)])
    <3>1. Good([net EXCEPT !.disp = InstallGeneric(@, fd, dir)], scan)
      BY <1>1, <1>4, <2>1, GenericKeeps
    <3> QED  BY <2>1, <3>1, DoesKeeps
  <2>2. CASE Does("remove", [net EXCEPT !.disp = RemoveGeneric(@, fd, dir)])
    <3>1. Good([net EXCEPT !.disp = RemoveGeneric(@, fd, dir)], scan)
      BY <1>1, <1>4, GenericKeeps
    <3> QED  BY <2>2, <3>1, DoesKeeps
  <2> QED  BY <1>4, <2>1, <2>2
<1> QED
  BY <1>2, <1>3, <1>4 DEF GenericCall

\* Whatever users call.
LEMMA UserKeeps == ASSUME Orderly, IInv, User PROVE IInv' /\ scan' = scan
<1>1. CASE \E s \in Sockets : Alive(s) /\ \E can \in BOOLEAN : SocketCall(s, can) \/ ConnectCall(s, can) \/ Transfer(s, can)
  BY <1>1, SocketCallKeeps, ConnectCallKeeps, TransferKeeps
<1>2. CASE \E s \in Sockets : Alive(s) /\ (AcceptCall(s) \/ Settings(s))
  BY <1>2, AcceptCallKeeps, SettingsKeep
<1>3. CASE \E s \in Sockets : Create(s)
  BY <1>3, CreateCallKeeps
<1>4. CASE \E fd \in Fds : GenericCall(fd)
  BY <1>4, GenericCallKeeps
<1>5. CASE UNCHANGED <<net, scan, event>>
  BY <1>5 DEF IInv
<1> QED
  BY <1>1, <1>2, <1>3, <1>4, <1>5 DEF User

-----------------------------------------------------------------------------
\* The invariant.

\* The start.
LEMMA InitKeeps == Init => IInv
<1> SUFFICES ASSUME Init PROVE IInv
  OBVIOUS
<1>1. /\ net.sock = [s \in Sockets |-> [NewSocket("TCP") EXCEPT !.notifier = s \in Attached, !.listener = s \in Attached]]
      /\ net.file = [fd \in Fds |-> "free"] /\ net.disp = NewDispatcher /\ net.told = {}
      /\ net = [sock |-> net.sock, file |-> net.file, disp |-> net.disp, told |-> net.told]
      /\ scan.phase = "idle" /\ event = None
  BY DEF Init
<1>2. ASSUME NEW s \in Sockets
      PROVE  /\ net.sock[s] \in SocketRecords
             /\ net.sock[s].state = "CLOSED" /\ net.sock[s].handle = None /\ net.sock[s].protocol = "TCP"
  <2> DEFINE m == NewSocket("TCP")
             k == [m EXCEPT !.notifier = s \in Attached]
  <2>1. m \in SocketRecords /\ m.state = "CLOSED" /\ m.handle = None /\ m.protocol = "TCP"
    BY DEF NewSocket, SocketRecords, States
  <2>2. (s \in Attached) \in BOOLEAN
    OBVIOUS
  <2> HIDE DEF m
  <2>3. k \in SocketRecords /\ k.state = "CLOSED" /\ k.handle = None /\ k.protocol = "TCP"
    BY <2>1, <2>2 DEF SocketRecords
  <2>4. net.sock[s] = [k EXCEPT !.listener = s \in Attached]
    BY <1>1 DEF m
  <2> HIDE DEF k
  <2>5. net.sock[s] \in SocketRecords
    BY <2>2, <2>3, <2>4 DEF SocketRecords
  <2>6. net.sock[s].state = k.state /\ net.sock[s].handle = k.handle /\ net.sock[s].protocol = k.protocol
    BY <2>3, <2>4 DEF SocketRecords
  <2> QED  BY <2>3, <2>5, <2>6
<1>3. Wired(net.disp) /\ net.disp.input = {} /\ net.disp.output = {} /\ net.disp.cursor = None
      /\ \A o \in Streams : net.disp.owner[o] = None
  BY <1>1, NewDispatcherWired
<1>4. net \in Nets
  <2>1. net.sock \in [Sockets -> SocketRecords]
    BY <1>1, <1>2
  <2>2. net.file \in [Fds -> FileStates]
    BY <1>1 DEF FileStates
  <2> QED  BY <1>1, <1>3, <2>1, <2>2 DEF Nets, Wired
<1>5. \A s \in Sockets : ~HasSocketStream(net.disp, s)
  BY <1>3, NoneApart DEF HasSocketStream
<1>6. Owned(net)
  BY <1>1, <1>2, <1>3, <1>5, NoneApart DEF Owned
<1>7. ReadyFits(net, scan) /\ ToldFits(net)
  BY <1>1, <1>3 DEF ReadyFits, ToldFits
<1>8. ASSUME NEW s \in Sockets PROVE SockOk(net, s) /\ WatchOk(net, s)
  <2>1. SockOk(net, s)
    BY <1>2 DEF SockOk
  <2> QED  BY <1>2, <1>5, <2>1, ClosedWatch
<1> QED
  BY <1>1, <1>3, <1>4, <1>6, <1>7, <1>8 DEF IInv, Good, Base, Tells

\* Every step keeps the invariant, and calls only whom it fits.
LEMMA NextKeeps ==
  ASSUME Orderly, IInv, [Next]_vars
  PROVE  /\ IInv'
         /\ \A dir \in Directions :
              scan'.phase = (IF dir = "in" THEN "input" ELSE "output") /\ scan.phase # scan'.phase => CallFit(dir)
<1>1. CASE User
  BY <1>1, UserKeeps
<1>2. CASE Peer
  <2>1. scan' = scan
    BY <1>2 DEF Peer
  <2> QED  BY <1>2, <2>1, PeerKeeps
<1>3. CASE Dispatching
  <2>1. Dispatched
    BY <1>3, DispatchingKeeps
  <2>2. IInv'
    BY <2>1 DEF Dispatched, IInv, Tells
  <2> QED  BY <2>1, <2>2 DEF Dispatched, Directions
<1>4. CASE UNCHANGED vars
  BY <1>4 DEF vars, IInv
<1> QED
  BY <1>1, <1>2, <1>3, <1>4 DEF Next

-----------------------------------------------------------------------------
\* The theorems.

\* Whatever users, peers and callbacks do, the sockets, their descriptors and the
\* dispatcher's streams fit together as the invariant says.
THEOREM SocketInvariant == Orderly => (Spec => []IInv)
<1> SUFFICES ASSUME Orderly PROVE Spec => []IInv
  OBVIOUS
<1>1. Init => IInv
  BY InitKeeps
<1>2. IInv /\ [Next]_vars => IInv'
  BY NextKeeps
<1> QED
  BY <1>1, <1>2, PTL DEF Spec

\* The invariant knows the types.
LEMMA Typed == ASSUME IInv PROVE TypeOK
<1>1. net \in Nets /\ OneEach(net.disp.owner) /\ net.disp \in Dispatchers /\ event \in Tells
  BY DEF IInv, Good, Base, Wired
<1>2. /\ net.sock \in [Sockets -> SocketRecords] /\ net.file \in [Fds -> FileStates]
      /\ net.told \subseteq Fds \X Directions
  BY <1>1 DEF Nets
<1>3. /\ \A o \in Streams : net.disp.flags[o] \subseteq Directions
      /\ net.disp.input \cup net.disp.output \subseteq Fds
  BY <1>1 DEF Dispatchers
<1> QED
  BY <1>1, <1>2, <1>3 DEF TypeOK, SocketRecords, OneEach, Tells

\* The types.
THEOREM SocketTypes == Orderly => (Spec => []TypeOK)
<1> SUFFICES ASSUME Orderly PROVE Spec => []TypeOK
  OBVIOUS
<1>1. IInv => TypeOK
  BY Typed
<1>2. Spec => []IInv
  BY SocketInvariant
<1> QED
  BY <1>1, <1>2, PTL

\* After every call the dispatcher watches for each socket what the socket wants and
\* no more: UpdateNotification() has been called wherever the state it reads changes.
THEOREM SocketsWatched == Orderly => (Spec => []NotificationFits)
<1> SUFFICES ASSUME Orderly PROVE Spec => []NotificationFits
  OBVIOUS
<1>1. ASSUME IInv PROVE NotificationFits
  <2> SUFFICES ASSUME NEW s \in Sockets
               PROVE  LET wanted == IF net.sock[s].notifier THEN WantedFlags(net, s) ELSE {}
                      IN  /\ HasSocketStream(net.disp, s) <=> wanted # {}
                          /\ HasSocketStream(net.disp, s) => net.disp.flags[SocketStream(net.disp, s)] = wanted
    BY DEF NotificationFits
  <2> DEFINE wanted == IF net.sock[s].notifier THEN WantedFlags(net, s) ELSE {}
  <2>1. Watches(net.disp, s, wanted)
    BY <1>1 DEF IInv, Good, WatchOk
  <2>2. HasSocketStream(net.disp, s) => \E o \in SocketStreams : net.disp.owner[o] = s
    BY DEF HasSocketStream
  <2>3. HasSocketStream(net.disp, s) =>
          SocketStream(net.disp, s) \in SocketStreams /\ net.disp.owner[SocketStream(net.disp, s)] = s
    BY <2>2 DEF SocketStream
  <2> HIDE DEF wanted
  <2>4. HasSocketStream(net.disp, s) <=> wanted # {}
    BY <2>1 DEF Watches
  <2>5. HasSocketStream(net.disp, s) => net.disp.flags[SocketStream(net.disp, s)] = wanted
    BY <2>1, <2>3 DEF Watches
  <2> QED
    BY <2>4, <2>5 DEF wanted
<1>2. IInv => NotificationFits
  BY <1>1
<1>3. Spec => []IInv
  BY SocketInvariant
<1> QED
  BY <1>2, <1>3, PTL

\* Each descriptor that is open has just one owner, and each watched one is open.
THEOREM DescriptorsKept == Orderly => (Spec => []DescriptorsOwned)
<1> SUFFICES ASSUME Orderly PROVE Spec => []DescriptorsOwned
  OBVIOUS
<1>1. ASSUME IInv PROVE DescriptorsOwned
  <2>1. /\ TypeOK /\ net \in Nets /\ Owned(net)
        /\ \A s \in Sockets : SockOk(net, s)
    BY <1>1, Typed DEF IInv, Good, Base
  <2>2. \A s \in Sockets : IsOpen(net, s) <=> net.sock[s].handle # None
    BY <2>1 DEF SockOk, IsOpen
  <2>3. ASSUME NEW fd \in Fds
        PROVE  LET owners == {s \in Sockets : net.sock[s].handle = fd}
               IN  Cardinality(owners) = IF net.file[fd] \in {"free", "pipe"} THEN 0 ELSE 1
    <3> DEFINE owners == {s \in Sockets : net.sock[s].handle = fd}
    <3>1. fd # None
      BY NoneApart
    <3>2. CASE net.file[fd] \in {"free", "pipe"}
      <4>1. owners = {}
        BY <2>1, <3>1, <3>2 DEF Owned, FilesOf
      <4> QED
        BY <3>2, <4>1, FS_EmptySet
    <3>3. CASE net.file[fd] \notin {"free", "pipe"}
      <4>1. PICK s \in Sockets : net.sock[s].handle = fd
        BY <2>1, <3>3 DEF Owned
      <4>2. \A u \in owners : u = s
        BY <2>1, <3>1, <4>1 DEF Owned
      <4>3. owners = {s}
        BY <4>1, <4>2
      <4> HIDE DEF owners
      <4>4. Cardinality(owners) = 1
        BY <4>3, FS_Singleton
      <4> QED
        BY <3>3, <4>4 DEF owners
    <3> QED
      BY <3>2, <3>3
  <2>4. \A o \in Generics : net.disp.owner[o] # None => net.file[net.disp.owner[o]] = "pipe"
    BY <2>1 DEF Owned
  <2> QED
    BY <2>1, <2>2, <2>3, <2>4 DEF DescriptorsOwned
<1>2. IInv => DescriptorsOwned
  BY <1>1
<1>3. Spec => []IInv
  BY SocketInvariant
<1> QED
  BY <1>2, <1>3, PTL

\* A TCP socket says it is connecting, connected or listening only if it is.
THEOREM StatesKept == Orderly => (Spec => []StateFits)
<1> SUFFICES ASSUME Orderly PROVE Spec => []StateFits
  OBVIOUS
<1>1. ASSUME IInv PROVE StateFits
  <2>1. \A s \in Sockets : SockOk(net, s)
    BY <1>1 DEF IInv, Good
  <2> QED
    BY <2>1 DEF StateFits, SockOk, IsOpen, IsTcp, FilesIn
<1>2. IInv => StateFits
  BY <1>1
<1>3. Spec => []IInv
  BY SocketInvariant
<1> QED
  BY <1>2, <1>3, PTL

\* Dispatch() calls only a socket or a callback that exists, asks for the call and has
\* been found ready by the Wait() before, and with a valid event.
THEOREM CallsAreFit == Orderly => (Spec => CallsFit)
<1> SUFFICES ASSUME Orderly PROVE Spec => CallsFit
  OBVIOUS
<1>1. IInv /\ [Next]_vars =>
        [\A c \in {<<"input", "in">>, <<"output", "out">>} :
           scan'.phase = c[1] /\ scan.phase # c[1] =>
             LET k == scan'.key
                 owner == net.disp.owner[scan'.stream]
             IN  IF k \in Generics THEN <<owner, c[2]>> \in net.told
                 ELSE /\ net.sock[k].alive /\ owner = k
                      /\ c[2] \in WantedFlags(net, k)
                      /\ <<net.sock[k].handle, c[2]>> \in net.told
                      /\ event'[2] # "INVALID_EVENT"]_vars
  <2> SUFFICES ASSUME IInv, [Next]_vars, NEW c \in {<<"input", "in">>, <<"output", "out">>},
                      scan'.phase = c[1], scan.phase # c[1]
               PROVE  CallFit(c[2])
    BY DEF CallFit
  <2>1. c[2] \in Directions /\ c[1] = IF c[2] = "in" THEN "input" ELSE "output"
    BY DEF Directions
  <2> QED
    BY <2>1, NextKeeps
<1>2. Spec => []IInv
  BY SocketInvariant
<1> QED
  BY <1>1, <1>2, PTL DEF Spec, CallsFit
=============================================================================
