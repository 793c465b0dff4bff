-------------------------- MODULE DispatcherStreams --------------------------
(***************************************************************************)
(* The streams of a ProtoDispatcher: the table of what is to be watched,   *)
(* the pools its entries come from and return to, the descriptor sets of   *)
(* select() and the iterator of Dispatch() over the table.  A stream       *)
(* stands for a ProtoSocket or for a descriptor with a callback (generic). *)
(* The operators take a dispatcher d to the next; the actions are those of *)
(* ProtoSocket.  The build is UNIX with select(), where UpdateStream-      *)
(* Notification() cannot fail.                                             *)
(***************************************************************************)
EXTENDS Integers, Sequences, FiniteSets

CONSTANTS Sockets,         \* ProtoSockets, named by their addresses
          Generics,        \* GenericStreams, named by their addresses
          SocketStreams,   \* SocketStreams
          Fds,             \* descriptors
          None             \* NULL, INVALID_DESCRIPTOR

ASSUME StreamsAssumption ==
  /\ Sockets \cup Generics \cup Fds \subseteq Nat /\ Sockets \cap Generics = {}
  /\ IsFiniteSet(Sockets \cup Generics \cup SocketStreams)
  /\ Cardinality(SocketStreams) >= Cardinality(Sockets)
  /\ SocketStreams \cap Generics = {}
  /\ None \notin Sockets \cup Generics \cup SocketStreams \cup Fds
  /\ None \notin [prev : Sockets \cup Generics \cup {None}, next : Sockets \cup Generics \cup {None}]

Directions == {"in", "out"}
Streams == SocketStreams \cup Generics

Seqs == INSTANCE SequencesExt
Earlier(j, k) == j < k
Iter == INSTANCE Cursors WITH Less <- Earlier

\* owner is the socket, or the descriptor of a generic stream, and None in the pool.
NewDispatcher ==
  [owner |-> [o \in Streams |-> None], flags |-> [o \in Streams |-> {}],
   socketPool |-> Seqs!SetToSeq(SocketStreams), genericPool |-> Seqs!SetToSeq(Generics),
   input |-> {}, output |-> {}, cursor |-> None, dangling |-> FALSE]

\* The stream table: the key of a generic stream is its own address.
Active(d) == {o \in Streams : d.owner[o] # None}
Key(d, o) == IF o \in Generics THEN o ELSE d.owner[o]
Table(d) == {Key(d, o) : o \in Active(d)}
StreamAt(d, k) == CHOOSE o \in Active(d) : Key(d, o) = k

-------------------------------------------------------------------------------
\* StreamTable::Insert() and Remove(), which update the iterator.  It is "dangling"
\* when it has been made to follow the pointers of a removed stream.
Insert(d, o, owner) ==
  LET e == [d EXCEPT !.owner[o] = owner, !.flags[o] = {}]
  IN  [e EXCEPT !.cursor = IF @ = None THEN @ ELSE Iter!Inserted(@, Table(e))]

Remove(d, o) ==
  [d EXCEPT !.owner[o] = None, !.flags[o] = {},
            !.cursor = IF @ = None THEN @ ELSE Iter!Removed(@, Table(d), Key(d, o)),
            !.dangling = @ \/ (d.cursor # None /\ ~Iter!RemovalSafe(d.cursor, Key(d, o)))]

\* UpdateStreamNotification(): what is disabled leaves the sets of ready descriptors.
SetFlags(d, o, fd, flags) ==
  [d EXCEPT !.flags[o] = flags,
            !.input = IF "in" \in d.flags[o] \ flags THEN @ \ {fd} ELSE @,
            !.output = IF "out" \in d.flags[o] \ flags THEN @ \ {fd} ELSE @]

\* Mutant: DISABLE_ALL clears the descriptor in one of the sets only.
DisableInputOnly(d, o, fd) == [d EXCEPT !.flags[o] = {}, !.input = @ \ {fd}]
DisableAll(d, o, fd) ==
  [d EXCEPT !.flags[o] = {}, !.input = @ \ {fd}, !.output = @ \ {fd}]

-------------------------------------------------------------------------------
\* Sockets.

HasSocketStream(d, s) == \E o \in SocketStreams : d.owner[o] = s
SocketStream(d, s) == CHOOSE o \in SocketStreams : d.owner[o] = s

GetSocketStream(d, s) ==
  IF HasSocketStream(d, s) THEN d
  ELSE LET o == Head(d.socketPool)
       IN  Insert([d EXCEPT !.socketPool = Tail(@)], o, s)

ReleaseSocketStream(d, o) == Remove([d EXCEPT !.socketPool = <<o>> \o @], o)

\* A stream is taken from the pool even if no flag is to be set, and released again.
\* Mutant: the stream of a socket that wants nothing any more stays in the table.
KeepSocketStream(d, s, fd, flags) ==
  LET e == GetSocketStream(d, s) IN SetFlags(e, SocketStream(e, s), fd, flags)
SetSocketFlags(d, o, fd, flags) ==
  IF flags # {} THEN SetFlags(d, o, fd, flags)
  ELSE ReleaseSocketStream(IF d.flags[o] = {} THEN d ELSE DisableAll(d, o, fd), o)
UpdateSocketNotification(d, s, fd, flags) ==
  LET e == GetSocketStream(d, s) IN SetSocketFlags(e, SocketStream(e, s), fd, flags)

-------------------------------------------------------------------------------
\* Descriptors with a callback.

HasGenericStream(d, fd) == \E o \in Generics : d.owner[o] = fd
GenericStream(d, fd) == CHOOSE o \in Generics : d.owner[o] = fd

GetGenericStream(d, fd) ==
  IF HasGenericStream(d, fd) THEN d
  ELSE LET o == Head(d.genericPool)
       IN  Insert([d EXCEPT !.genericPool = Tail(@)], o, fd)

ReleaseGenericStream(d, o) ==
  LET e == SetFlags(d, o, d.owner[o], {}) IN Remove([e EXCEPT !.genericPool = <<o>> \o @], o)

\* InstallGenericOutput() expects a stream that InstallGenericInput() has made.
InstallGeneric(d, fd, dir) ==
  LET e == IF dir = "in" THEN GetGenericStream(d, fd) ELSE d
      o == GenericStream(e, fd)
  IN  SetFlags(e, o, fd, e.flags[o] \cup {dir})

RemoveGeneric(d, fd, dir) ==
  LET o == GenericStream(d, fd)
      e == SetFlags(d, o, fd, d.flags[o] \ {dir})
  IN  IF ~HasGenericStream(d, fd) THEN d
      ELSE IF e.flags[o] = {} THEN ReleaseGenericStream(e, o) ELSE e
===============================================================================
