------------------------ MODULE DispatcherStreamsProofs ------------------------
(***************************************************************************)
(* What the operators of DispatcherStreams do to the streams, the pools    *)
(* and the sets of ready descriptors, for any number of sockets,           *)
(* descriptors and streams.                                                *)
(***************************************************************************)
EXTENDS DispatcherStreams, FiniteSetTheorems, WellFoundedInduction, SequenceTheorems, TLAPS

-----------------------------------------------------------------------------
\* The iterator of Dispatch().

Keys == Sockets \cup Generics
Cursor == [prev : Keys \cup {None}, next : Keys \cup {None}]

\* The first stream is one of the table.
LEMMA LeastIsIn ==
  ASSUME NEW K \in SUBSET Keys
  PROVE  Iter!Least(K) \in K \cup {None}
<1>1. CASE K = {}
  BY <1>1 DEF Iter!Least
<1>2. CASE K # {}
  <2> DEFINE R == {p \in Nat \X Nat : p[1] < p[2]}
  <2>1. IsWellFoundedOn(R, Nat)
    BY NatLessThanWellFounded DEF OpToRel
  <2>2. K \subseteq Nat
    BY StreamsAssumption DEF Keys
  <2> HIDE DEF R
  <2>3. PICK k \in K : \A j \in K : <<j, k>> \notin R
    BY <1>2, <2>1, <2>2, WFMin
  <2>4. ASSUME NEW j \in K, j < k PROVE <<j, k>> \in R
    <3>1. <<j, k>> \in Nat \X Nat /\ <<j, k>>[1] < <<j, k>>[2]
      BY <2>2, <2>4
    <3> QED  BY <3>1 DEF R
  <2>5. \A j \in K \ {k} : Earlier(k, j)
    <3> TAKE j \in K \ {k}
    <3>1. ~(j < k)
      BY <2>3, <2>4
    <3> QED  BY <2>2, <3>1 DEF Earlier
  <2> QED  BY <1>2, <2>5 DEF Iter!Least
<1> QED
  BY <1>1, <1>2

\* So is the one behind any other.
LEMMA SuccessorIsIn ==
  ASSUME NEW K \in SUBSET Keys, NEW k
  PROVE  Iter!Successor(K, k) \in K \cup {None}
<1> DEFINE J == {j \in K : Earlier(k, j)}
<1>1. J \in SUBSET Keys
  OBVIOUS
<1> HIDE DEF J
<1>2. Iter!Least(J) \in J \cup {None}
  BY <1>1, LeastIsIn
<1> QED
  BY <1>2 DEF J, Iter!Successor

\* Where it stands there is a stream.
Stands(c, K) == c \in Cursor /\ c.next \in K \cup {None}

\* An iterator is not the absence of one.
LEMMA NoCursor == None \notin Cursor
  BY StreamsAssumption DEF Cursor, Keys

\* An iterator begins at a stream of the table.
LEMMA StartStands == ASSUME NEW K \in SUBSET Keys PROVE Stands(Iter!Start(K), K)
  BY LeastIsIn DEF Iter!Start, Stands, Cursor

\* It still stands at one when a stream is inserted,
LEMMA InsertedStands ==
  ASSUME NEW K \in SUBSET Keys, NEW c \in Cursor
  PROVE  Stands(Iter!Inserted(c, K), K)
  BY StartStands, SuccessorIsIn DEF Iter!Inserted, Iter!Behind, Stands, Cursor

\* when one is removed, unless that leaves it dangling,
LEMMA RemovedStands ==
  ASSUME NEW K \in SUBSET Keys, NEW c \in Cursor, c # None, NEW k \in K
  PROVE  /\ Iter!Removed(c, K, k) \in Cursor
         /\ Stands(c, K) /\ Iter!RemovalSafe(c, k) => Stands(Iter!Removed(c, K, k), K \ {k})
<1>1. K \ {k} \in SUBSET Keys
  OBVIOUS
<1>2. Iter!Successor(K \ {k}, c.prev) \in (K \ {k}) \cup {None}
  BY <1>1, SuccessorIsIn
<1>3. k # None
  BY StreamsAssumption DEF Keys
<1>4. CASE c.prev = None \/ (c.prev = k /\ c.next = None)
  BY <1>4 DEF Iter!Removed, Iter!Lost, Stands, Cursor
<1>5. CASE ~(c.prev = None \/ (c.prev = k /\ c.next = None)) /\ c.prev # k
  BY <1>2, <1>5 DEF Iter!Removed, Iter!Behind, Stands, Cursor
<1>6. CASE ~(c.prev = None \/ (c.prev = k /\ c.next = None)) /\ c.prev = k
  BY <1>6 DEF Iter!Removed, Iter!RemovalSafe, Iter!Loose, Stands, Cursor
<1> QED
  BY <1>4, <1>5, <1>6

\* and when it moves on.
LEMMA MovedStands ==
  ASSUME NEW K \in SUBSET Keys, NEW c \in Cursor, c.next # None, NEW d \in Iter!Moved(c, K)
  PROVE  Stands(d, K)
<1> DEFINE next == Iter!Successor(K, c.next)
           after == Iter!Successor(K, next)
<1>1. next \in K \cup {None} /\ after \in K \cup {None}
  BY SuccessorIsIn
<1>2. d = [prev |-> c.next, next |-> next] \/ d = [prev |-> c.next, next |-> after]
  BY DEF Iter!Moved
<1> HIDE DEF next, after
<1>3. PICK n \in K \cup {None} : d = [prev |-> c.next, next |-> n]
  BY <1>1, <1>2
<1> QED
  BY <1>3 DEF Stands, Cursor

-----------------------------------------------------------------------------
\* The streams.

Dispatchers ==
  [owner : [Streams -> Sockets \cup Fds \cup {None}], flags : [Streams -> SUBSET Directions],
   socketPool : Seq(SocketStreams), genericPool : Seq(Generics),
   input : SUBSET Fds, output : SUBSET Fds, cursor : Cursor \cup {None}, dangling : BOOLEAN]

\* A pool holds those of its streams that are not in the table, each once.
Pooled(p, S, owner) ==
  /\ p \in Seq(S)
  /\ \A i, j \in 1..Len(p) : p[i] = p[j] => i = j
  /\ \A o \in S : owner[o] = None <=> \E i \in 1..Len(p) : p[i] = o

\* Streams and what they stand for.
OneEach(owner) ==
  /\ \A o \in SocketStreams : owner[o] \in Sockets \cup {None}
  /\ \A o \in Generics : owner[o] \in Fds \cup {None}
  /\ \A o, p \in SocketStreams : owner[o] = owner[p] => o = p \/ owner[o] = None
  /\ \A o, p \in Generics : owner[o] = owner[p] => o = p \/ owner[o] = None

Wired(d) ==
  /\ d \in Dispatchers
  /\ Pooled(d.socketPool, SocketStreams, d.owner) /\ Pooled(d.genericPool, Generics, d.owner)
  /\ OneEach(d.owner)
  /\ \A o \in Streams : d.owner[o] = None => d.flags[o] = {}
  /\ d.dangling \/ d.cursor = None \/ Stands(d.cursor, Table(d))

\* Nothing is in the table that is not watched for something.
Wanting(d) == \A o \in Streams : d.owner[o] # None => d.flags[o] # {}

\* The dispatcher watches a socket for just these flags.
Watches(d, s, flags) ==
  /\ flags # {} <=> HasSocketStream(d, s)
  /\ \A o \in SocketStreams : d.owner[o] = s => d.flags[o] = flags

\* The keys of the table, by what the streams stand for.
TableOf(owner) ==
  {IF o \in Generics THEN o ELSE owner[o] : o \in {p \in Streams : owner[p] # None}}

\* The table depends on what the streams stand for alone.
LEMMA TableIs == ASSUME NEW d PROVE Table(d) = TableOf(d.owner)
  BY DEF Table, TableOf, Active, Key

\* Its keys.
LEMMA TableInKeys == ASSUME NEW owner, OneEach(owner) PROVE TableOf(owner) \in SUBSET Keys
  BY DEF TableOf, OneEach, Keys, Streams

\* What is left when a stream leaves the table.
LEMMA TableWithout ==
  ASSUME NEW owner \in [Streams -> Sockets \cup Fds \cup {None}], OneEach(owner), NEW o \in Streams, owner[o] # None,
         NEW k, k = IF o \in Generics THEN o ELSE owner[o]
  PROVE  k \in TableOf(owner) /\ TableOf([owner EXCEPT ![o] = None]) = TableOf(owner) \ {k}
<1> DEFINE after == [owner EXCEPT ![o] = None]
           key(x) == IF x \in Generics THEN x ELSE owner[x]
<1>1. after[o] = None /\ \A x \in Streams \ {o} : after[x] = owner[x]
  OBVIOUS
<1>2. \A x \in Streams \ {o} : owner[x] # None => key(x) # k
  BY StreamsAssumption DEF OneEach, Streams
<1> HIDE DEF after
<1> QED
  BY <1>1, <1>2 DEF TableOf, after

\* A stream that is taken from a pool was not in the table.
LEMMA PoolHead ==
  ASSUME NEW S, NEW owner, NEW p, Pooled(p, S, owner), p # <<>>, NEW after,
         \A o \in S \ {Head(p)} : after[o] = owner[o], after[Head(p)] # None
  PROVE  Head(p) \in S /\ owner[Head(p)] = None /\ Pooled(Tail(p), S, after)
<1>1. /\ p \in Seq(S) /\ Head(p) \in S /\ Head(p) = p[1] /\ Tail(p) \in Seq(S)
      /\ Len(Tail(p)) = Len(p) - 1 /\ Len(p) \in Nat \ {0}
      /\ \A i \in 1..Len(Tail(p)) : Tail(p)[i] = p[i + 1]
  BY HeadTailProperties, EmptySeq, LenProperties DEF Pooled
<1> DEFINE r == Tail(p)
           h == Head(p)
<1>2. 1 \in 1..Len(p) /\ owner[h] = None
  BY <1>1 DEF Pooled
<1> HIDE DEF r, h
<1>3. \A i, j \in 1..Len(r) : r[i] = r[j] => i = j
  <2> TAKE i, j \in 1..Len(r)
  <2>1. i + 1 \in 1..Len(p) /\ j + 1 \in 1..Len(p) /\ r[i] = p[i + 1] /\ r[j] = p[j + 1]
    BY <1>1 DEF r
  <2>2. p[i + 1] = p[j + 1] => i + 1 = j + 1
    BY <2>1 DEF Pooled
  <2> QED  BY <2>1, <2>2
<1>4. ASSUME NEW o \in S PROVE after[o] = None <=> \E i \in 1..Len(r) : r[i] = o
  <2>1. CASE o = h
    <3>1. \A i \in 1..Len(r) : i + 1 \in 1..Len(p) /\ r[i] = p[i + 1] /\ i + 1 # 1
      BY <1>1 DEF r
    <3>2. \A i \in 1..Len(r) : r[i] # o
      BY <1>1, <1>2, <2>1, <3>1 DEF Pooled, h
    <3> QED  BY <2>1, <3>2 DEF h
  <2>2. CASE o # h
    <3>1. after[o] = None <=> \E i \in 1..Len(p) : p[i] = o
      BY <2>2 DEF Pooled, h
    <3>2. ASSUME NEW i \in 1..Len(p), p[i] = o PROVE \E j \in 1..Len(r) : r[j] = o
      <4>1. i # 1
        BY <1>1, <2>2, <3>2 DEF h
      <4>2. i - 1 \in 1..Len(r) /\ (i - 1) + 1 = i
        BY <1>1, <4>1 DEF r
      <4> QED
        BY <1>1, <3>2, <4>2 DEF r
    <3>3. ASSUME NEW j \in 1..Len(r), r[j] = o PROVE \E i \in 1..Len(p) : p[i] = o
      <4>1. j + 1 \in 1..Len(p) /\ r[j] = p[j + 1]
        BY <1>1 DEF r
      <4> QED
        BY <3>3, <4>1
    <3> QED  BY <3>1, <3>2, <3>3
  <2> QED  BY <2>1, <2>2
<1> QED
  BY <1>1, <1>2, <1>3, <1>4 DEF Pooled, r, h

\* A stream that leaves the table can be put back.
LEMMA PoolReturned ==
  ASSUME NEW S, NEW owner, NEW p, Pooled(p, S, owner), NEW after, NEW h \in S, owner[h] # None,
         \A o \in S \ {h} : after[o] = owner[o], after[h] = None
  PROVE  Pooled(<<h>> \o p, S, after)
<1> DEFINE r == <<h>> \o p
           w == <<h>>
<1>1. w \in Seq(S) /\ Len(w) = 1 /\ w[1] = h /\ p \in Seq(S) /\ Len(p) \in Nat
  BY LenProperties DEF Pooled
<1> HIDE DEF w
<1>2. /\ r \in Seq(S) /\ Len(r) = 1 + Len(p)
      /\ \A i \in 1..1 + Len(p) : r[i] = IF i <= 1 THEN w[i] ELSE p[i - 1]
  BY <1>1, ConcatProperties DEF w
<1> HIDE DEF r
<1>3. r[1] = h /\ \A i \in 2..Len(r) : i - 1 \in 1..Len(p) /\ r[i] = p[i - 1]
  BY <1>1, <1>2
<1>4. \A i \in 1..Len(p) : p[i] # h
  BY DEF Pooled
<1>5. \A i, j \in 1..Len(r) : r[i] = r[j] => i = j
  <2> SUFFICES ASSUME NEW i \in 1..Len(r), NEW j \in 1..Len(r), r[i] = r[j] PROVE i = j
    OBVIOUS
  <2>1. CASE i = 1 \/ j = 1
    <3>1. i = 1 \/ (i \in 2..Len(r))
      BY <1>2
    <3>2. j = 1 \/ (j \in 2..Len(r))
      BY <1>2
    <3> QED  BY <2>1, <1>3, <1>4, <3>1, <3>2
  <2>2. CASE i # 1 /\ j # 1
    <3>1. i \in 2..Len(r) /\ j \in 2..Len(r)
      BY <2>2, <1>1, <1>2
    <3>2. p[i - 1] = p[j - 1] /\ i - 1 \in 1..Len(p) /\ j - 1 \in 1..Len(p)
      BY <3>1, <1>3
    <3>3. i - 1 = j - 1
      BY <3>2 DEF Pooled
    <3> QED  BY <3>3, <1>1, <1>2
  <2> QED  BY <2>1, <2>2
<1>6. ASSUME NEW o \in S PROVE after[o] = None <=> \E i \in 1..Len(r) : r[i] = o
  <2>1. CASE o = h
    BY <2>1, <1>1, <1>2, <1>3
  <2>2. CASE o # h
    <3>1. after[o] = None <=> \E i \in 1..Len(p) : p[i] = o
      BY <2>2 DEF Pooled
    <3>2. ASSUME NEW i \in 1..Len(p), p[i] = o PROVE \E j \in 1..Len(r) : r[j] = o
      <4>1. i + 1 \in 1..Len(r) /\ i + 1 \in 2..Len(r) /\ (i + 1) - 1 = i
        BY <1>1, <1>2
      <4>2. r[i + 1] = p[i]
        BY <4>1, <1>3
      <4> QED  BY <3>2, <4>1, <4>2
    <3>3. ASSUME NEW j \in 1..Len(r), r[j] = o PROVE \E i \in 1..Len(p) : p[i] = o
      <4>1. j \in 2..Len(r)
        BY <2>2, <3>3, <1>1, <1>2, <1>3
      <4> QED  BY <4>1, <3>3, <1>3
    <3> QED  BY <3>1, <3>2, <3>3
  <2> QED  BY <2>1, <2>2
<1>7. Pooled(r, S, after)
  BY <1>2, <1>5, <1>6 DEF Pooled
<1> QED
  BY <1>7 DEF r, w

-----------------------------------------------------------------------------
\* The dispatcher's operators, field by field.

\* A dispatcher by its fields.
Disp(own, fl, sp, gp, in, out, c, dang) ==
  [owner |-> own, flags |-> fl, socketPool |-> sp, genericPool |-> gp,
   input |-> in, output |-> out, cursor |-> c, dangling |-> dang]

\* What is taken from the pools or put back.
WithPools(d, sp, gp) == Disp(d.owner, d.flags, sp, gp, d.input, d.output, d.cursor, d.dangling)

\* Pools change without the rest.
LEMMA PoolsExcept ==
  ASSUME NEW d \in Dispatchers, NEW p
  PROVE  /\ [d EXCEPT !.socketPool = p] = WithPools(d, p, d.genericPool)
         /\ [d EXCEPT !.genericPool = p] = WithPools(d, d.socketPool, p)
<1>1. d = Disp(d.owner, d.flags, d.socketPool, d.genericPool, d.input, d.output, d.cursor, d.dangling)
  BY DEF Dispatchers, Disp
<1>2. ASSUME NEW own, NEW fl, NEW sp, NEW gp, NEW in, NEW out, NEW c, NEW dang
      PROVE  /\ [Disp(own, fl, sp, gp, in, out, c, dang) EXCEPT !.socketPool = p] =
                   Disp(own, fl, p, gp, in, out, c, dang)
             /\ [Disp(own, fl, sp, gp, in, out, c, dang) EXCEPT !.genericPool = p] =
                   Disp(own, fl, sp, p, in, out, c, dang)
  BY DEF Disp
<1> QED
  BY <1>1, <1>2 DEF WithPools

\* The fields of a dispatcher that is made of them.
LEMMA DispFields ==
  ASSUME NEW own, NEW fl, NEW sp, NEW gp, NEW in, NEW out, NEW c, NEW dang, NEW e,
         e = Disp(own, fl, sp, gp, in, out, c, dang)
  PROVE  /\ e.owner = own /\ e.flags = fl /\ e.socketPool = sp /\ e.genericPool = gp
         /\ e.input = in /\ e.output = out /\ e.cursor = c /\ e.dangling = dang
         /\ e = [owner |-> e.owner, flags |-> e.flags, socketPool |-> sp, genericPool |-> gp,
                 input |-> e.input, output |-> e.output, cursor |-> e.cursor, dangling |-> e.dangling]
  BY DEF Disp

\* Insert() field by field,
LEMMA InsertFields ==
  ASSUME NEW d, NEW o, NEW w, NEW sp, NEW gp
  PROVE  Insert(WithPools(d, sp, gp), o, w) =
               Disp([d.owner EXCEPT ![o] = w], [d.flags EXCEPT ![o] = {}], sp, gp, d.input, d.output,
                    IF d.cursor = None THEN None
                    ELSE Iter!Inserted(d.cursor, TableOf([d.owner EXCEPT ![o] = w])), d.dangling)
<1> DEFINE m == WithPools(d, sp, gp)
           f == [m EXCEPT !.owner[o] = w, !.flags[o] = {}]
           g == Disp([d.owner EXCEPT ![o] = w], [d.flags EXCEPT ![o] = {}], sp, gp, d.input, d.output,
                     d.cursor, d.dangling)
<1>1. f = g
  <2> DEFINE h == [m EXCEPT !.owner[o] = w]
             own == [d.owner EXCEPT ![o] = w]
  <2>1. h = Disp(own, d.flags, sp, gp, d.input, d.output, d.cursor, d.dangling)
    BY DEF WithPools, Disp
  <2>2. f = [h EXCEPT !.flags[o] = {}]
    OBVIOUS
  <2> HIDE DEF h, own, f
  <2>3. [Disp(own, d.flags, sp, gp, d.input, d.output, d.cursor, d.dangling) EXCEPT !.flags[o] = {}] =
          Disp(own, [d.flags EXCEPT ![o] = {}], sp, gp, d.input, d.output, d.cursor, d.dangling)
    BY DEF Disp
  <2> QED
    BY <2>1, <2>2, <2>3 DEF own
<1>2. Table(g) = TableOf([d.owner EXCEPT ![o] = w]) /\ g.cursor = d.cursor
  BY TableIs DEF Disp
<1>3. Insert(m, o, w) = [f EXCEPT !.cursor = IF @ = None THEN @ ELSE Iter!Inserted(@, Table(f))]
  BY DEF Insert
<1> HIDE DEF f
<1>4. Insert(m, o, w) =
        [g EXCEPT !.cursor = IF d.cursor = None THEN None
                            ELSE Iter!Inserted(d.cursor, TableOf([d.owner EXCEPT ![o] = w]))]
  BY <1>1, <1>2, <1>3
<1> QED
  BY <1>4 DEF Disp

\* and Remove().
LEMMA RemoveFields ==
  ASSUME NEW d, NEW o, NEW sp, NEW gp
  PROVE  LET k == Key(d, o)
         IN  Remove(WithPools(d, sp, gp), o) =
               Disp([d.owner EXCEPT ![o] = None], [d.flags EXCEPT ![o] = {}], sp, gp, d.input, d.output,
                    IF d.cursor = None THEN None ELSE Iter!Removed(d.cursor, TableOf(d.owner), k),
                    d.dangling \/ (d.cursor # None /\ ~Iter!RemovalSafe(d.cursor, k)))
<1> DEFINE m == WithPools(d, sp, gp)
           k == Key(d, o)
<1>1. Table(m) = TableOf(d.owner) /\ Key(m, o) = k /\ m.cursor = d.cursor
  BY TableIs DEF Key, WithPools, Disp
<1>2. Remove(m, o) =
        [m EXCEPT !.owner[o] = None, !.flags[o] = {},
            !.cursor = IF @ = None THEN @ ELSE Iter!Removed(@, TableOf(d.owner), k),
            !.dangling = @ \/ (d.cursor # None /\ ~Iter!RemovalSafe(d.cursor, k))]
  BY <1>1 DEF Remove
<1> HIDE DEF k
<1>3. Remove(m, o) =
        Disp([d.owner EXCEPT ![o] = None], [d.flags EXCEPT ![o] = {}], sp, gp, d.input, d.output,
             IF d.cursor = None THEN None ELSE Iter!Removed(d.cursor, TableOf(d.owner), k),
             d.dangling \/ (d.cursor # None /\ ~Iter!RemovalSafe(d.cursor, k)))
  BY <1>2 DEF WithPools, Disp
<1> HIDE DEF m
<1> QED
  BY <1>3 DEF k, m

\* A stream is taken from the pool for a socket, or for a descriptor.
Joins(d, e, o, owner) ==
  /\ Wired(e)
  /\ d.owner[o] = None /\ e.owner = [d.owner EXCEPT ![o] = owner] /\ e.flags = d.flags
  /\ e.input = d.input /\ e.output = d.output /\ (e.cursor = None <=> d.cursor = None)

\* A stream that joins the table leaves the dispatcher wired,
LEMMA InsertWired ==
  ASSUME NEW d, Wired(d), NEW o \in Streams, NEW owner, d.owner[o] = None, NEW sp, NEW gp,
         OneEach([d.owner EXCEPT ![o] = owner]), owner # None,
         Pooled(sp, SocketStreams, [d.owner EXCEPT ![o] = owner]),
         Pooled(gp, Generics, [d.owner EXCEPT ![o] = owner])
  PROVE  Joins(d, Insert(WithPools(d, sp, gp), o, owner), o, owner)
<1> DEFINE e == Insert(WithPools(d, sp, gp), o, owner)
           own == [d.owner EXCEPT ![o] = owner]
<1>1. d \in Dispatchers /\ d.flags[o] = {}
  BY DEF Wired
<1>2. /\ e.owner = own /\ e.flags = [d.flags EXCEPT ![o] = {}]
      /\ e.socketPool = sp /\ e.genericPool = gp
      /\ e.input = d.input /\ e.output = d.output /\ e.dangling = d.dangling
      /\ e.cursor = IF d.cursor = None THEN None ELSE Iter!Inserted(d.cursor, TableOf(e.owner))
      /\ e = [owner |-> e.owner, flags |-> e.flags, socketPool |-> sp, genericPool |-> gp,
              input |-> e.input, output |-> e.output, cursor |-> e.cursor, dangling |-> e.dangling]
  <2> DEFINE cur == IF d.cursor = None THEN None ELSE Iter!Inserted(d.cursor, TableOf(own))
  <2>1. e = Disp(own, [d.flags EXCEPT ![o] = {}], sp, gp, d.input, d.output, cur, d.dangling)
    BY InsertFields
  <2> HIDE DEF e, cur, own
  <2>2. /\ e.owner = own /\ e.flags = [d.flags EXCEPT ![o] = {}]
        /\ e.socketPool = sp /\ e.genericPool = gp
        /\ e.input = d.input /\ e.output = d.output /\ e.dangling = d.dangling /\ e.cursor = cur
        /\ e = [owner |-> e.owner, flags |-> e.flags, socketPool |-> sp, genericPool |-> gp,
                input |-> e.input, output |-> e.output, cursor |-> e.cursor, dangling |-> e.dangling]
    BY <2>1 DEF Disp
  <2> QED
    BY <2>2 DEF cur
<1> HIDE DEF e
<1>3. e.flags = d.flags
  BY <1>1, <1>2 DEF Dispatchers
<1>4. own \in [Streams -> Sockets \cup Fds \cup {None}] /\ own[o] = owner
      /\ \A x \in Streams \ {o} : own[x] = d.owner[x]
  BY <1>1 DEF Dispatchers, OneEach, Streams
<1>5. /\ e.cursor = None \/ e.dangling \/ Stands(e.cursor, TableOf(own))
      /\ e.cursor \in Cursor \cup {None} /\ (e.cursor = None <=> d.cursor = None)
  <2>1. TableOf(own) \in SUBSET Keys
    BY TableInKeys
  <2>2. d.cursor # None => d.cursor \in Cursor
    BY <1>1 DEF Dispatchers
  <2> QED
    BY <1>2, <2>1, <2>2, InsertedStands, NoCursor DEF Stands
<1> HIDE DEF own
<1>6. e \in Dispatchers
  BY <1>1, <1>2, <1>3, <1>4, <1>5 DEF Dispatchers, Pooled
<1>7. \A x \in Streams : e.owner[x] = None => e.flags[x] = {}
  BY <1>2, <1>3, <1>4 DEF Wired
<1>8. Wired(e)
  BY <1>2, <1>5, <1>6, <1>7, TableIs DEF Wired, own
<1> QED
  BY <1>2, <1>3, <1>5, <1>8 DEF Joins, own, e

\* A stream goes back to its pool.
Leaves(d, e, o) ==
  /\ Wired(e)
  /\ e.owner = [d.owner EXCEPT ![o] = None] /\ e.flags = [d.flags EXCEPT ![o] = {}]
  /\ e.input = d.input /\ e.output = d.output /\ (e.cursor = None <=> d.cursor = None)

\* and so does one that leaves it.
LEMMA RemoveWired ==
  ASSUME NEW d, Wired(d), NEW o \in Streams, d.owner[o] # None, NEW sp, NEW gp,
         Pooled(sp, SocketStreams, [d.owner EXCEPT ![o] = None]),
         Pooled(gp, Generics, [d.owner EXCEPT ![o] = None])
  PROVE  Leaves(d, Remove(WithPools(d, sp, gp), o), o)
<1> DEFINE e == Remove(WithPools(d, sp, gp), o)
           own == [d.owner EXCEPT ![o] = None]
           k == Key(d, o)
<1>1. d \in Dispatchers
  BY DEF Wired
<1>2. /\ e.owner = own /\ e.flags = [d.flags EXCEPT ![o] = {}]
      /\ e.socketPool = sp /\ e.genericPool = gp
      /\ e.input = d.input /\ e.output = d.output
      /\ e.cursor = IF d.cursor = None THEN None ELSE Iter!Removed(d.cursor, TableOf(d.owner), k)
      /\ e.dangling = (d.dangling \/ (d.cursor # None /\ ~Iter!RemovalSafe(d.cursor, k)))
      /\ e = [owner |-> e.owner, flags |-> e.flags, socketPool |-> sp, genericPool |-> gp,
              input |-> e.input, output |-> e.output, cursor |-> e.cursor, dangling |-> e.dangling]
  <2> DEFINE fl == [d.flags EXCEPT ![o] = {}]
             cur == IF d.cursor = None THEN None ELSE Iter!Removed(d.cursor, TableOf(d.owner), k)
             dang == d.dangling \/ (d.cursor # None /\ ~Iter!RemovalSafe(d.cursor, k))
  <2>1. e = Disp(own, fl, sp, gp, d.input, d.output, cur, dang)
    BY RemoveFields
  <2> HIDE DEF e, own, fl, cur, dang, k
  <2>2. /\ e.owner = own /\ e.flags = fl /\ e.socketPool = sp /\ e.genericPool = gp
        /\ e.input = d.input /\ e.output = d.output /\ e.cursor = cur /\ e.dangling = dang
        /\ e = [owner |-> e.owner, flags |-> e.flags, socketPool |-> sp, genericPool |-> gp,
                input |-> e.input, output |-> e.output, cursor |-> e.cursor, dangling |-> e.dangling]
    BY <2>1, DispFields
  <2> QED
    BY <2>2 DEF fl, cur, dang
<1> HIDE DEF e
<1>3. /\ own \in [Streams -> Sockets \cup Fds \cup {None}] /\ own[o] = None
      /\ \A x \in Streams \ {o} : own[x] = d.owner[x]
  BY <1>1 DEF Dispatchers
<1>4. OneEach(own)
  BY <1>3 DEF Wired, OneEach, Streams
<1>5. k \in TableOf(d.owner) /\ TableOf(own) = TableOf(d.owner) \ {k} /\ TableOf(d.owner) \in SUBSET Keys
  BY <1>1, TableWithout, TableInKeys DEF Wired, Dispatchers, Key
<1> HIDE DEF own, k
<1>6. /\ e.cursor = None \/ e.dangling \/ Stands(e.cursor, TableOf(own))
      /\ e.cursor \in Cursor \cup {None} /\ (e.cursor = None <=> d.cursor = None)
  <2>1. CASE d.cursor = None
    BY <2>1, <1>2 DEF Stands
  <2>2. CASE d.cursor # None
    <3>1. d.cursor \in Cursor /\ (d.dangling \/ Stands(d.cursor, TableOf(d.owner)))
      BY <1>1, <2>2, TableIs DEF Dispatchers, Wired
    <3>2. /\ Iter!Removed(d.cursor, TableOf(d.owner), k) \in Cursor
          /\ Stands(d.cursor, TableOf(d.owner)) /\ Iter!RemovalSafe(d.cursor, k) =>
               Stands(Iter!Removed(d.cursor, TableOf(d.owner), k), TableOf(d.owner) \ {k})
      BY <1>5, <2>2, <3>1, RemovedStands
    <3> QED
      BY <1>2, <1>5, <2>2, <3>1, <3>2, NoCursor
  <2> QED  BY <2>1, <2>2
<1>7. e.dangling \in BOOLEAN /\ e.flags \in [Streams -> SUBSET Directions]
  BY <1>1, <1>2 DEF Dispatchers
<1>8. e \in Dispatchers
  BY <1>1, <1>2, <1>3, <1>6, <1>7 DEF Dispatchers, Pooled
<1>9. \A x \in Streams : e.owner[x] = None => e.flags[x] = {}
  BY <1>1, <1>2, <1>3 DEF Wired, Dispatchers
<1>10. Wired(e)
  BY <1>2, <1>4, <1>6, <1>8, <1>9, TableIs DEF Wired, own
<1> QED
  BY <1>2, <1>6, <1>10 DEF Leaves, own, e

-----------------------------------------------------------------------------
\* What UpdateSocketNotification() comes to.

\* Flags and sets may change without the table.
LEMMA SameTable ==
  ASSUME NEW d, Wired(d), NEW e \in Dispatchers, e.owner = d.owner, e.socketPool = d.socketPool,
         e.genericPool = d.genericPool, e.cursor = d.cursor, e.dangling = d.dangling,
         \A o \in Streams : d.owner[o] = None => e.flags[o] = {}
  PROVE  Wired(e)
<1>1. Table(e) = Table(d)
  BY TableIs
<1> QED
  BY <1>1 DEF Wired

\* What is disabled leaves the sets of ready descriptors, as all of it may.
Reflagged(d, e, o, fd, flags) ==
  /\ Wired(e)
  /\ e.owner = d.owner /\ e.flags = [d.flags EXCEPT ![o] = flags]
  /\ e.input \in {d.input, d.input \ {fd}} /\ e.output \in {d.output, d.output \ {fd}}
  /\ "in" \in d.flags[o] \ flags => fd \notin e.input
  /\ "out" \in d.flags[o] \ flags => fd \notin e.output
  /\ e.cursor = d.cursor
  /\ e.socketPool = d.socketPool /\ e.genericPool = d.genericPool

\* SetFlags() changes the flags of one stream, and clears the sets of what is not wanted.
LEMMA SetFlagsReflags ==
  ASSUME NEW d, Wired(d), NEW o \in Streams, NEW fd, NEW flags \in SUBSET Directions,
         d.owner[o] = None => flags = {}
  PROVE  Reflagged(d, SetFlags(d, o, fd, flags), o, fd, flags)
<1> DEFINE e == SetFlags(d, o, fd, flags)
<1>1. d \in Dispatchers
  BY DEF Wired
<1>2. /\ e.owner = d.owner /\ e.flags = [d.flags EXCEPT ![o] = flags]
      /\ e.socketPool = d.socketPool /\ e.genericPool = d.genericPool
      /\ e.cursor = d.cursor /\ e.dangling = d.dangling
      /\ e.input = (IF "in" \in d.flags[o] \ flags THEN d.input \ {fd} ELSE d.input)
      /\ e.output = (IF "out" \in d.flags[o] \ flags THEN d.output \ {fd} ELSE d.output)
  BY <1>1 DEF SetFlags, Dispatchers
<1>3. e \in Dispatchers
  BY <1>1 DEF SetFlags, Dispatchers
<1> HIDE DEF e
<1>4. \A x \in Streams : d.owner[x] = None => e.flags[x] = {}
  BY <1>1, <1>2 DEF Wired, Dispatchers
<1>5. Wired(e)
  BY <1>2, <1>3, <1>4, SameTable
<1> QED
  BY <1>2, <1>5 DEF Reflagged, e

\* As does what Remove...Stream() calls first.
LEMMA DisableAllReflags ==
  ASSUME NEW d, Wired(d), NEW o \in Streams, NEW fd
  PROVE  Reflagged(d, DisableAll(d, o, fd), o, fd, {})
<1> DEFINE e == DisableAll(d, o, fd)
<1>1. d \in Dispatchers
  BY DEF Wired
<1>2. /\ e.owner = d.owner /\ e.flags = [d.flags EXCEPT ![o] = {}]
      /\ e.socketPool = d.socketPool /\ e.genericPool = d.genericPool
      /\ e.cursor = d.cursor /\ e.dangling = d.dangling
      /\ e.input = d.input \ {fd} /\ e.output = d.output \ {fd}
  BY <1>1 DEF DisableAll, Dispatchers
<1>3. e \in Dispatchers
  BY <1>1 DEF DisableAll, Dispatchers
<1> HIDE DEF e
<1>4. \A x \in Streams : d.owner[x] = None => e.flags[x] = {}
  BY <1>1, <1>2 DEF Wired, Dispatchers
<1>5. Wired(e)
  BY <1>2, <1>3, <1>4, SameTable
<1> QED
  BY <1>2, <1>5 DEF Reflagged, e

\* There are streams for all sockets.
LEMMA PoolNotEmpty ==
  ASSUME NEW d, Wired(d), NEW s \in Sockets, ~HasSocketStream(d, s)
  PROVE  d.socketPool # <<>>
<1> SUFFICES ASSUME d.socketPool = <<>> PROVE FALSE
  OBVIOUS
<1>1. \A o \in SocketStreams : d.owner[o] # None
  <2>1. Len(d.socketPool) = 0
    OBVIOUS
  <2> QED  BY <2>1 DEF Wired, Pooled
<1> DEFINE f == [o \in SocketStreams |-> d.owner[o]]
           T == Sockets \ {s}
<1>2. f \in [SocketStreams -> T]
  BY <1>1 DEF Wired, OneEach, HasSocketStream
<1>3. \A o, p \in SocketStreams : f[o] = f[p] => o = p
  BY <1>1 DEF Wired, OneEach
<1>4. f \in Injection(SocketStreams, T)
  BY <1>2, <1>3 DEF Injection, IsInjective
<1>5. IsFiniteSet(Sockets) /\ IsFiniteSet(T) /\ IsFiniteSet(SocketStreams)
  BY StreamsAssumption, FS_Subset
<1>6. Cardinality(SocketStreams) <= Cardinality(T)
  BY <1>4, <1>5, FS_Injection DEF ExistsInjection
<1>7. Cardinality(T) = Cardinality(Sockets) - 1
  BY <1>5, FS_RemoveElement
<1>8. Cardinality(Sockets) \in Nat /\ Cardinality(T) \in Nat /\ Cardinality(SocketStreams) \in Nat
  BY <1>5, FS_CardinalityType
<1> HIDE DEF T
<1> QED
  BY <1>6, <1>7, <1>8, StreamsAssumption

\* GetSocketStream() finds the stream of a socket or takes one from the pool.
LEMMA GetSocketStreamGets ==
  ASSUME NEW d, Wired(d), NEW s \in Sockets
  PROVE  LET e == GetSocketStream(d, s)
         IN  \/ HasSocketStream(d, s) /\ e = d
             \/ ~HasSocketStream(d, s) /\ \E o \in SocketStreams : Joins(d, e, o, s)
<1>1. CASE HasSocketStream(d, s)
  BY <1>1 DEF GetSocketStream
<1>2. CASE ~HasSocketStream(d, s)
  <2> DEFINE p == d.socketPool
             o == Head(p)
             own == [d.owner EXCEPT ![o] = s]
  <2>1. d \in Dispatchers /\ Pooled(p, SocketStreams, d.owner) /\ p # <<>>
    BY <1>2, PoolNotEmpty DEF Wired
  <2>2. o \in SocketStreams
    BY <2>1 DEF Pooled
  <2>3. s # None
    BY StreamsAssumption
  <2>4. own[o] = s /\ \A x \in Streams \ {o} : own[x] = d.owner[x]
    BY <2>1, <2>2 DEF Dispatchers, Streams
  <2>5. d.owner[o] = None /\ Pooled(Tail(p), SocketStreams, own)
    <3> HIDE DEF own, p
    <3>1. \A x \in SocketStreams \ {o} : own[x] = d.owner[x]
      BY <2>4 DEF Streams
    <3>2. own[Head(p)] # None
      BY <2>3, <2>4
    <3> QED  BY <2>1, <3>1, <3>2, PoolHead DEF p
  <2>6. Pooled(d.genericPool, Generics, own)
    <3>1. \A x \in Generics : own[x] = d.owner[x]
      BY <2>2, <2>4, StreamsAssumption DEF Streams
    <3> QED  BY <3>1 DEF Wired, Pooled
  <2>7. OneEach(own)
    <3> HIDE DEF own
    <3>1. \A x \in SocketStreams : d.owner[x] # s
      BY <1>2 DEF HasSocketStream
    <3> QED  BY <2>2, <2>3, <2>4, <3>1, StreamsAssumption DEF Wired, OneEach, Streams
  <2>8. [d EXCEPT !.socketPool = Tail(@)] = WithPools(d, Tail(p), d.genericPool)
    BY <2>1, PoolsExcept
  <2>9. GetSocketStream(d, s) = Insert(WithPools(d, Tail(p), d.genericPool), o, s)
    BY <1>2, <2>8 DEF GetSocketStream
  <2>10. o \in Streams
    BY <2>2 DEF Streams
  <2> HIDE DEF own, o, p
  <2>11. Joins(d, GetSocketStream(d, s), o, s)
    BY <2>3, <2>5, <2>6, <2>7, <2>9, <2>10, InsertWired DEF own
  <2> QED  BY <1>2, <2>2, <2>11
<1> QED
  BY <1>1, <1>2

\* What UpdateSocketNotification(s, flags) does to the streams: that of s has just these
\* flags, or there is none; the others are as they were; no descriptor is taken for
\* ready, that of s only if it was and its stream stays.
Rewatched(d, e, s, fd, flags) ==
  /\ Wired(e) /\ Watches(e, s, flags)
  /\ \A o \in Generics : e.owner[o] = d.owner[o] /\ e.flags[o] = d.flags[o]
  /\ \A o \in SocketStreams, u \in Sockets \ {s} :
       /\ e.owner[o] = u <=> d.owner[o] = u
       /\ d.owner[o] = u => e.flags[o] = d.flags[o]
  /\ e.input \subseteq d.input /\ e.output \subseteq d.output
  /\ \A o \in SocketStreams : d.owner[o] = s =>
       /\ "in" \in d.flags[o] /\ fd \in e.input => e.owner[o] = s /\ "in" \in flags
       /\ "out" \in d.flags[o] /\ fd \in e.output => e.owner[o] = s /\ "out" \in flags
  /\ e.cursor = None <=> d.cursor = None

\* A stream without notifications is put back.
LEMMA ReleaseSocketStreamLeaves ==
  ASSUME NEW d, Wired(d), NEW o \in SocketStreams, d.owner[o] # None
  PROVE  Leaves(d, ReleaseSocketStream(d, o), o)
<1> DEFINE p == <<o>> \o d.socketPool
           own == [d.owner EXCEPT ![o] = None]
<1>1. d \in Dispatchers /\ o \in Streams
  BY DEF Wired, Streams
<1>2. own[o] = None /\ \A x \in Streams \ {o} : own[x] = d.owner[x]
  BY <1>1 DEF Dispatchers
<1> HIDE DEF own
<1>3. Pooled(p, SocketStreams, own)
  <2>1. Pooled(d.socketPool, SocketStreams, d.owner) /\ \A x \in SocketStreams \ {o} : own[x] = d.owner[x]
    BY <1>2 DEF Wired, Streams
  <2> QED  BY <1>2, <2>1, PoolReturned
<1>4. Pooled(d.genericPool, Generics, own)
  <2>1. \A x \in Generics : own[x] = d.owner[x]
    BY <1>2, StreamsAssumption DEF Streams
  <2> QED  BY <2>1 DEF Wired, Pooled
<1>5. ReleaseSocketStream(d, o) = Remove(WithPools(d, p, d.genericPool), o)
  BY <1>1, PoolsExcept DEF ReleaseSocketStream
<1> HIDE DEF p
<1> QED
  BY <1>1, <1>3, <1>4, <1>5, RemoveWired DEF own

\* The stream of a socket, once it has one.
LEMMA SocketStreamIs ==
  ASSUME NEW d, Wired(d), NEW s \in Sockets, NEW o \in SocketStreams, d.owner[o] = s
  PROVE  SocketStream(d, s) = o /\ HasSocketStream(d, s)
<1>1. s # None
  BY StreamsAssumption
<1>2. \A x \in SocketStreams : d.owner[x] = s => x = o
  BY <1>1 DEF Wired, OneEach
<1> QED
  BY <1>2 DEF SocketStream, HasSocketStream

\* A socket that has a stream is watched for the flags that are set, or has none any more.
LEMMA SetSocketFlagsRewatches ==
  ASSUME NEW d, Wired(d), NEW s \in Sockets, NEW o \in SocketStreams, d.owner[o] = s,
         NEW fd, NEW flags \in SUBSET Directions
  PROVE  Rewatched(d, SetSocketFlags(d, o, fd, flags), s, fd, flags)
<1> DEFINE e == SetSocketFlags(d, o, fd, flags)
<1>1. s # None /\ o \in Streams /\ o \notin Generics /\ d \in Dispatchers
  BY StreamsAssumption DEF Streams, Wired
<1>2. \A x \in SocketStreams : d.owner[x] = s => x = o
  BY <1>1 DEF Wired, OneEach
<1>3. CASE flags # {}
  <2>1. e = SetFlags(d, o, fd, flags)
    BY <1>3 DEF SetSocketFlags
  <2> HIDE DEF e
  <2>2. Reflagged(d, e, o, fd, flags)
    BY <1>1, <2>1, SetFlagsReflags
  <2>3. e.owner = d.owner /\ e.flags[o] = flags /\ \A x \in Streams \ {o} : e.flags[x] = d.flags[x]
    BY <1>1, <2>2 DEF Reflagged, Dispatchers
  <2>4. Watches(e, s, flags)
    BY <1>2, <1>3, <2>3 DEF Watches, HasSocketStream
  <2> QED
    BY <1>1, <1>2, <2>2, <2>3, <2>4 DEF Rewatched, Reflagged, Streams, e
<1>4. CASE flags = {}
  <2> DEFINE f == IF d.flags[o] = {} THEN d ELSE DisableAll(d, o, fd)
  <2>1. /\ Wired(f) /\ f.owner = d.owner /\ \A x \in Streams \ {o} : f.flags[x] = d.flags[x]
        /\ f.input \subseteq d.input /\ f.output \subseteq d.output
        /\ "in" \in d.flags[o] => fd \notin f.input
        /\ "out" \in d.flags[o] => fd \notin f.output
        /\ f.cursor = d.cursor
    <3>1. CASE d.flags[o] = {}
      BY <3>1
    <3>2. CASE d.flags[o] # {}
      <4>1. Reflagged(d, DisableAll(d, o, fd), o, fd, {})
        BY <1>1, DisableAllReflags
      <4> QED
        BY <1>1, <3>2, <4>1 DEF Reflagged, Dispatchers
    <3> QED  BY <3>1, <3>2
  <2>2. e = ReleaseSocketStream(f, o)
    BY <1>4 DEF SetSocketFlags
  <2> HIDE DEF e, f
  <2>3. Leaves(f, e, o)
    BY <1>1, <2>1, <2>2, ReleaseSocketStreamLeaves
  <2>4. /\ e.owner[o] = None /\ \A x \in Streams \ {o} : e.owner[x] = d.owner[x] /\ e.flags[x] = d.flags[x]
        /\ e.input = f.input /\ e.output = f.output /\ (e.cursor = None <=> d.cursor = None)
    <3>1. f \in Dispatchers
      BY <2>1 DEF Wired
    <3> QED  BY <1>1, <2>1, <2>3, <3>1 DEF Leaves, Dispatchers
  <2>5. \A x \in SocketStreams : e.owner[x] # s
    BY <1>1, <1>2, <2>4 DEF Streams
  <2>6. Watches(e, s, flags)
    BY <1>4, <2>5 DEF Watches, HasSocketStream
  <2> QED
    BY <1>1, <1>2, <2>1, <2>3, <2>4, <2>6, StreamsAssumption DEF Rewatched, Leaves, Streams, e
<1> QED
  BY <1>3, <1>4

\* UpdateSocketNotification(): the socket is watched for the flags it asks for.
LEMMA UpdateSocketNotificationRewatches ==
  ASSUME NEW d, Wired(d), NEW s \in Sockets, NEW fd, NEW flags \in SUBSET Directions
  PROVE  Rewatched(d, UpdateSocketNotification(d, s, fd, flags), s, fd, flags)
<1> DEFINE f == GetSocketStream(d, s)
           e == UpdateSocketNotification(d, s, fd, flags)
<1>1. e = SetSocketFlags(f, SocketStream(f, s), fd, flags)
  BY DEF UpdateSocketNotification
<1>2. \/ HasSocketStream(d, s) /\ f = d
      \/ ~HasSocketStream(d, s) /\ \E o \in SocketStreams : Joins(d, f, o, s)
  BY GetSocketStreamGets
<1>3. d \in Dispatchers /\ s # None
  BY StreamsAssumption DEF Wired
<1> HIDE DEF e, f
<1>4. CASE HasSocketStream(d, s) /\ f = d
  <2>1. PICK o \in SocketStreams : d.owner[o] = s
    BY <1>4 DEF HasSocketStream
  <2>2. SocketStream(f, s) = o
    BY <1>4, <2>1, SocketStreamIs
  <2> QED
    BY <1>1, <1>4, <2>1, <2>2, SetSocketFlagsRewatches DEF e
<1>5. ASSUME ~HasSocketStream(d, s), NEW o \in SocketStreams, Joins(d, f, o, s)
      PROVE  Rewatched(d, e, s, fd, flags)
  <2>1. /\ Wired(f) /\ f.owner[o] = s /\ f.flags = d.flags /\ d.owner[o] = None
        /\ \A x \in Streams \ {o} : f.owner[x] = d.owner[x]
        /\ f.input = d.input /\ f.output = d.output /\ (f.cursor = None <=> d.cursor = None)
    BY <1>3, <1>5 DEF Joins, Dispatchers, Streams
  <2>2. SocketStream(f, s) = o
    BY <2>1, SocketStreamIs
  <2>3. Rewatched(f, e, s, fd, flags)
    BY <1>1, <2>1, <2>2, SetSocketFlagsRewatches
  <2>4. \A x \in SocketStreams, u \in Sockets \ {s} : f.owner[x] = u <=> d.owner[x] = u
    BY <2>1, StreamsAssumption DEF Streams
  <2>5. \A x \in Generics : f.owner[x] = d.owner[x]
    BY <2>1, StreamsAssumption DEF Streams
  <2>6. \A x \in SocketStreams : d.owner[x] # s
    BY <1>5 DEF HasSocketStream
  <2> QED
    BY <2>1, <2>3, <2>4, <2>5, <2>6 DEF Rewatched
<1> QED
  BY <1>2, <1>4, <1>5 DEF e

-----------------------------------------------------------------------------
\* The same for descriptors with a callback.

\* What InstallGenericInput(fd) and its likes do to the streams.
Changed(d, e, fd) ==
  /\ Wired(e)
  /\ \A o \in SocketStreams : e.owner[o] = d.owner[o] /\ e.flags[o] = d.flags[o]
  /\ \A o \in Generics, g \in Fds \ {fd} :
       /\ e.owner[o] = g <=> d.owner[o] = g
       /\ d.owner[o] = g => e.flags[o] = d.flags[o]
  /\ e.input \subseteq d.input /\ e.output \subseteq d.output
  /\ \A o \in Generics : d.owner[o] = fd =>
       /\ "in" \in d.flags[o] /\ fd \in e.input => e.owner[o] = fd /\ "in" \in e.flags[o]
       /\ "out" \in d.flags[o] /\ fd \in e.output => e.owner[o] = fd /\ "out" \in e.flags[o]
  /\ e.cursor = None <=> d.cursor = None

\* The stream of a descriptor is put back, and the sets forget the descriptor.
LEMMA ReleaseGenericStreamLeaves ==
  ASSUME NEW d, Wired(d), NEW o \in Generics, d.owner[o] # None
  PROVE  LET f == SetFlags(d, o, d.owner[o], {})
         IN  Reflagged(d, f, o, d.owner[o], {}) /\ Leaves(f, ReleaseGenericStream(d, o), o)
<1> DEFINE f == SetFlags(d, o, d.owner[o], {})
           p == <<o>> \o f.genericPool
           own == [f.owner EXCEPT ![o] = None]
<1>1. o \in Streams
  BY DEF Streams
<1>2. Reflagged(d, f, o, d.owner[o], {})
  BY <1>1, SetFlagsReflags
<1>3. ReleaseGenericStream(d, o) = Remove([f EXCEPT !.genericPool = <<o>> \o @], o)
  BY DEF ReleaseGenericStream
<1> HIDE DEF f
<1>4. Wired(f) /\ f \in Dispatchers /\ f.owner = d.owner
  BY <1>2 DEF Reflagged, Wired
<1>5. own[o] = None /\ \A x \in Streams \ {o} : own[x] = f.owner[x]
  BY <1>1, <1>4 DEF Dispatchers
<1> HIDE DEF own
<1>6. Pooled(p, Generics, own)
  <2>1. Pooled(f.genericPool, Generics, f.owner) /\ \A x \in Generics \ {o} : own[x] = f.owner[x]
    BY <1>4, <1>5 DEF Wired, Streams
  <2> QED  BY <1>4, <1>5, <2>1, PoolReturned
<1>7. Pooled(f.socketPool, SocketStreams, own)
  <2>1. \A x \in SocketStreams : own[x] = f.owner[x]
    BY <1>5, StreamsAssumption DEF Streams
  <2> QED  BY <1>4, <2>1 DEF Wired, Pooled
<1>8. ReleaseGenericStream(d, o) = Remove(WithPools(f, f.socketPool, p), o)
  BY <1>3, <1>4, PoolsExcept
<1> HIDE DEF p
<1>9. Leaves(f, ReleaseGenericStream(d, o), o)
  BY <1>1, <1>4, <1>6, <1>7, <1>8, RemoveWired DEF own
<1> QED
  BY <1>2, <1>9 DEF f

\* GetGenericStream() finds the stream of a descriptor or takes one from the pool.
LEMMA GetGenericStreamGets ==
  ASSUME NEW d, Wired(d), NEW fd \in Fds, HasGenericStream(d, fd) \/ d.genericPool # <<>>
  PROVE  LET e == GetGenericStream(d, fd)
         IN  \/ HasGenericStream(d, fd) /\ e = d
             \/ ~HasGenericStream(d, fd) /\ \E o \in Generics : Joins(d, e, o, fd)
<1>1. CASE HasGenericStream(d, fd)
  BY <1>1 DEF GetGenericStream
<1>2. CASE ~HasGenericStream(d, fd)
  <2> DEFINE p == d.genericPool
             o == Head(p)
             own == [d.owner EXCEPT ![o] = fd]
  <2>1. d \in Dispatchers /\ Pooled(p, Generics, d.owner) /\ p # <<>>
    BY <1>2 DEF Wired
  <2>2. o \in Generics
    BY <2>1 DEF Pooled
  <2>3. fd # None
    BY StreamsAssumption
  <2>4. own[o] = fd /\ \A x \in Streams \ {o} : own[x] = d.owner[x]
    BY <2>1, <2>2 DEF Dispatchers, Streams
  <2>5. d.owner[o] = None /\ Pooled(Tail(p), Generics, own)
    <3> HIDE DEF own, p
    <3>1. \A x \in Generics \ {o} : own[x] = d.owner[x]
      BY <2>4 DEF Streams
    <3>2. own[Head(p)] # None
      BY <2>3, <2>4
    <3> QED  BY <2>1, <3>1, <3>2, PoolHead DEF p
  <2>6. Pooled(d.socketPool, SocketStreams, own)
    <3>1. \A x \in SocketStreams : own[x] = d.owner[x]
      BY <2>2, <2>4, StreamsAssumption DEF Streams
    <3> QED  BY <3>1 DEF Wired, Pooled
  <2>7. OneEach(own)
    <3> HIDE DEF own
    <3>1. \A x \in Generics : d.owner[x] # fd
      BY <1>2 DEF HasGenericStream
    <3> QED  BY <2>2, <2>3, <2>4, <3>1, StreamsAssumption DEF Wired, OneEach, Streams
  <2>8. [d EXCEPT !.genericPool = Tail(@)] = WithPools(d, d.socketPool, Tail(p))
    BY <2>1, PoolsExcept
  <2>9. GetGenericStream(d, fd) = Insert(WithPools(d, d.socketPool, Tail(p)), o, fd)
    BY <1>2, <2>8 DEF GetGenericStream
  <2>10. o \in Streams
    BY <2>2 DEF Streams
  <2> HIDE DEF own, o, p
  <2>11. Joins(d, GetGenericStream(d, fd), o, fd)
    BY <2>3, <2>5, <2>6, <2>7, <2>9, <2>10, InsertWired DEF own
  <2> QED  BY <1>2, <2>2, <2>11
<1> QED
  BY <1>1, <1>2

\* The stream of a descriptor, once it has one.
LEMMA GenericStreamIs ==
  ASSUME NEW d, Wired(d), NEW fd \in Fds, NEW o \in Generics, d.owner[o] = fd
  PROVE  GenericStream(d, fd) = o /\ HasGenericStream(d, fd)
<1>1. fd # None
  BY StreamsAssumption
<1>2. \A x \in Generics : d.owner[x] = fd => x = o
  BY <1>1 DEF Wired, OneEach
<1> QED
  BY <1>2 DEF GenericStream, HasGenericStream

\* A change of its flags is a change for this descriptor only.
LEMMA ReflaggedChanges ==
  ASSUME NEW d, Wired(d), NEW fd \in Fds, NEW o \in Generics, d.owner[o] = fd,
         NEW flags \in SUBSET Directions, NEW e, Reflagged(d, e, o, fd, flags)
  PROVE  Changed(d, e, fd)
<1>1. o \in Streams /\ o \notin SocketStreams /\ d \in Dispatchers /\ fd # None
  BY StreamsAssumption DEF Streams, Wired
<1>2. \A x \in Generics : d.owner[x] = fd => x = o
  BY <1>1 DEF Wired, OneEach
<1>3. e.owner = d.owner /\ e.flags[o] = flags /\ \A x \in Streams \ {o} : e.flags[x] = d.flags[x]
  BY <1>1 DEF Reflagged, Dispatchers
<1>4. "in" \in d.flags[o] /\ fd \in e.input => "in" \in flags
  BY DEF Reflagged
<1>5. "out" \in d.flags[o] /\ fd \in e.output => "out" \in flags
  BY DEF Reflagged
<1> QED
  BY <1>1, <1>2, <1>3, <1>4, <1>5 DEF Changed, Reflagged, Streams

\* So is InstallGenericInput() or InstallGenericOutput(),
LEMMA InstallGenericChanges ==
  ASSUME NEW d, Wired(d), NEW fd \in Fds, NEW dir \in Directions,
         HasGenericStream(d, fd) \/ (dir = "in" /\ d.genericPool # <<>>)
  PROVE  Changed(d, InstallGeneric(d, fd, dir), fd)
<1> DEFINE f == IF dir = "in" THEN GetGenericStream(d, fd) ELSE d
           e == InstallGeneric(d, fd, dir)
           x == GenericStream(f, fd)
<1>1. e = SetFlags(f, x, fd, f.flags[x] \cup {dir})
  BY DEF InstallGeneric
<1>2. \/ HasGenericStream(d, fd) /\ f = d
      \/ ~HasGenericStream(d, fd) /\ \E o \in Generics : Joins(d, f, o, fd)
  BY GetGenericStreamGets
<1>3. d \in Dispatchers /\ fd # None
  BY StreamsAssumption DEF Wired
<1> HIDE DEF e, f, x
<1>4. ASSUME Wired(f), NEW o \in Generics, f.owner[o] = fd
      PROVE  Changed(f, e, fd)
  <2>1. x = o /\ f \in Dispatchers /\ o \in Streams
    BY <1>4, GenericStreamIs DEF x, Wired, Streams
  <2>2. f.flags[x] \cup {dir} \in SUBSET Directions
    BY <2>1 DEF Dispatchers
  <2>3. Reflagged(f, e, o, fd, f.flags[x] \cup {dir})
    BY <1>1, <1>3, <1>4, <2>1, <2>2, SetFlagsReflags
  <2> QED
    BY <1>4, <2>2, <2>3, ReflaggedChanges
<1>5. CASE HasGenericStream(d, fd) /\ f = d
  BY <1>4, <1>5 DEF HasGenericStream, e
<1>6. ASSUME ~HasGenericStream(d, fd), NEW o \in Generics, Joins(d, f, o, fd)
      PROVE  Changed(d, e, fd)
  <2>1. /\ Wired(f) /\ f.owner[o] = fd /\ f.flags = d.flags /\ d.owner[o] = None
        /\ \A y \in Streams \ {o} : f.owner[y] = d.owner[y]
        /\ f.input = d.input /\ f.output = d.output /\ (f.cursor = None <=> d.cursor = None)
    BY <1>3, <1>6 DEF Joins, Dispatchers, Streams
  <2>2. Changed(f, e, fd)
    BY <1>4, <2>1
  <2>3. \A y \in Generics, g \in Fds \ {fd} : f.owner[y] = g <=> d.owner[y] = g
    BY <2>1, StreamsAssumption DEF Streams
  <2>4. \A y \in SocketStreams : f.owner[y] = d.owner[y]
    BY <2>1, StreamsAssumption DEF Streams
  <2>5. \A y \in Generics : d.owner[y] # fd
    BY <1>6 DEF HasGenericStream
  <2> QED
    BY <2>1, <2>2, <2>3, <2>4, <2>5 DEF Changed
<1> QED
  BY <1>2, <1>5, <1>6 DEF e

\* and RemoveGenericInput() or RemoveGenericOutput().
LEMMA RemoveGenericChanges ==
  ASSUME NEW d, Wired(d), NEW fd \in Fds, NEW dir \in Directions
  PROVE  Changed(d, RemoveGeneric(d, fd, dir), fd)
<1>1. CASE ~HasGenericStream(d, fd)
  BY <1>1 DEF RemoveGeneric, Changed, HasGenericStream
<1>2. CASE HasGenericStream(d, fd)
  <2>1. PICK o \in Generics : d.owner[o] = fd
    BY <1>2 DEF HasGenericStream
  <2>2. GenericStream(d, fd) = o /\ o \in Streams /\ d \in Dispatchers /\ fd # None /\ o \notin SocketStreams
    BY <2>1, GenericStreamIs, StreamsAssumption DEF Streams, Wired
  <2> DEFINE flags == d.flags[o] \ {dir}
             f == SetFlags(d, o, fd, flags)
             e == RemoveGeneric(d, fd, dir)
  <2>3. flags \in SUBSET Directions
    BY <2>2 DEF Dispatchers
  <2>4. Reflagged(d, f, o, fd, flags)
    BY <2>1, <2>2, <2>3, SetFlagsReflags
  <2>5. e = IF f.flags[o] = {} THEN ReleaseGenericStream(f, o) ELSE f
    BY <1>2, <2>2 DEF RemoveGeneric
  <2> HIDE DEF e, f
  <2>6. Changed(d, f, fd)
    BY <2>1, <2>3, <2>4, ReflaggedChanges
  <2>7. CASE f.flags[o] # {}
    BY <2>5, <2>6, <2>7 DEF e
  <2>8. CASE f.flags[o] = {}
    <3> DEFINE g == SetFlags(f, o, f.owner[o], {})
    <3>1. Wired(f) /\ f \in Dispatchers /\ f.owner[o] = fd
      BY <2>1, <2>4 DEF Reflagged, Wired
    <3>2. Reflagged(f, g, o, f.owner[o], {}) /\ Leaves(g, e, o)
      BY <2>2, <2>5, <2>8, <3>1, ReleaseGenericStreamLeaves
    <3> HIDE DEF g
    <3>3. g \in Dispatchers
      BY <3>2 DEF Reflagged, Wired
    <3>4. /\ e.owner[o] = None /\ \A y \in Streams \ {o} : e.owner[y] = f.owner[y] /\ e.flags[y] = f.flags[y]
          /\ e.input = g.input /\ e.output = g.output /\ (e.cursor = None <=> f.cursor = None)
      BY <2>2, <3>1, <3>2, <3>3 DEF Leaves, Reflagged, Dispatchers
    <3>5. \A y \in Generics : d.owner[y] = fd => y = o
      BY <2>1, <2>2 DEF Wired, OneEach
    <3>6. d.flags[o] \subseteq {dir} /\ flags = {}
      BY <2>2, <2>4, <2>8 DEF Reflagged, Dispatchers
    <3>7. /\ "in" \in d.flags[o] => fd \notin f.input
          /\ "out" \in d.flags[o] => fd \notin f.output
      BY <2>4, <3>6 DEF Reflagged
    <3>8. f.owner = d.owner
      BY <2>4 DEF Reflagged
    <3>9. Wired(e) /\ g.input \subseteq f.input /\ g.output \subseteq f.output
      BY <3>2 DEF Leaves, Reflagged
    <3>10. \A y \in SocketStreams : e.owner[y] = d.owner[y] /\ e.flags[y] = d.flags[y]
      BY <2>2, <2>6, <3>4 DEF Changed, Streams
    <3>11. ASSUME NEW y \in Generics, NEW h \in Fds \ {fd}
           PROVE  /\ e.owner[y] = h <=> d.owner[y] = h
                  /\ d.owner[y] = h => e.flags[y] = d.flags[y]
      <4>1. CASE y = o
        BY <2>1, <3>4, <4>1, StreamsAssumption
      <4>2. CASE y # o
        BY <2>6, <3>4, <4>2 DEF Changed, Streams
      <4> QED  BY <4>1, <4>2
    <3>12. e.input \subseteq d.input /\ e.output \subseteq d.output /\ (e.cursor = None <=> d.cursor = None)
      BY <2>6, <3>4, <3>9 DEF Changed
    <3>13. ASSUME NEW y \in Generics, d.owner[y] = fd
           PROVE  /\ ~("in" \in d.flags[y] /\ fd \in e.input)
                  /\ ~("out" \in d.flags[y] /\ fd \in e.output)
      BY <3>4, <3>5, <3>7, <3>9, <3>13
    <3> QED
      BY <3>9, <3>10, <3>11, <3>12, <3>13 DEF Changed, e
  <2> QED  BY <2>7, <2>8
<1> QED
  BY <1>1, <1>2

-----------------------------------------------------------------------------
\* The dispatcher at the start.

\* A pool that is filled at first holds each stream once.
LEMMA AllPooled ==
  ASSUME NEW S, IsFiniteSet(S), NEW owner, \A o \in S : owner[o] = None
  PROVE  Pooled(Seqs!SetToSeq(S), S, owner)
<1> DEFINE n == Cardinality(S)
           p == Seqs!SetToSeq(S)
<1>1. n \in Nat /\ ExistsBijection(1..n, S)
  BY FS_CardinalityType
<1>2. IsFiniteSet(1..n) /\ Cardinality(1..n) = n
  BY <1>1, FS_Interval
<1>3. Seqs!Cardinality(S) = n
  BY DEF Seqs!Cardinality, Cardinality
<1> HIDE DEF n
<1>4. PICK f \in [1..n -> S] : Seqs!IsInjective(f)
  BY <1>1 DEF ExistsBijection, Bijection, Injection, IsInjective, Seqs!IsInjective
<1>5. p \in [1..n -> S] /\ Seqs!IsInjective(p)
  BY <1>3, <1>4 DEF Seqs!SetToSeq
<1> HIDE DEF p
<1>6. p \in Injection(1..n, S)
  BY <1>5 DEF Injection, IsInjective, Seqs!IsInjective
<1>7. p \in Surjection(1..n, S)
  BY <1>2, <1>6, FS_Injection DEF n
<1>8. \A o \in S : \E i \in 1..n : p[i] = o
  BY <1>7 DEF Surjection
<1>9. p \in Seq(S) /\ Len(p) = n
  BY <1>1, <1>5, SeqDef
<1> QED
  BY <1>5, <1>8, <1>9 DEF Pooled, Seqs!IsInjective, p

\* A new dispatcher watches nothing.
LEMMA NewDispatcherWired ==
  /\ Wired(NewDispatcher) /\ NewDispatcher.input = {} /\ NewDispatcher.output = {}
  /\ NewDispatcher.cursor = None /\ \A o \in Streams : NewDispatcher.owner[o] = None
<1> DEFINE d == NewDispatcher
<1>1. IsFiniteSet(SocketStreams) /\ IsFiniteSet(Generics)
  BY StreamsAssumption, FS_Subset
<1>2. /\ d.owner = [o \in Streams |-> None] /\ d.flags = [o \in Streams |-> {}]
      /\ d.socketPool = Seqs!SetToSeq(SocketStreams) /\ d.genericPool = Seqs!SetToSeq(Generics)
      /\ d.input = {} /\ d.output = {} /\ d.cursor = None /\ d.dangling = FALSE
      /\ d = [owner |-> d.owner, flags |-> d.flags, socketPool |-> d.socketPool, genericPool |-> d.genericPool,
              input |-> d.input, output |-> d.output, cursor |-> d.cursor, dangling |-> d.dangling]
  BY DEF NewDispatcher
<1> HIDE DEF d
<1>3. \A o \in Streams : d.owner[o] = None /\ d.flags[o] = {}
  BY <1>2
<1>4. Pooled(d.socketPool, SocketStreams, d.owner) /\ Pooled(d.genericPool, Generics, d.owner)
  BY <1>1, <1>2, <1>3, AllPooled DEF Streams
<1>5. d \in Dispatchers
  <2>1. /\ d.owner \in [Streams -> Sockets \cup Fds \cup {None}]
        /\ d.flags \in [Streams -> SUBSET Directions]
    BY <1>2
  <2>2. d.socketPool \in Seq(SocketStreams) /\ d.genericPool \in Seq(Generics)
    BY <1>4 DEF Pooled
  <2>3. /\ d.input \in SUBSET Fds /\ d.output \in SUBSET Fds
        /\ d.cursor \in Cursor \cup {None} /\ d.dangling \in BOOLEAN
    BY <1>2
  <2>4. d = [owner |-> d.owner, flags |-> d.flags, socketPool |-> d.socketPool,
             genericPool |-> d.genericPool, input |-> d.input, output |-> d.output,
             cursor |-> d.cursor, dangling |-> d.dangling]
    BY <1>2
  <2> QED
    BY <2>1, <2>2, <2>3, <2>4 DEF Dispatchers
<1>6. OneEach(d.owner)
  BY <1>3 DEF OneEach, Streams
<1> QED
  BY <1>2, <1>3, <1>4, <1>5, <1>6 DEF Wired, d
=============================================================================
