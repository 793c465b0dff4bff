--------------------------- MODULE ProtoQueueProofs ---------------------------
(***************************************************************************)
(* Queues and items agree, whatever queues and pools there are and however *)
(* many items and containers, unless items clash in an indexed queue.      *)
(***************************************************************************)
EXTENDS ProtoQueue, TLAPS

\* A container that does not exist is in use by no item.
Unused == \A c \in Containers \ made : item[c] = None
IInv == TypeOK /\ QueuesAgree /\ Unused

LEMMA LeaveTypes ==
  ASSUME TypeOK, NEW C, Leave(C)
  PROVE  /\ item' \in [Containers -> Items \cup {None}]
         /\ queue' \in [Containers -> Queues \cup {None}]
         /\ list' \in [Items -> SUBSET Containers]
         /\ holds' \in [Queues -> SUBSET Containers]
BY DEF TypeOK, Leave

\* What leaves its queue leaves its item with it, so that the rest agree as before.
LEMMA LeaveAgrees ==
  ASSUME IInv, QueueAssumption, NEW C \in SUBSET UNION {holds[q] : q \in Queues}, Leave(C),
         \A i \in Items \ alive' : list[i] \subseteq C, alive' \subseteq Items
  PROVE  /\ \A q \in Queues : \A c \in holds'[q] :
              queue'[c] = q /\ item'[c] \in alive' /\ c \in list'[item'[c]]
         /\ \A i \in Items : \A c \in list'[i] :
              /\ item'[c] = i /\ queue'[c] \in Queues /\ c \in holds'[queue'[c]]
              /\ \A d \in list'[i] : queue'[c] = queue'[d] => c = d
<1>1. \A c \in Containers \ C : item'[c] = item[c] /\ queue'[c] = queue[c]
  BY DEF Leave
<1>2. \A q \in Queues : holds'[q] = holds[q] \ C /\ holds[q] \subseteq Containers
  BY DEF Leave, IInv, TypeOK
<1>3. \A i \in Items : list'[i] = list[i] \ C /\ list[i] \subseteq Containers
  BY DEF Leave, IInv, TypeOK
<1>4. ASSUME NEW q \in Queues, NEW c \in holds'[q]
      PROVE  queue'[c] = q /\ item'[c] \in alive' /\ c \in list'[item'[c]]
  <2>1. c \in holds[q] /\ c \in Containers \ C
    BY <1>2, <1>4
  <2>2. queue[c] = q /\ item[c] \in alive /\ c \in list[item[c]]
    BY <2>1 DEF IInv, QueuesAgree
  <2>3. item[c] \in Items
    BY <2>2 DEF IInv, TypeOK
  <2>4. item[c] \in alive'
    BY <2>1, <2>2, <2>3
  <2>5. QED
    BY <1>1, <1>3, <2>1, <2>2, <2>3, <2>4
<1>5. ASSUME NEW i \in Items, NEW c \in list'[i]
      PROVE  /\ item'[c] = i /\ queue'[c] \in Queues /\ c \in holds'[queue'[c]]
             /\ \A d \in list'[i] : queue'[c] = queue'[d] => c = d
  <2>1. c \in list[i] /\ c \in Containers \ C
    BY <1>3, <1>5
  <2>2. /\ item[c] = i /\ queue[c] \in Queues /\ c \in holds[queue[c]]
        /\ \A d \in list[i] : queue[c] = queue[d] => c = d
    BY <2>1 DEF IInv, QueuesAgree
  <2>3. QED
    BY <1>1, <1>2, <1>3, <2>1, <2>2
<1>6. QED
  BY <1>4, <1>5

\* No container is both in a pool and in a queue.
LEMMA PoolsApart ==
  ASSUME IInv, QueueAssumption, NEW p \in Pools, NEW c \in pool[p], NEW q \in Queues
  PROVE  c \notin holds[q]
BY DEF IInv, TypeOK, QueuesAgree, QueueAssumption

\* What leaves its queue is in one pool then, or gone, and nothing else is.
LEMMA ReturnAgrees ==
  ASSUME IInv, QueueAssumption, NEW C \in SUBSET UNION {holds[q] : q \in Queues}, Release(C)
  PROVE  /\ made' \subseteq Containers /\ pool' \in [Pools -> SUBSET Containers]
         /\ \A p \in Pools : \A c \in pool'[p] :
              item'[c] = None /\ \A r \in Pools : c \in pool'[r] => r = p
         /\ made' = (UNION {holds'[q] : q \in Queues}) \cup (UNION {pool'[p] : p \in Pools})
<1>1. C \subseteq Containers /\ \A c \in C : queue[c] \in Queues /\ c \in holds[queue[c]]
  BY DEF IInv, TypeOK, QueuesAgree
<1>2. \A p \in Pools : pool'[p] = pool[p] \cup {c \in C : PoolOf[queue[c]] = p}
  BY DEF Release, Return
<1>3. \A p \in Pools : pool[p] \subseteq Containers /\ pool[p] \cap C = {}
  BY <1>1, PoolsApart DEF IInv, TypeOK
<1>4. made' \subseteq Containers /\ pool' \in [Pools -> SUBSET Containers]
  BY <1>1, <1>3 DEF Release, Return, IInv, TypeOK
<1>5. ASSUME NEW p \in Pools, NEW c \in pool'[p]
      PROVE  item'[c] = None /\ \A r \in Pools : c \in pool'[r] => r = p
  <2>1. CASE c \in C
    BY <1>1, <1>2, <1>3, <1>5, <2>1 DEF Release, Leave
  <2>2. CASE c \notin C
    <3>1. c \in pool[p]
      BY <1>2, <1>5, <2>2
    <3>2. item[c] = None /\ \A r \in Pools : c \in pool[r] => r = p
      BY <3>1 DEF IInv, QueuesAgree
    <3>3. QED
      BY <1>2, <1>3, <2>2, <3>1, <3>2 DEF Release, Leave
  <2>3. QED
    BY <2>1, <2>2
<1>6. \A q \in Queues : holds'[q] = holds[q] \ C
  BY DEF Release, Leave
<1>7. made = (UNION {holds[q] : q \in Queues}) \cup (UNION {pool[p] : p \in Pools})
  BY DEF IInv, QueuesAgree
<1>8. \A c \in C : PoolOf[queue[c]] \in Pools \cup {None} /\ None \notin Pools
  BY <1>1 DEF QueueAssumption
<1>9. ASSUME NEW c
      PROVE  c \in made' <=> c \in (UNION {holds'[q] : q \in Queues}) \cup (UNION {pool'[p] : p \in Pools})
  <2>1. CASE c \in C
    <3>1. c \in made' <=> PoolOf[queue[c]] # None
      BY <1>1, <1>7, <2>1 DEF Release, Return
    <3>2. \A q \in Queues : c \notin holds'[q]
      BY <1>6, <2>1
    <3>3. \A p \in Pools : c \in pool'[p] <=> PoolOf[queue[c]] = p
      BY <1>2, <1>3, <2>1
    <3>4. QED
      BY <1>8, <2>1, <3>1, <3>2, <3>3
  <2>2. CASE c \notin C
    <3>1. c \in made' <=> c \in made
      BY <2>2 DEF Release, Return
    <3>2. \A q \in Queues : c \in holds'[q] <=> c \in holds[q]
      BY <1>6, <2>2
    <3>3. \A p \in Pools : c \in pool'[p] <=> c \in pool[p]
      BY <1>2, <2>2
    <3>4. QED
      BY <1>7, <3>1, <3>2, <3>3
  <2>3. QED
    BY <2>1, <2>2
<1>10. QED
  BY <1>4, <1>5, <1>9

\* Containers that leave their queues leave the rest in agreement, if every item that is
\* deleted leaves all of its queues.
LEMMA ReleaseAgrees ==
  ASSUME IInv, QueueAssumption, NEW C \in SUBSET UNION {holds[q] : q \in Queues}, Release(C),
         alive' \subseteq Items, \A i \in Items \ alive' : list[i] \subseteq C
  PROVE  IInv'
<1>1. Leave(C) /\ TypeOK
  BY DEF Release, IInv
<1>2. TypeOK'
  BY <1>1, LeaveTypes, ReturnAgrees DEF TypeOK
<1>3. QueuesAgree'
  BY <1>1, LeaveAgrees, ReturnAgrees DEF QueuesAgree
<1>4. Unused'
  BY DEF Release, Leave, Return, IInv, Unused
<1>5. QED
  BY <1>2, <1>3, <1>4 DEF IInv

\* What an item is in and what is in a queue are containers of queues.
LEMMA Held ==
  ASSUME IInv
  PROVE  /\ \A i \in Items : list[i] \subseteq UNION {holds[q] : q \in Queues}
         /\ \A i \in Items \ alive : list[i] = {}
<1>1. \A i \in Items : \A c \in list[i] : item[c] = i /\ queue[c] \in Queues /\ c \in holds[queue[c]]
  BY DEF IInv, QueuesAgree
<1>2. \A i \in Items : \A c \in list[i] : i \in alive
  BY <1>1 DEF IInv, QueuesAgree
<1>3. QED
  BY <1>1, <1>2

-------------------------------------------------------------------------------
\* A container that is drawn is in no queue, in no item and, then, in no pool.
LEMMA Drawn ==
  ASSUME IInv, QueueAssumption, NEW q \in Queues, NEW c \in Supply(q)
  PROVE  /\ c \in Containers
         /\ \A r \in Queues : c \notin holds[r]
         /\ \A i \in Items : c \notin list[i]
         /\ \A p \in Pools : c \in pool[p] => p = PoolOf[q]
         /\ PoolOf[q] = None => \A p \in Pools : c \notin pool[p]
<1>1. PoolOf[q] \in Pools \cup {None}
  BY DEF QueueAssumption
<1>2. c \in Containers
  BY <1>1 DEF Supply, Pooled, IInv, TypeOK
<1>3. CASE PoolOf[q] \in Pools /\ c \in pool[PoolOf[q]]
  <2>1. \A r \in Queues : c \notin holds[r]
    BY <1>3, PoolsApart
  <2>2. \A i \in Items : c \notin list[i]
    BY <2>1 DEF IInv, QueuesAgree
  <2>3. PoolOf[q] # None
    BY <1>3 DEF QueueAssumption
  <2>4. QED
    BY <1>2, <1>3, <2>1, <2>2, <2>3 DEF IInv, QueuesAgree
<1>4. CASE c \notin made
  <2>1. \A r \in Queues : c \notin holds[r]
    BY <1>4 DEF IInv, QueuesAgree
  <2>2. \A i \in Items : c \notin list[i]
    BY <2>1 DEF IInv, QueuesAgree
  <2>3. \A p \in Pools : c \notin pool[p]
    BY <1>4 DEF IInv, QueuesAgree
  <2>4. QED
    BY <1>2, <2>1, <2>2, <2>3
<1>5. QED
  BY <1>1, <1>3, <1>4 DEF Supply, Pooled

LEMMA AddAgrees ==
  ASSUME IInv, QueueAssumption, ~Clashing, NEW q \in Queues, NEW i \in Items, Add(q, i)
  PROVE  IInv'
<1>1. PICK c \in Containers :
        /\ Draw(q, c) /\ Associate(q, i, c)
        /\ holds' = IF Clashes(q, i) THEN holds ELSE [holds EXCEPT ![q] = @ \cup {c}]
  BY DEF Add
<1>2. i \in alive /\ ~Contains(q, i) /\ alive' = alive /\ holds' = [holds EXCEPT ![q] = @ \cup {c}]
  BY <1>1 DEF Add
<1>3. /\ \A r \in Queues : c \notin holds[r]
      /\ \A j \in Items : c \notin list[j]
      /\ \A p \in Pools : c \in pool[p] => p = PoolOf[q]
  BY <1>1, Drawn DEF Draw
<1>4. /\ item' = [item EXCEPT ![c] = i] /\ queue' = [queue EXCEPT ![c] = q]
      /\ list' = [list EXCEPT ![i] = @ \cup {c}]
      /\ made' = made \cup {c} /\ pool' = [p \in Pools |-> pool[p] \ {c}]
  BY <1>1 DEF Draw, Associate
<1>5. TypeOK
  BY DEF IInv
<1>6. TypeOK'
  BY <1>2, <1>4, <1>5 DEF TypeOK
<1>7. /\ \A d \in Containers \ {c} : item'[d] = item[d] /\ queue'[d] = queue[d]
      /\ item'[c] = i /\ queue'[c] = q
      /\ \A p \in Pools : pool'[p] = pool[p] \ {c}
  BY <1>4, <1>5 DEF TypeOK
<1>8. /\ list'[i] = list[i] \cup {c}
      /\ \A j \in Items : j # i => list'[j] = list[j]
      /\ \A j \in Items : list[j] \subseteq list'[j] /\ list'[j] \subseteq list[j] \cup {c}
  BY <1>4, <1>5 DEF TypeOK
<1>9. /\ holds'[q] = holds[q] \cup {c}
      /\ \A r \in Queues : r # q => holds'[r] = holds[r]
      /\ \A r \in Queues : holds[r] \subseteq holds'[r] /\ holds'[r] \subseteq holds[r] \cup {c}
  BY <1>2, <1>5 DEF TypeOK
<1>10. ASSUME NEW r \in Queues, NEW d \in holds'[r]
       PROVE  queue'[d] = r /\ item'[d] \in alive' /\ d \in list'[item'[d]]
  <2>1. CASE d = c
    BY <1>2, <1>3, <1>7, <1>8, <1>9, <1>10, <2>1
  <2>2. CASE d # c
    <3>1. d \in holds[r] /\ d \in Containers
      BY <1>5, <1>7, <1>8, <1>9, <1>10, <2>2 DEF TypeOK
    <3>2. queue[d] = r /\ item[d] \in alive /\ d \in list[item[d]]
      BY <3>1 DEF IInv, QueuesAgree
    <3>3. item[d] \in Items
      BY <1>5, <3>2 DEF TypeOK
    <3>4. QED
      BY <1>2, <1>7, <1>8, <1>9, <2>2, <3>1, <3>2, <3>3
  <2>3. QED
    BY <2>1, <2>2
<1>11. ASSUME NEW j \in Items, NEW d \in list'[j]
       PROVE  /\ item'[d] = j /\ queue'[d] \in Queues /\ d \in holds'[queue'[d]]
              /\ \A e \in list'[j] : queue'[d] = queue'[e] => d = e
  <2>1. \A e \in list[j] :
          /\ e \in Containers /\ e # c
          /\ item[e] = j /\ queue[e] \in Queues /\ e \in holds[queue[e]]
    BY <1>3, <1>5 DEF TypeOK, IInv, QueuesAgree
  <2>2. \A e \in list[i] : queue[e] # q
    BY <1>2 DEF Contains, ContainersOf
  <2>3. CASE d = c
    <3>1. j = i
      BY <1>3, <1>7, <1>8, <1>9, <1>11, <2>3
    <3>2. \A e \in list'[i] : e # c => queue'[e] # q
      BY <1>7, <1>8, <1>9, <2>1, <2>2, <3>1
    <3>3. QED
      BY <1>7, <1>8, <1>9, <2>3, <3>1, <3>2
  <2>4. CASE d # c
    <3>1. d \in list[j]
      BY <1>7, <1>8, <1>9, <1>11, <2>4
    <3>2. item'[d] = j /\ queue'[d] = queue[d] /\ queue[d] \in Queues /\ d \in holds'[queue[d]]
      BY <1>7, <1>8, <1>9, <2>1, <2>4, <3>1
    <3>3. \A e \in list[j] : queue[d] = queue[e] => d = e
      BY <3>1 DEF IInv, QueuesAgree
    <3>4. ASSUME NEW e \in list'[j], queue'[d] = queue'[e]
          PROVE  d = e
      <4>1. CASE e = c
        BY <1>3, <1>7, <1>8, <1>9, <2>2, <3>1, <3>2, <3>4, <4>1
      <4>2. CASE e # c
        BY <1>7, <1>8, <1>9, <2>1, <3>2, <3>3, <3>4, <4>2
      <4>3. QED
        BY <4>1, <4>2
    <3>5. QED
      BY <3>2, <3>4
  <2>5. QED
    BY <2>3, <2>4
<1>12. ASSUME NEW p \in Pools, NEW d \in pool'[p]
       PROVE  item'[d] = None /\ \A r \in Pools : d \in pool'[r] => r = p
  <2>1. d \in pool[p] /\ d # c /\ d \in Containers
    BY <1>5, <1>7, <1>8, <1>9, <1>12 DEF TypeOK
  <2>2. item[d] = None /\ \A r \in Pools : d \in pool[r] => r = p
    BY <2>1 DEF IInv, QueuesAgree
  <2>3. QED
    BY <1>7, <1>8, <1>9, <2>1, <2>2
<1>13. made' = (UNION {holds'[r] : r \in Queues}) \cup (UNION {pool'[p] : p \in Pools})
  <2>1. made = (UNION {holds[r] : r \in Queues}) \cup (UNION {pool[p] : p \in Pools})
    BY DEF IInv, QueuesAgree
  <2>2. ASSUME NEW d
        PROVE  d \in made' <=> d \in (UNION {holds'[r] : r \in Queues}) \cup (UNION {pool'[p] : p \in Pools})
    <3>1. CASE d = c
      BY <1>4, <1>7, <1>8, <1>9, <3>1
    <3>2. CASE d # c
      <4>1. \A r \in Queues : d \in holds'[r] <=> d \in holds[r]
        BY <1>9, <3>2
      <4>2. \A p \in Pools : d \in pool'[p] <=> d \in pool[p]
        BY <1>7, <3>2
      <4>3. QED
        BY <1>4, <2>1, <3>2, <4>1, <4>2
    <3>3. QED
      BY <3>1, <3>2
  <2>3. QED
    BY <2>2
<1>14. Unused'
  BY <1>4, <1>5 DEF IInv, Unused, TypeOK
<1>15. QED
  BY <1>6, <1>10, <1>11, <1>12, <1>13, <1>14 DEF IInv, QueuesAgree

\* A container that was not used after all is in its pool, and in no other.
LEMMA AsideAgrees ==
  ASSUME IInv, QueueAssumption, NEW q \in Queues, NEW c \in Supply(q), PoolOf[q] # None,
         made' = made \cup {c}, pool' = [pool EXCEPT ![PoolOf[q]] = @ \cup {c}],
         UNCHANGED <<alive, item, queue, list, holds>>
  PROVE  IInv'
<1> DEFINE p == PoolOf[q]
<1>1. p \in Pools
  BY DEF QueueAssumption
<1>2. /\ c \in Containers /\ (\A r \in Queues : c \notin holds[r])
      /\ \A o \in Pools : c \in pool[o] => o = p
  BY Drawn
<1>3. TypeOK'
  BY <1>1, <1>2 DEF IInv, TypeOK
<1>4. pool'[p] = pool[p] \cup {c} /\ \A o \in Pools : o # p => pool'[o] = pool[o]
  BY <1>1 DEF IInv, TypeOK
<1>5. item[c] = None
  BY <1>1, <1>2 DEF Supply, Pooled, IInv, QueuesAgree, Unused
<1>6. ASSUME NEW o \in Pools, NEW d \in pool'[o]
      PROVE  item'[d] = None /\ \A r \in Pools : d \in pool'[r] => r = o
  <2>1. CASE d = c
    BY <1>2, <1>4, <1>5, <1>6, <2>1
  <2>2. CASE d # c
    <3>1. \A r \in Pools : d \in pool'[r] => d \in pool[r]
      BY <1>4, <2>2
    <3>2. QED
      BY <1>6, <3>1 DEF IInv, QueuesAgree
  <2>3. QED
    BY <2>1, <2>2
<1>7. made' = (UNION {holds'[r] : r \in Queues}) \cup (UNION {pool'[o] : o \in Pools})
  <2>1. ASSUME NEW d
        PROVE  d \in UNION {pool'[o] : o \in Pools} <=> d \in UNION {pool[o] : o \in Pools} \/ d = c
    BY <1>1, <1>4
  <2>2. made = (UNION {holds[r] : r \in Queues}) \cup (UNION {pool[o] : o \in Pools})
    BY DEF IInv, QueuesAgree
  <2>3. QED
    BY <2>1, <2>2
<1>8. QueuesAgree'
  BY <1>6, <1>7 DEF IInv, QueuesAgree
<1>9. Unused'
  BY DEF IInv, Unused
<1>10. QED
  BY <1>3, <1>8, <1>9 DEF IInv

\* A queue that is deleted takes its own pool with it, and all containers it has.
LEMMA DeleteQueueAgrees ==
  ASSUME IInv, QueueAssumption, NEW q \in Queues, DeleteQueue(q)
  PROVE  IInv'
<1>1. /\ PoolOf[q] = q /\ Leave(holds[q]) /\ alive' = alive
      /\ pool' = [pool EXCEPT ![q] = {}] /\ made' = made \ (holds[q] \cup pool[q])
  BY DEF DeleteQueue
<1>2. q \in Pools
  BY <1>1 DEF QueueAssumption
<1>3. TypeOK /\ holds[q] \in SUBSET UNION {holds[r] : r \in Queues}
  BY DEF IInv
<1>4. TypeOK'
  BY <1>1, <1>3, LeaveTypes DEF TypeOK
<1>5. pool'[q] = {} /\ \A o \in Pools : o # q => pool'[o] = pool[o]
  BY <1>1, <1>2, <1>3 DEF TypeOK
<1>6. \A r \in Queues : holds'[r] = holds[r] \ holds[q]
  BY <1>1 DEF Leave
<1>7. \A i \in Items \ alive' : list[i] \subseteq holds[q]
  BY <1>1, Held
<1>8. alive' \subseteq Items
  BY <1>1, <1>3 DEF TypeOK
<1>9. ASSUME NEW o \in Pools, NEW d \in pool'[o]
      PROVE  item'[d] = None /\ \A r \in Pools : d \in pool'[r] => r = o
  <2>1. d \in pool[o] /\ d \in Containers
    BY <1>3, <1>5, <1>9 DEF TypeOK
  <2>2. item[d] = None /\ \A r \in Pools : d \in pool[r] => r = o
    BY <2>1 DEF IInv, QueuesAgree
  <2>3. item'[d] = None
    BY <1>1, <2>1, <2>2 DEF Leave
  <2>4. QED
    BY <1>5, <2>2, <2>3
<1>10. made' = (UNION {holds'[r] : r \in Queues}) \cup (UNION {pool'[o] : o \in Pools})
  <2>1. made = (UNION {holds[r] : r \in Queues}) \cup (UNION {pool[o] : o \in Pools})
    BY DEF IInv, QueuesAgree
  <2>2. ASSUME NEW d
        PROVE  d \in made' <=> d \in (UNION {holds'[r] : r \in Queues}) \cup (UNION {pool'[o] : o \in Pools})
    <3>1. CASE d \in holds[q]
      <4>1. \A o \in Pools : d \notin pool[o]
        BY <3>1, PoolsApart
      <4>2. QED
        BY <1>1, <1>5, <1>6, <3>1, <4>1
    <3>2. CASE d \in pool[q]
      <4>1. \A r \in Queues : d \notin holds[r]
        BY <1>2, <3>2, PoolsApart
      <4>2. \A o \in Pools : d \in pool[o] => o = q
        BY <1>2, <3>2 DEF IInv, QueuesAgree
      <4>3. QED
        BY <1>1, <1>5, <1>6, <3>2, <4>1, <4>2
    <3>3. CASE d \notin holds[q] /\ d \notin pool[q]
      <4>1. \A r \in Queues : d \in holds'[r] <=> d \in holds[r]
        BY <1>6, <3>3
      <4>2. \A o \in Pools : d \in pool'[o] <=> d \in pool[o]
        BY <1>5, <3>3
      <4>3. QED
        BY <1>1, <2>1, <3>3, <4>1, <4>2
    <3>4. QED
      BY <3>1, <3>2, <3>3
  <2>3. QED
    BY <2>2
<1>11. QueuesAgree'
  BY <1>1, <1>3, <1>7, <1>8, <1>9, <1>10, LeaveAgrees DEF QueuesAgree
<1>12. Unused'
  <2>1. \A d \in pool[q] : item[d] = None
    BY <1>2 DEF IInv, QueuesAgree
  <2>2. \A d \in Containers \ made' : d \in holds[q] \/ item[d] = None
    BY <1>1, <2>1 DEF IInv, Unused
  <2>3. QED
    BY <1>1, <2>2 DEF Leave, Unused
<1>13. QED
  BY <1>4, <1>11, <1>12 DEF IInv

LEMMA DestroyPoolAgrees ==
  ASSUME IInv, QueueAssumption, NEW p \in Pools, DestroyPool(p)
  PROVE  IInv'
<1>1. /\ pool' = [pool EXCEPT ![p] = {}] /\ made' = made \ pool[p]
      /\ UNCHANGED <<alive, item, queue, list, holds>>
  BY DEF DestroyPool
<1>2. TypeOK'
  BY <1>1 DEF IInv, TypeOK
<1>3. pool'[p] = {} /\ \A o \in Pools : o # p => pool'[o] = pool[o]
  BY <1>1 DEF IInv, TypeOK
<1>4. \A o \in Pools : \A d \in pool'[o] :
        item'[d] = None /\ \A r \in Pools : d \in pool'[r] => r = o
  BY <1>1, <1>3 DEF IInv, QueuesAgree
<1>5. made' = (UNION {holds'[r] : r \in Queues}) \cup (UNION {pool'[o] : o \in Pools})
  <2>1. made = (UNION {holds[r] : r \in Queues}) \cup (UNION {pool[o] : o \in Pools})
    BY DEF IInv, QueuesAgree
  <2>2. ASSUME NEW d
        PROVE  d \in made' <=> d \in (UNION {holds'[r] : r \in Queues}) \cup (UNION {pool'[o] : o \in Pools})
    <3>1. CASE d \in pool[p]
      <4>1. \A r \in Queues : d \notin holds[r]
        BY <3>1, PoolsApart
      <4>2. \A o \in Pools : d \in pool[o] => o = p
        BY <3>1 DEF IInv, QueuesAgree
      <4>3. QED
        BY <1>1, <1>3, <3>1, <4>1, <4>2
    <3>2. CASE d \notin pool[p]
      <4>1. \A o \in Pools : d \in pool'[o] <=> d \in pool[o]
        BY <1>3, <3>2
      <4>2. QED
        BY <1>1, <2>1, <3>2, <4>1
    <3>3. QED
      BY <3>1, <3>2
  <2>3. QED
    BY <2>2
<1>6. QueuesAgree'
  BY <1>1, <1>4, <1>5 DEF IInv, QueuesAgree
<1>7. Unused'
  BY <1>1 DEF IInv, Unused, TypeOK, QueuesAgree
<1>8. QED
  BY <1>2, <1>6, <1>7 DEF IInv

-------------------------------------------------------------------------------
\* The queues agree with their items and pools after any calls of add, remove, empty,
\* destroy and delete, with any number of queues of any kind, pools and items: every
\* container is where its queue, its item or its pool says, and none is lost.
THEOREM QueuesAgreeAlways ==
  ASSUME QueueAssumption, ~Clashing
  PROVE  Spec => []QueuesAgree
<1>1. ASSUME Init PROVE IInv
  BY <1>1 DEF Init, IInv, TypeOK, QueuesAgree, Unused
<1>2. ASSUME IInv, [Next]_vars PROVE IInv'
  <2> USE <1>2
  <2>1. ASSUME NEW q \in Queues, NEW i \in Items, Add(q, i) PROVE IInv'
    BY <2>1, AddAgrees
  <2>2. ASSUME NEW q \in Queues, NEW i \in Items, Remove(q, i) PROVE IInv'
    <3>1. ContainersOf(q, i) \in SUBSET UNION {holds[r] : r \in Queues}
      BY Held DEF ContainersOf
    <3>2. Release(ContainersOf(q, i)) /\ alive' = alive
      BY <2>2 DEF Remove
    <3>3. QED
      BY <3>1, <3>2, ReleaseAgrees, Held DEF IInv, TypeOK
  <2>3. ASSUME NEW q \in Queues, NEW i \in Items, NEW j \in Items, InsertBeside(q, i, j)
        PROVE  IInv'
    <3>1. CASE Contains(q, j)
      BY <2>3, <3>1, AddAgrees DEF InsertBeside
    <3>2. CASE ~Contains(q, j)
      BY <2>3, <3>2, AsideAgrees DEF InsertBeside
    <3>3. QED
      BY <3>1, <3>2
  <2>4. ASSUME NEW q \in Queues, Empty(q) PROVE IInv'
    <3>1. Release(holds[q]) /\ alive' = alive
      BY <2>4 DEF Empty
    <3>2. QED
      BY <3>1, ReleaseAgrees, Held DEF IInv, TypeOK
  <2>5. ASSUME NEW I \in SUBSET Items, NEW C \in SUBSET UNION {holds[r] : r \in Queues},
               Delete(I, C)
        PROVE  IInv'
    <3> DEFINE All == C \cup UNION {list[i] : i \in I}
    <3>1. All \in SUBSET UNION {holds[r] : r \in Queues}
      BY <2>5, Held
    <3>2. Release(All) /\ alive' = alive \ I
      BY <2>5 DEF Delete
    <3>3. alive' \subseteq Items
      BY <3>2 DEF IInv, TypeOK
    <3>4. \A i \in Items \ alive' : list[i] \subseteq All
      BY <3>2, Held
    <3> HIDE DEF All
    <3>5. QED
      BY <3>1, <3>2, <3>3, <3>4, ReleaseAgrees
  <2>6. ASSUME NEW q \in Queues, Destroy(q) PROVE IInv'
    <3>1. ItemsIn(q) \in SUBSET Items
      BY DEF ItemsIn, IInv, TypeOK, QueuesAgree
    <3>2. QED
      BY <2>5, <2>6, <3>1 DEF Destroy
  <2>7. ASSUME NEW q \in Queues, DeleteQueue(q) PROVE IInv'
    BY <2>7, DeleteQueueAgrees
  <2>8. ASSUME NEW i \in Items, NewItem(i) PROVE IInv'
    BY <2>8 DEF NewItem, IInv, TypeOK, QueuesAgree, Unused
  <2>9. ASSUME NEW i \in Items, DeleteItem(i) PROVE IInv'
    BY <2>5, <2>9 DEF DeleteItem
  <2>10. ASSUME NEW p \in Pools, DestroyPool(p) PROVE IInv'
    BY <2>10, DestroyPoolAgrees
  <2>11. CASE UNCHANGED vars
    BY <2>11 DEF vars, IInv, TypeOK, QueuesAgree, Unused
  <2>12. QED
    BY <2>1, <2>2, <2>3, <2>4, <2>6, <2>7, <2>8, <2>9, <2>10, <2>11 DEF Next
<1>3. IInv => QueuesAgree
  BY DEF IInv
<1>4. QED
  BY <1>1, <1>2, <1>3, PTL DEF Spec
===============================================================================
