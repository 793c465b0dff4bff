------------------------------ MODULE MCDataTypes ------------------------------
(***************************************************************************)
(* Data types that know nothing of each other, checked in one run: in each *)
(* behaviour one of them, the chosen one, is used and the others rest.     *)
(***************************************************************************)
EXTENDS ProtoTime, TLC

CONSTANTS Timers, None

VARIABLES chosen,
          list, count, table, longTable, timeout, key, kind,  \* of TimerQueues
          mask,                                               \* of ProtoSlidingMask
          bits, first_set,                                    \* of ProtoBitmask
          mode, tree, item_key, positive_min, it, got,        \* of ProtoSortedTree
          reg, tape, at, heard, found,                        \* of ProtoLFSR
          alive, made, item, queue, containers, holds, pool   \* of ProtoQueue

\* ProtoTime: a second of five microseconds.  Fractions that are cut off, rounded
\* down, rounded up, and up to a whole second.
SomeDoubles ==
  {[whole |-> w, tenths |-> f] : w \in {0, 1}, f \in {0, 4, 5, 23, 28, 46}}
WholeSeconds == {[whole |-> w, tenths |-> 0] : w \in {1, 2}}

\* TimerQueues: three timeouts (so that ties occur), room for two in the list.
Sorted == INSTANCE TimerQueues WITH ListMax <- 2, Timeouts <- {1, 2, 3}, Orphaning <- FALSE
TimersSymmetry == Permutations(Timers)

\* ProtoSlidingMask: a window of 6 bits in a ring of 6 positions, over 16 indices;
\* other masks are all that fits beside one index and across the end of the range.
Mask == INSTANCE ProtoSlidingMask WITH
          NumBits <- 6, Range <- 16, Counts <- {0, 1, 2, 4, 6, 7}, Misjudging <- FALSE,
          Operands <- SUBSET (2..6) \cup SUBSET {0, 1, 2, 15}

\* ProtoBitmask: nine bits, one in the second byte; the other masks are smaller, in one
\* byte, or too large for the operations that say so.
Bitmask == INSTANCE ProtoBitmask WITH
             NumBits <- 9, Misjudging <- FALSE,
             Operands <- [size : {5}, bits : SUBSET (0..4)] \cup [size : {3}, bits : SUBSET (0..2)]
                         \cup [size : {10}, bits : {{}, {1, 9}, {9}, {0, 3, 8}}]

\* ProtoSortedTree: eight keys, of which the upper four may have a sign.
Tree == INSTANCE ProtoSortedTree WITH
          Items <- Timers, KeyRange <- 8, Orphaning <- FALSE, key <- item_key

\* ProtoLFSR: registers of three and four bits, one of them not of maximal length; all
\* buffers of six bits are what a register is looked for of.
Register == INSTANCE ProtoLFSR WITH
              Polynomials <- {[bits |-> 3, poly |-> {0, 2}], [bits |-> 4, poly |-> {0, 3}],
                              [bits |-> 3, poly |-> {0, 1, 2}]},
              InitialStates <- {{0, 3}, {0, 1, 2, 3, 4}, {1}},
              Offsets <- {-3, -1, 0, 2},
              Received <- {<<TRUE, FALSE, FALSE, TRUE, FALSE>>, <<FALSE, TRUE, TRUE, TRUE, FALSE>>},
              Buffers <- [1..6 -> BOOLEAN],
              got <- heard

\* ProtoQueue: three items of which two have the same key, a ProtoSimpleQueue with its own
\* pool, two ProtoSortedQueues that share one, and a ProtoIndexedQueue without.
Shared == INSTANCE ProtoQueue WITH
            Items <- 1..3, Containers <- Timers, Clashing <- FALSE, Key <- <<1, 1, 2>>,
            Queues <- {"list", "cost", "model", "name"}, Pools <- {"list", "shared"},
            Simple <- {"list"}, Indexed <- {"name"},
            PoolOf <- [list |-> "list", cost |-> "shared", model |-> "shared", name |-> None],
            list <- containers

ASSUME AssumptionsMet ==
  /\ Sorted!QueuesAssumption
  /\ Mask!MaskAssumption
  /\ Bitmask!BitmaskAssumption
  /\ Tree!SortedTreeAssumption
  /\ Register!LFSRAssumption
  /\ Shared!QueueAssumption

-------------------------------------------------------------------------------
queueVars == <<list, count, table, longTable, timeout, key, kind>>
bitVars == <<bits, first_set>>
treeVars == <<mode, tree, item_key, positive_min, it, got>>
regVars == <<reg, tape, at, heard, found>>
sharedVars == <<alive, made, item, queue, containers, holds, pool>>

DataInit ==
  /\ chosen \in {"time", "queues", "mask", "bitmask", "tree", "lfsr", "shared"}
  /\ Init /\ Sorted!Init /\ Mask!Init /\ Bitmask!Init /\ Tree!Init /\ Register!Init /\ Shared!Init
  /\ chosen # "queues" => timeout = [t \in Timers |-> 1]
  /\ chosen # "tree" => mode = "unsigned"
  /\ chosen # "lfsr" => reg = Register!NoRegister

DataNext ==
  \/ /\ chosen = "time" /\ Next
     /\ UNCHANGED <<queueVars, mask, bitVars, treeVars, regVars, sharedVars>>
  \/ /\ chosen = "queues" /\ Sorted!Next
     /\ UNCHANGED <<vars, mask, bitVars, treeVars, regVars, sharedVars>>
  \/ /\ chosen = "mask" /\ Mask!Next
     /\ UNCHANGED <<vars, queueVars, bitVars, treeVars, regVars, sharedVars>>
  \/ /\ chosen = "bitmask" /\ Bitmask!Next
     /\ UNCHANGED <<vars, queueVars, mask, treeVars, regVars, sharedVars>>
  \/ /\ chosen = "tree" /\ Tree!Next
     /\ UNCHANGED <<vars, queueVars, mask, bitVars, regVars, sharedVars>>
  \/ /\ chosen = "lfsr" /\ Register!Next
     /\ UNCHANGED <<vars, queueVars, mask, bitVars, treeVars, sharedVars>>
  \/ /\ chosen = "shared" /\ Shared!Next
     /\ UNCHANGED <<vars, queueVars, mask, bitVars, treeVars, regVars>>

DataSpec ==
  DataInit /\ [][DataNext /\ UNCHANGED chosen]_<<chosen, vars, queueVars, mask, bitVars, treeVars,
                                                 regVars, sharedVars>>

-------------------------------------------------------------------------------
\* The properties of the instances, as they are stated and explained there.

\* Where a timer is and in what order is what the code believes of it; and ProtoQueues,
\* their items and their pools agree on where each container is.
QueuesAgree ==
  /\ chosen = "queues" => Sorted!KeysTell
  /\ chosen = "shared" => Shared!QueuesAgree
\* The timer queues implement TimerPool.
PoolKept == Sorted!PoolKept
\* A sliding mask is the set of indices it stands for, and the first bit of a bitmask is
\* kept right; searches in either find the nearest.
MasksKept ==
  /\ chosen = "mask" => Mask!WindowKept /\ Mask!SearchesRight
  /\ chosen = "bitmask" => Bitmask!FirstSetKept
\* A sorted tree is in order, and its search, its first positive item and its start right.
SortedKept == chosen = "tree" => Tree!SortedKept
\* A register yields the bits of one sequence forth and back, and the register found for
\* a sequence of bits yields it and is the shortest.
RegisterKept == chosen = "lfsr" => Register!SequenceKept /\ Register!PolynomialFound
\* An iterator over a sorted tree stays between the items it stands between.
CursorKept == Tree!CursorKept
================================================================================
