----------------------------- MODULE FifoQueue -----------------------------
(***************************************************************************)
(* The message queue of the CAN library, as operators on its members: a    *)
(* ring of QUEUE_ITEMS messages of QUEUE_ITEM_SIZE bytes.  Its size        *)
(* kQueueSize is in bytes and its count in messages, and push() compares   *)
(* the one with the other.                                                 *)
(***************************************************************************)
EXTENDS Integers, Sequences

CONSTANTS QUEUE_ITEMS, QUEUE_ITEM_SIZE, Blank   \* Blank: a message of zeros

ASSUME FifoAssumption == QUEUE_ITEMS \in Nat \ {0} /\ QUEUE_ITEM_SIZE \in Nat \ {0}

kQueueSize == QUEUE_ITEMS * QUEUE_ITEM_SIZE

EmptyFifo == [items |-> [k \in 0 .. QUEUE_ITEMS - 1 |-> Blank],
              head |-> 0, tail |-> 0, num |-> 0, overFlow |-> FALSE]

\* push() never refuses: a message too many takes the place of the oldest.
\* Defect: the overflow is flagged when the last place is taken.
FaultyPush(q, message) ==
  [q EXCEPT !.items[q.tail] = message, !.tail = (@ + 1) % QUEUE_ITEMS,
            !.num = IF @ > kQueueSize THEN @ ELSE @ + 1,
            !.overFlow = @ \/ q.num + 1 >= QUEUE_ITEMS]
push(q, message) ==
  [q EXCEPT !.items[q.tail] = message, !.tail = (@ + 1) % QUEUE_ITEMS,
            !.num = IF @ > kQueueSize THEN @ ELSE @ + 1,
            !.overFlow = @ \/ q.num > kQueueSize]

\* n calls of pop(), those on an empty queue included.
Popped(q, n) ==
  LET k == IF n < q.num THEN n ELSE q.num
  IN  [q EXCEPT !.head = (@ + k) % QUEUE_ITEMS, !.num = @ - k, !.overFlow = @ /\ k = 0]

\* Defect: they are read from the tail.
FaultyMessages(q, n) ==
  [k \in 1 .. (IF n < q.num THEN n ELSE q.num) |-> q.items[(q.tail + k - 1) % QUEUE_ITEMS]]
\* The messages those calls return, in their order.
Messages(q, n) ==
  [k \in 1 .. (IF n < q.num THEN n ELSE q.num) |-> q.items[(q.head + k - 1) % QUEUE_ITEMS]]
=============================================================================
