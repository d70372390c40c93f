---------------------------- MODULE EventQueue -----------------------------
(***************************************************************************)
(* One queue of the event manager: a ring of kEventQueueSize events, as    *)
(* operators on the record that holds the members of the class.  What may  *)
(* run between two of them is the matter of module EventManager.           *)
(***************************************************************************)
EXTENDS Integers, Sequences

CONSTANT kEventQueueSize

ASSUME QueueSizeAssumption == kEventQueueSize \in Nat \ {0}

kEventNone == 200

Cells == 0 .. kEventQueueSize - 1

EmptyQueue == [events |-> [k \in Cells |-> [code |-> kEventNone, param |-> 0]],
               head |-> 0, tail |-> 0, num |-> 0]

isEmpty(q) == q.num = 0

isFull(q) == q.num = kEventQueueSize

\* queueEvent: from the test for room to the count one atomic block.
\* Defect: the tail wraps a cell early.
FaultyQueueEvent(q, e) ==
  IF isFull(q) THEN q
  ELSE [q EXCEPT !.events[q.tail] = e, !.num = @ + 1,
                 !.tail = (@ + 1) % (kEventQueueSize - 1)]
queueEvent(q, e) ==
  IF isFull(q) THEN q
  ELSE [q EXCEPT !.events[q.tail] = e, !.num = @ + 1,
                 !.tail = (@ + 1) % kEventQueueSize]

front(q) == q.events[q.head]

\* popEvent behind its test for events: only the code of the freed cell is cleared.
popEvent(q) == [q EXCEPT !.events[q.head].code = kEventNone, !.num = @ - 1,
                         !.head = (@ + 1) % kEventQueueSize]

Pending(q) == [k \in 1 .. q.num |-> q.events[(q.head + k - 1) % kEventQueueSize]]
=============================================================================
