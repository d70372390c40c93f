---------------------------- MODULE MessageQueue ----------------------------
(***************************************************************************)
(* The message queue between a writer and a reader that may be slower,     *)
(* beside the messages that were put in and not read.                      *)
(***************************************************************************)
EXTENDS FifoQueue

CONSTANT Payloads

VARIABLES queue,
          pushed,   \* history: the messages pushed and not popped, while none was overwritten
          overrun   \* history: a message was overwritten

queueVars == <<queue, pushed, overrun>>

QueueInit == queue = EmptyFifo /\ pushed = <<>> /\ overrun = FALSE

Push(m) ==
  /\ queue.num <= kQueueSize + 1 /\ queue' = push(queue, m)
  /\ overrun' = (overrun \/ queue.num >= QUEUE_ITEMS)
  /\ pushed' = IF overrun' THEN <<>> ELSE Append(pushed, m)

PopOne ==
  /\ queue' = Popped(queue, 1)
  /\ pushed' = IF pushed = <<>> THEN <<>> ELSE Tail(pushed)
  /\ UNCHANGED overrun

QueueNext == PopOne \/ \E m \in Payloads : Push(m)

QueueSpec == QueueInit /\ [][QueueNext]_queueVars

\* Queue.cpp:14 to 49: messages come out once each and in order while no more than QUEUE_ITEMS
\* wait, across any wrap of head and tail; the overflow flag is no false alarm.
QueueInOrder ==
  /\ ~overrun => Messages(queue, queue.num) = pushed
  /\ queue.overFlow => overrun
=============================================================================
