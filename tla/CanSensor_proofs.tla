-------------------------- MODULE CanSensor_proofs --------------------------
(***************************************************************************)
(* The CanbusBasic node, for every set of frames, layout of its settings   *)
(* and size of its queues: what it shows and what it stores.  And the two  *)
(* libraries it is built with: the message queue, for every size, and the  *)
(* command handler, for every table of commands and length of buffer.      *)
(***************************************************************************)
EXTENDS CanSensor, MessageQueue, CommandHandler, FiniteSetTheorems, SequenceTheorems,
        WellFoundedInduction, TLAPS

LEMMA Remainder ==
  ASSUME NEW n \in Nat \ {0}, NEW x \in Int
  PROVE  /\ x % n \in 0 .. n - 1
         /\ x \in 0 .. n - 1 => x % n = x
         /\ x \in n .. 2 * n - 1 => x % n = x - n
OBVIOUS

----------------------------------------------------------------------------
(***************************************************************************)
(* The message queue.                                                      *)
(***************************************************************************)
Places == 0 .. QUEUE_ITEMS - 1

\* The place k after h.
PlaceAt(h, k) == (h + k) % QUEUE_ITEMS

Fifos == [items : [Places -> Payloads \union {Blank}], head : Places, tail : Places,
          num : Nat, overFlow : BOOLEAN]

QueueTypeOK == queue \in Fifos /\ overrun \in BOOLEAN

\* As long as nothing was overwritten the ring holds what was pushed, in its order.
RingHoldsPushed ==
  ~overrun => /\ queue.num <= QUEUE_ITEMS /\ queue.tail = PlaceAt(queue.head, queue.num)
              /\ pushed \in Seq(Payloads) /\ Len(pushed) = queue.num
              /\ \A k \in 1 .. queue.num : queue.items[PlaceAt(queue.head, k - 1)] = pushed[k]

QueueInv == /\ QueueTypeOK /\ RingHoldsPushed
            /\ overrun => pushed = <<>>
            /\ queue.overFlow => overrun

LEMMA PlaceFacts ==
  ASSUME NEW h \in Places
  PROVE  /\ QUEUE_ITEMS \in Nat \ {0}
         /\ PlaceAt(h, 0) = h
         /\ \A k \in 0 .. QUEUE_ITEMS : /\ PlaceAt(h, k) \in Places
                                        /\ PlaceAt(h, k) = IF h + k < QUEUE_ITEMS THEN h + k
                                                           ELSE h + k - QUEUE_ITEMS
<1>1. QUEUE_ITEMS \in Nat \ {0}
  BY FifoAssumption DEF FifoAssumption
<1>2. ASSUME NEW k \in 0 .. QUEUE_ITEMS
      PROVE  /\ PlaceAt(h, k) \in Places
             /\ PlaceAt(h, k) = IF h + k < QUEUE_ITEMS THEN h + k ELSE h + k - QUEUE_ITEMS
  <2>1. h + k \in Int /\ h + k \in 0 .. 2 * QUEUE_ITEMS - 1
    BY <1>1, <1>2 DEF Places
  <2>2. CASE h + k < QUEUE_ITEMS
    <3>1. h + k \in 0 .. QUEUE_ITEMS - 1
      BY <1>1, <2>1, <2>2
    <3>2. PlaceAt(h, k) = h + k
      BY <1>1, <2>1, <3>1, Remainder DEF PlaceAt
    <3>3. QED
      BY <2>2, <3>1, <3>2 DEF Places
  <2>3. CASE h + k >= QUEUE_ITEMS
    <3>1. h + k \in QUEUE_ITEMS .. 2 * QUEUE_ITEMS - 1 /\ h + k - QUEUE_ITEMS \in 0 .. QUEUE_ITEMS - 1
      BY <1>1, <1>2, <2>1, <2>3 DEF Places
    <3>2. PlaceAt(h, k) = (h + k) - QUEUE_ITEMS
      BY <1>1, <2>1, <3>1, Remainder DEF PlaceAt
    <3>3. QED
      BY <1>1, <2>1, <2>3, <3>1, <3>2 DEF Places
  <2>4. QED
    BY <1>1, <2>1, <2>2, <2>3
<1>3. 0 \in 0 .. QUEUE_ITEMS /\ h + 0 < QUEUE_ITEMS /\ h + 0 = h
  BY <1>1 DEF Places
<1>4. QED
  BY <1>1, <1>2, <1>3

\* Steps along the ring add up, and lead to a place again only after a turn.
LEMMA PlaceSteps ==
  ASSUME NEW h \in Places
  PROVE  /\ \A k \in 0 .. QUEUE_ITEMS - 1 : /\ PlaceAt(PlaceAt(h, 1), k) = PlaceAt(h, k + 1)
                                            /\ PlaceAt(PlaceAt(h, k), 1) = PlaceAt(h, k + 1)
         /\ \A j, k \in 0 .. QUEUE_ITEMS - 1 : PlaceAt(h, j) = PlaceAt(h, k) => j = k
<1>1. /\ QUEUE_ITEMS \in Nat \ {0} /\ h \in 0 .. QUEUE_ITEMS - 1 /\ 1 \in 0 .. QUEUE_ITEMS
      /\ \A k \in 0 .. QUEUE_ITEMS - 1 : k \in 0 .. QUEUE_ITEMS /\ k + 1 \in 0 .. QUEUE_ITEMS
  BY PlaceFacts DEF Places
<1>2. \A j, k \in 0 .. QUEUE_ITEMS - 1 : PlaceAt(h, j) = PlaceAt(h, k) => j = k
  BY <1>1, PlaceFacts
<1>3. ASSUME NEW k \in 0 .. QUEUE_ITEMS - 1
      PROVE  PlaceAt(PlaceAt(h, 1), k) = PlaceAt(h, k + 1) /\ PlaceAt(PlaceAt(h, k), 1) = PlaceAt(h, k + 1)
  <2>1. /\ PlaceAt(h, 1) \in Places /\ PlaceAt(h, k) \in Places
        /\ PlaceAt(h, 1) = IF h + 1 < QUEUE_ITEMS THEN h + 1 ELSE h + 1 - QUEUE_ITEMS
        /\ PlaceAt(h, k) = IF h + k < QUEUE_ITEMS THEN h + k ELSE h + k - QUEUE_ITEMS
        /\ PlaceAt(h, k + 1) = IF h + (k + 1) < QUEUE_ITEMS THEN h + (k + 1)
                               ELSE h + (k + 1) - QUEUE_ITEMS
    BY <1>1, PlaceFacts
  <2>2. /\ PlaceAt(PlaceAt(h, 1), k) = IF PlaceAt(h, 1) + k < QUEUE_ITEMS THEN PlaceAt(h, 1) + k
                                       ELSE PlaceAt(h, 1) + k - QUEUE_ITEMS
        /\ PlaceAt(PlaceAt(h, k), 1) = IF PlaceAt(h, k) + 1 < QUEUE_ITEMS THEN PlaceAt(h, k) + 1
                                       ELSE PlaceAt(h, k) + 1 - QUEUE_ITEMS
    BY <1>1, <2>1, PlaceFacts
  <2>3. QED
    BY <1>1, <2>1, <2>2
<1>4. QED
  BY <1>2, <1>3

LEMMA SizeInBytes == kQueueSize \in Nat /\ kQueueSize >= QUEUE_ITEMS
<1>1. \A n \in Nat, m \in Nat \ {0} : n * m \in Nat /\ n * m >= n
  <2> TAKE n \in Nat, m \in Nat \ {0}
  <2>1. n * m = n * (m - 1) + n /\ m - 1 \in Nat
    OBVIOUS
  <2>2. \A i, j \in Nat : i * j \in Nat
    OBVIOUS
  <2>3. n * (m - 1) \in Nat
    BY <2>1, <2>2
  <2>4. QED
    BY <2>1, <2>3
<1>2. QED
  BY <1>1, FifoAssumption DEF FifoAssumption, kQueueSize

LEMMA QueueInvInit == QueueInit => QueueInv
<1> SUFFICES ASSUME QueueInit PROVE QueueInv
  OBVIOUS
<1>1. /\ queue = EmptyFifo /\ pushed = <<>> /\ overrun = FALSE
      /\ QUEUE_ITEMS \in Nat \ {0} /\ 0 \in Places
  BY FifoAssumption DEF QueueInit, FifoAssumption, Places
<1>2. QueueTypeOK
  BY <1>1 DEF QueueTypeOK, Fifos, EmptyFifo, Places
<1>3. queue.num = 0 /\ queue.head = 0 /\ queue.tail = 0 /\ ~queue.overFlow
  BY <1>1 DEF EmptyFifo
<1>4. RingHoldsPushed
  <2>1. PlaceAt(0, 0) = 0
    BY <1>1, PlaceFacts
  <2>2. QED
    BY <1>1, <1>3, <2>1 DEF RingHoldsPushed
<1>5. QED
  BY <1>1, <1>2, <1>3, <1>4 DEF QueueInv

\* What push() makes of each member.
LEMMA PushFields ==
  ASSUME QueueTypeOK, NEW m \in Payloads
  PROVE  /\ push(queue, m) \in Fifos
         /\ push(queue, m).items = [queue.items EXCEPT ![queue.tail] = m]
         /\ push(queue, m).head = queue.head
         /\ push(queue, m).tail = PlaceAt(queue.tail, 1)
         /\ push(queue, m).num = IF queue.num > kQueueSize THEN queue.num ELSE queue.num + 1
         /\ push(queue, m).overFlow <=> queue.overFlow \/ queue.num > kQueueSize
<1> DEFINE i == [queue.items EXCEPT ![queue.tail] = m]
           t == (queue.tail + 1) % QUEUE_ITEMS
           n == IF queue.num > kQueueSize THEN queue.num ELSE queue.num + 1
           o == queue.overFlow \/ queue.num > kQueueSize
<1>1. push(queue, m) = [queue EXCEPT !.items = i, !.tail = t, !.num = n, !.overFlow = o]
  BY Zenon DEF QueueTypeOK, Fifos, push
<1>2. i \in [Places -> Payloads \union {Blank}] /\ n \in Nat /\ o \in BOOLEAN
  BY DEF QueueTypeOK, Fifos
<1>3. t = PlaceAt(queue.tail, 1) /\ t \in Places
  <2>1. queue.tail \in Places /\ 1 \in 0 .. QUEUE_ITEMS
    BY FifoAssumption DEF QueueTypeOK, Fifos, FifoAssumption
  <2>2. QED
    BY <2>1, PlaceFacts DEF PlaceAt
<1> HIDE DEF i, t, n, o
<1>4. /\ push(queue, m) \in Fifos /\ push(queue, m).items = i /\ push(queue, m).head = queue.head
      /\ push(queue, m).tail = t /\ push(queue, m).num = n /\ push(queue, m).overFlow = o
  <2>1. queue \in Fifos
    BY DEF QueueTypeOK
  <2>2. QED
    BY <1>1, <1>2, <1>3, <2>1 DEF Fifos
<1>5. QED
  BY <1>3, <1>4 DEF i, n, o

LEMMA PushKeepsInv ==
  ASSUME QueueInv, NEW m \in Payloads, Push(m)
  PROVE  QueueInv'
<1>1. /\ queue' = push(queue, m) /\ overrun' \in BOOLEAN /\ (overrun' <=> overrun \/ queue.num >= QUEUE_ITEMS)
      /\ pushed' = IF overrun' THEN <<>> ELSE Append(pushed, m)
      /\ QueueTypeOK /\ RingHoldsPushed /\ (overrun => pushed = <<>>)
      /\ (queue.overFlow => overrun) /\ QUEUE_ITEMS \in Nat \ {0}
  BY FifoAssumption DEF Push, QueueInv, FifoAssumption
<1>2. /\ queue' \in Fifos
      /\ queue'.items = [queue.items EXCEPT ![queue.tail] = m] /\ queue'.head = queue.head
      /\ queue'.tail = PlaceAt(queue.tail, 1)
      /\ queue'.num = IF queue.num > kQueueSize THEN queue.num ELSE queue.num + 1
      /\ queue'.overFlow <=> queue.overFlow \/ queue.num > kQueueSize
  BY <1>1, PushFields
<1>3. QueueTypeOK'
  BY <1>1, <1>2 DEF QueueTypeOK
<1>4. queue'.overFlow => overrun'
  BY <1>1, <1>2, SizeInBytes DEF QueueTypeOK, Fifos
<1>5. RingHoldsPushed'
  <2> SUFFICES ASSUME ~overrun' PROVE RingHoldsPushed'
    BY DEF RingHoldsPushed
  <2>1. /\ ~overrun /\ queue.num \in 0 .. QUEUE_ITEMS - 1 /\ queue'.num = queue.num + 1
        /\ queue.num \in 0 .. QUEUE_ITEMS
    <3>1. ~overrun /\ queue.num < QUEUE_ITEMS
      BY <1>1 DEF QueueTypeOK, Fifos
    <3>2. queue.num \in Nat /\ ~(queue.num > kQueueSize)
      BY <1>1, <3>1, SizeInBytes DEF QueueTypeOK, Fifos
    <3>3. QED
      BY <1>1, <1>2, <3>1, <3>2
  <2>2. /\ queue.tail = PlaceAt(queue.head, queue.num) /\ pushed \in Seq(Payloads)
        /\ Len(pushed) = queue.num /\ queue.head \in Places /\ queue.tail \in Places
        /\ \A k \in 1 .. queue.num : queue.items[PlaceAt(queue.head, k - 1)] = pushed[k]
    BY <1>1, <2>1 DEF RingHoldsPushed, QueueTypeOK, Fifos
  <2>3. queue'.tail = PlaceAt(queue'.head, queue'.num)
    BY <1>2, <2>1, <2>2, PlaceSteps
  <2>4. /\ pushed' \in Seq(Payloads) /\ Len(pushed') = queue'.num
        /\ \A k \in 1 .. queue.num : pushed'[k] = pushed[k]
        /\ pushed'[queue.num + 1] = m
    BY <1>1, <2>1, <2>2, AppendProperties
  <2>5. ASSUME NEW k \in 1 .. queue'.num
        PROVE  queue'.items[PlaceAt(queue'.head, k - 1)] = pushed'[k]
    <3>1. k - 1 \in 0 .. QUEUE_ITEMS - 1 /\ k - 1 \in 0 .. QUEUE_ITEMS
      BY <1>1, <2>1, <2>5
    <3>2. PlaceAt(queue.head, k - 1) \in Places /\ DOMAIN queue.items = Places
      BY <1>1, <2>2, <3>1, PlaceFacts DEF QueueTypeOK, Fifos
    <3>3. CASE k = queue.num + 1
      <4>1. PlaceAt(queue.head, k - 1) = queue.tail
        BY <2>1, <2>2, <3>3
      <4>2. QED
        BY <1>2, <2>4, <3>2, <3>3, <4>1
    <3>4. CASE k \in 1 .. queue.num
      <4>1. PlaceAt(queue.head, k - 1) # queue.tail
        BY <2>1, <2>2, <3>1, <3>4, PlaceSteps
      <4>2. QED
        BY <1>2, <2>2, <2>4, <3>2, <3>4, <4>1
    <3>5. QED
      BY <2>1, <2>5, <3>3, <3>4
  <2>6. queue'.num <= QUEUE_ITEMS
    BY <1>1, <2>1
  <2>7. QED
    BY <2>3, <2>4, <2>5, <2>6 DEF RingHoldsPushed
<1>6. overrun' => pushed' = <<>>
  BY <1>1
<1>7. QED
  BY <1>3, <1>4, <1>5, <1>6 DEF QueueInv

\* What one call of pop() makes of each member.
LEMMA PoppedFields ==
  ASSUME QueueTypeOK
  PROVE  /\ Popped(queue, 1) \in Fifos
         /\ Popped(queue, 1).items = queue.items /\ Popped(queue, 1).tail = queue.tail
         /\ Popped(queue, 1).overFlow => queue.overFlow
         /\ queue.num = 0 => Popped(queue, 1).num = 0 /\ Popped(queue, 1).head = queue.head
         /\ queue.num > 0 => /\ Popped(queue, 1).num = queue.num - 1
                             /\ Popped(queue, 1).head = PlaceAt(queue.head, 1)
<1> DEFINE k == IF 1 < queue.num THEN 1 ELSE queue.num
           h == (queue.head + k) % QUEUE_ITEMS
           n == queue.num - k
           o == queue.overFlow /\ k = 0
<1>1. Popped(queue, 1) = [queue EXCEPT !.head = h, !.num = n, !.overFlow = o]
  BY Zenon DEF QueueTypeOK, Fifos, Popped
<1>2. /\ queue \in Fifos /\ queue.num \in Nat /\ queue.head \in Places
      /\ k = IF queue.num = 0 THEN 0 ELSE 1
  BY DEF QueueTypeOK, Fifos
<1>3. n \in Nat /\ o \in BOOLEAN /\ (queue.num = 0 => n = 0) /\ (queue.num > 0 => n = queue.num - 1)
  BY <1>2 DEF Fifos
<1>4. /\ h \in Places /\ (queue.num = 0 => h = queue.head)
      /\ queue.num > 0 => h = PlaceAt(queue.head, 1)
  <2>1. k \in 0 .. QUEUE_ITEMS /\ h = PlaceAt(queue.head, k)
    BY <1>2, FifoAssumption DEF FifoAssumption, PlaceAt
  <2> HIDE DEF h, k
  <2>2. QED
    BY <1>2, <2>1, PlaceFacts
<1>5. o => queue.overFlow
  OBVIOUS
<1> HIDE DEF k, h, n, o
<1>6. /\ Popped(queue, 1) \in Fifos /\ Popped(queue, 1).items = queue.items
      /\ Popped(queue, 1).head = h /\ Popped(queue, 1).tail = queue.tail
      /\ Popped(queue, 1).num = n /\ Popped(queue, 1).overFlow = o
  BY <1>1, <1>2, <1>3, <1>4 DEF Fifos
<1>7. QED
  BY <1>3, <1>4, <1>5, <1>6

LEMMA PopKeepsInv ==
  ASSUME QueueInv, PopOne
  PROVE  QueueInv'
<1>1. /\ queue' = Popped(queue, 1) /\ overrun' = overrun
      /\ pushed' = IF pushed = <<>> THEN <<>> ELSE Tail(pushed)
      /\ QueueTypeOK /\ RingHoldsPushed /\ (overrun => pushed = <<>>)
      /\ (queue.overFlow => overrun) /\ QUEUE_ITEMS \in Nat \ {0}
  BY FifoAssumption DEF PopOne, QueueInv, FifoAssumption
<1>2. /\ queue' \in Fifos /\ queue'.items = queue.items /\ queue'.tail = queue.tail
      /\ (queue'.overFlow => queue.overFlow)
      /\ queue.num = 0 => queue'.num = 0 /\ queue'.head = queue.head
      /\ queue.num > 0 => queue'.num = queue.num - 1 /\ queue'.head = PlaceAt(queue.head, 1)
  BY <1>1, PoppedFields
<1>3. QueueTypeOK'
  BY <1>1, <1>2 DEF QueueTypeOK
<1>4. RingHoldsPushed'
  <2> SUFFICES ASSUME ~overrun' PROVE RingHoldsPushed'
    BY DEF RingHoldsPushed
  <2>1. /\ queue.num \in 0 .. QUEUE_ITEMS /\ queue.tail = PlaceAt(queue.head, queue.num)
        /\ pushed \in Seq(Payloads) /\ Len(pushed) = queue.num /\ queue.head \in Places
        /\ \A k \in 1 .. queue.num : queue.items[PlaceAt(queue.head, k - 1)] = pushed[k]
    BY <1>1 DEF RingHoldsPushed, QueueTypeOK, Fifos
  <2>2. CASE queue.num = 0
    <3>1. pushed = <<>>
      BY <2>1, <2>2
    <3>2. QED
      BY <1>1, <1>2, <2>1, <2>2, <3>1 DEF RingHoldsPushed
  <2>3. CASE queue.num > 0
    <3>1. /\ pushed # <<>> /\ pushed' = Tail(pushed) /\ queue'.num = queue.num - 1
          /\ queue'.head = PlaceAt(queue.head, 1)
      BY <1>1, <1>2, <2>1, <2>3
    <3>2. /\ pushed' \in Seq(Payloads) /\ Len(pushed') = queue'.num
          /\ \A k \in 1 .. queue'.num : pushed'[k] = pushed[k + 1]
      BY <2>1, <3>1, HeadTailProperties
    <3>3. queue'.tail = PlaceAt(queue'.head, queue'.num)
      <4>1. queue.num - 1 \in 0 .. QUEUE_ITEMS - 1 /\ (queue.num - 1) + 1 = queue.num
        BY <1>1, <2>1, <2>3
      <4>2. QED
        BY <1>2, <2>1, <3>1, <4>1, PlaceSteps
    <3>4. ASSUME NEW k \in 1 .. queue'.num
          PROVE  queue'.items[PlaceAt(queue'.head, k - 1)] = pushed'[k]
      <4>1. /\ k - 1 \in 0 .. QUEUE_ITEMS - 1 /\ (k - 1) + 1 = k /\ k + 1 \in 1 .. queue.num
            /\ (k + 1) - 1 = k
        BY <1>1, <2>1, <2>3, <3>1, <3>4
      <4>2. PlaceAt(queue'.head, k - 1) = PlaceAt(queue.head, k)
        BY <2>1, <3>1, <4>1, PlaceSteps
      <4>3. queue.items[PlaceAt(queue.head, k)] = pushed[k + 1]
        BY <2>1, <4>1
      <4>4. QED
        BY <1>2, <3>2, <4>2, <4>3
    <3>5. queue'.num <= QUEUE_ITEMS
      BY <1>1, <2>1, <3>1
    <3>6. QED
      BY <3>2, <3>3, <3>4, <3>5 DEF RingHoldsPushed
  <2>4. QED
    BY <2>1, <2>2, <2>3
<1>5. (overrun' => pushed' = <<>>) /\ (queue'.overFlow => overrun')
  BY <1>1, <1>2
<1>6. QED
  BY <1>3, <1>4, <1>5 DEF QueueInv

LEMMA QueueInvSays == QueueInv => QueueInOrder
<1> SUFFICES ASSUME QueueInv PROVE QueueInOrder
  OBVIOUS
<1>1. queue.overFlow => overrun
  BY DEF QueueInv
<1>2. ASSUME ~overrun PROVE Messages(queue, queue.num) = pushed
  <2>1. /\ queue.num \in Nat /\ queue.head \in Places /\ pushed \in Seq(Payloads) /\ Len(pushed) = queue.num
        /\ \A k \in 1 .. queue.num : queue.items[PlaceAt(queue.head, k - 1)] = pushed[k]
    BY <1>2 DEF QueueInv, QueueTypeOK, Fifos, RingHoldsPushed
  <2>2. \A k \in 1 .. queue.num : queue.head + k - 1 = queue.head + (k - 1)
    BY <2>1, FifoAssumption DEF Places, FifoAssumption
  <2>3. Messages(queue, queue.num) = [k \in 1 .. queue.num |-> queue.items[PlaceAt(queue.head, k - 1)]]
    BY <2>1, <2>2 DEF Messages, PlaceAt
  <2>4. Messages(queue, queue.num) = [k \in 1 .. queue.num |-> pushed[k]]
    BY <2>1, <2>3
  <2>5. pushed = [k \in 1 .. queue.num |-> pushed[k]]
    BY <2>1
  <2>6. QED
    BY <2>4, <2>5
<1>3. QED
  BY <1>1, <1>2 DEF QueueInOrder

\* Queue.cpp:14: whatever the size of the ring, the writer and the reader, and wherever head
\* and tail have wrapped, messages come out once each and in order until one was overwritten.
THEOREM MessagesKeepOrder == QueueSpec => []QueueInOrder
<1>1. QueueInit => QueueInv
  BY QueueInvInit
<1>2. QueueInv /\ [QueueNext]_queueVars => QueueInv'
  <2> SUFFICES ASSUME QueueInv, [QueueNext]_queueVars PROVE QueueInv'
    OBVIOUS
  <2>1. CASE PopOne
    BY <2>1, PopKeepsInv
  <2>2. ASSUME NEW m \in Payloads, Push(m) PROVE QueueInv'
    BY <2>2, PushKeepsInv
  <2>3. CASE UNCHANGED queueVars
    BY <2>3 DEF queueVars, QueueInv, QueueTypeOK, RingHoldsPushed
  <2>4. QED
    BY <2>1, <2>2, <2>3 DEF QueueNext
<1>3. QED
  BY <1>1, <1>2, QueueInvSays, PTL DEF QueueSpec

----------------------------------------------------------------------------
(***************************************************************************)
(* The command handler.                                                    *)
(***************************************************************************)
\* A set of numbers that is not empty has a least one: of the intervals that end in the set
\* one holds no other.
LEMMA LeastNumber ==
  ASSUME NEW T \in SUBSET Nat, T # {}
  PROVE  \E x \in T : \A y \in T : x <= y
<1> DEFINE U == {0 .. n : n \in T}
<1>1. IsWellFoundedOn(StrictSubsetOrdering(Nat), FiniteSubsetsOf(Nat))
  BY FS_StrictSubsetOrderingWellFounded
<1>2. U \subseteq FiniteSubsetsOf(Nat)
  <2>1. ASSUME NEW n \in T PROVE 0 .. n \in FiniteSubsetsOf(Nat)
    <3>1. IsFiniteSet(0 .. n)
      BY FS_Interval
    <3>2. 0 .. n \subseteq Nat
      OBVIOUS
    <3>3. QED
      BY <3>1, <3>2 DEF FiniteSubsetsOf
  <2>2. QED
    BY <2>1
<1>3. U # {}
  OBVIOUS
<1>4. \E x \in U : \A y \in U : ~ (<<y, x>> \in StrictSubsetOrdering(Nat))
  <2> HIDE DEF U
  <2> QED
    BY <1>1, <1>2, <1>3, WFMin
<1>5. PICK n \in T : \A m \in T : ~ (<<0 .. m, 0 .. n>> \in StrictSubsetOrdering(Nat))
  BY <1>4
<1>6. ASSUME NEW m \in T, m < n
      PROVE  FALSE
  <2>1. 0 .. m \in SUBSET (0 .. n)
    BY <1>6
  <2>2. 0 .. m # 0 .. n
    <3>1. n \in 0 .. n /\ n \notin 0 .. m
      BY <1>6
    <3>2. QED
      BY <3>1
  <2>3. 0 .. m \in SUBSET Nat /\ 0 .. n \in SUBSET Nat
    OBVIOUS
  <2>4. <<0 .. m, 0 .. n>> \in StrictSubsetOrdering(Nat)
    BY <2>1, <2>2, <2>3 DEF StrictSubsetOrdering
  <2>5. QED
    BY <1>5, <2>4
<1>7. QED
  BY <1>6

LEMMA MinIsLeast ==
  ASSUME NEW T \in SUBSET Nat, T # {}
  PROVE  Min(T) \in T /\ \A y \in T : Min(T) <= y
<1>1. \E x \in T : \A y \in T : x <= y
  BY LeastNumber
<1>2. QED
  BY <1>1, Zenon DEF Min

Option == [command : Seq(Chars), partialMatch : BOOLEAN, accepts : SUBSET Seq(Chars)]

\* While the buffer has room it holds the line; after that only the count goes on.
CommandInv ==
  /\ line \in Seq(Chars) /\ ptr = Len(line)
  /\ Len(line) < bufferLength => buffer = line

\* The option is the line, or begins it and takes the rest: as Meant has it.
Fits(k, text) ==
  \E n \in 0 .. Len(text) :
    /\ SubSeq(text, 1, n) = options[k].command
    /\ IF options[k].partialMatch THEN SubSeq(text, n + 1, Len(text)) \in options[k].accepts
       ELSE n = Len(text)

\* The way process() looks for an option comes to the same.
LEMMA FindsIsFits ==
  ASSUME NEW text \in Seq(Chars), NEW k \in DOMAIN options
  PROVE  Finds(k, text) <=> Fits(k, text)
<1> DEFINE c == options[k].command
<1>1. options[k] \in Option
  <2>1. options \in Seq(Option)
    BY CommandAssumption DEF CommandAssumption, Option
  <2>2. QED
    BY <2>1
<1>2. c \in Seq(Chars) /\ Len(c) \in Nat /\ Len(text) \in Nat /\ options[k].partialMatch \in BOOLEAN
  BY <1>1 DEF Option
<1> HIDE DEF c
<1>3. SubSeq(c, 1, Len(c)) = c /\ SubSeq(text, 1, Len(text)) = text
  BY <1>2, SubSeqFull
<1>4. \A n \in 0 .. Len(text) : Len(SubSeq(text, 1, n)) = n
  <2> TAKE n \in 0 .. Len(text)
  <2>1. \A i \in 1 .. n : text[i] \in Chars
    BY <1>2, ElementOfSeq
  <2>2. Len(SubSeq(text, 1, n)) = IF 1 <= n THEN n - 1 + 1 ELSE 0
    BY <1>2, <2>1, SubSeqProperties
  <2>3. QED
    BY <1>2, <2>2
<1>5. startsWith(c, text) <=> Len(c) <= Len(text) /\ SubSeq(text, 1, Len(c)) = c
  BY <1>3 DEF startsWith, IsPrefix
<1>6. Finds(k, text) <=> /\ startsWith(c, text) /\ (options[k].partialMatch \/ c = text)
                         /\ options[k].partialMatch =>
                              SubSeq(text, Len(c) + 1, Len(text)) \in options[k].accepts
  BY DEF Finds, Matches, RestOf, c
<1>7. ASSUME Finds(k, text) PROVE Fits(k, text)
  <2>1. Len(c) \in 0 .. Len(text) /\ SubSeq(text, 1, Len(c)) = c
    BY <1>2, <1>5, <1>6, <1>7
  <2>2. CASE options[k].partialMatch
    BY <1>6, <1>7, <2>1, <2>2 DEF Fits, c
  <2>3. CASE ~options[k].partialMatch
    <3>1. Len(c) = Len(text)
      BY <1>6, <1>7, <2>3
    <3>2. QED
      BY <2>1, <2>3, <3>1 DEF Fits, c
  <2>4. QED
    BY <2>2, <2>3
<1>8. ASSUME Fits(k, text) PROVE Finds(k, text)
  <2>1. PICK n \in 0 .. Len(text) :
          /\ SubSeq(text, 1, n) = c
          /\ IF options[k].partialMatch THEN SubSeq(text, n + 1, Len(text)) \in options[k].accepts
             ELSE n = Len(text)
    BY <1>8 DEF Fits, c
  <2>2. n = Len(c)
    BY <1>4, <2>1
  <2>3. startsWith(c, text)
    BY <1>2, <1>5, <2>1, <2>2
  <2>4. ~options[k].partialMatch => c = text
    BY <1>3, <2>1, <2>2
  <2>5. QED
    BY <1>6, <2>1, <2>2, <2>3, <2>4
<1>9. QED
  BY <1>7, <1>8

\* The option found first is the least that fits.
LEMMA FirstFoundIsMeant ==
  ASSUME NEW text \in Seq(Chars), text # <<>>, Len(text) < bufferLength
  PROVE  Meant(text) = <<FirstFound(text).kind,
                         IF FirstFound(text).kind = "option" THEN FirstFound(text).option ELSE 0>>
<1> DEFINE fit == {k \in DOMAIN options : Fits(k, text)}
<1>1. DOMAIN options = 1 .. Len(options) /\ Len(options) \in Nat /\ Len(text) \in Nat /\ bufferLength \in Nat
  BY CommandAssumption DEF CommandAssumption
<1>2. \A k \in DOMAIN options : Finds(k, text) <=> k \in fit
  BY FindsIsFits
<1>3. Meant(text) = IF fit = {} THEN <<"unknown", 0>> ELSE <<"option", Min(fit)>>
  <2>1. ~(Len(text) >= bufferLength)
    BY <1>1
  <2>2. QED
    BY <2>1 DEF Meant, Fits
<1>4. CASE fit = {}
  <2>1. FirstFound(text) = Unknown(text)
    BY <1>2, <1>4 DEF FirstFound
  <2>2. QED
    BY <1>3, <1>4, <2>1 DEF Unknown
<1>5. CASE fit # {}
  <2>1. fit \in SUBSET Nat
    BY <1>1
  <2> HIDE DEF fit
  <2>2. Min(fit) \in fit /\ \A k \in fit : Min(fit) <= k
    BY <1>5, <2>1, MinIsLeast
  <2>3. \A k \in fit : k \in DOMAIN options /\ k \in 1 .. Len(options)
    BY <1>1 DEF fit
  <2>4. \A j \in DOMAIN options :
          (Finds(j, text) /\ \A i \in 1 .. j - 1 : ~Finds(i, text)) <=> j = Min(fit)
    <3> TAKE j \in DOMAIN options
    <3>1. ASSUME Finds(j, text), \A i \in 1 .. j - 1 : ~Finds(i, text) PROVE j = Min(fit)
      <4>1. j \in fit /\ Min(fit) <= j
        BY <1>2, <2>2, <3>1
      <4>2. Finds(Min(fit), text)
        BY <1>2, <2>2, <2>3
      <4>3. ~(Min(fit) < j)
        BY <2>2, <2>3, <3>1, <4>1, <4>2
      <4>4. QED
        BY <2>2, <2>3, <4>1, <4>3
    <3>2. ASSUME j = Min(fit) PROVE Finds(j, text) /\ \A i \in 1 .. j - 1 : ~Finds(i, text)
      <4>1. Finds(j, text)
        BY <1>2, <2>2, <3>2
      <4>2. ASSUME NEW i \in 1 .. j - 1 PROVE ~Finds(i, text)
        BY <1>1, <1>2, <2>2, <2>3, <3>2
      <4>3. QED
        BY <4>1, <4>2
    <3>3. QED
      BY <3>1, <3>2
  <2>5. \E k \in DOMAIN options : Finds(k, text)
    BY <1>2, <2>2, <2>3
  <2>6. FirstFound(text) = Runs(Min(fit), RestOf(Min(fit), text))
    <3>1. (CHOOSE j \in DOMAIN options : Finds(j, text) /\ \A i \in 1 .. j - 1 : ~Finds(i, text)) = Min(fit)
      BY <2>2, <2>3, <2>4
    <3>2. QED
      BY <2>5, <3>1 DEF FirstFound
  <2>7. QED
    BY <1>3, <1>5, <2>6 DEF Runs
<1>6. QED
  BY <1>4, <1>5

LEMMA CommandStep ==
  ASSUME CommandInv, [CommandNext]_commandVars
  PROVE  CommandInv'
<1>1. line \in Seq(Chars) /\ ptr = Len(line) /\ bufferLength \in Nat \ {0}
  BY CommandAssumption DEF CommandInv, CommandAssumption
<1>2. ASSUME NEW c \in Chars, Gather(c) PROVE CommandInv'
  <2>1. line' = Append(line, c) /\ ptr' = ptr + 1
        /\ buffer' = IF ptr < bufferLength - 1 THEN Append(buffer, c) ELSE buffer
    BY <1>2 DEF Gather
  <2>2. line' \in Seq(Chars) /\ Len(line') = Len(line) + 1 /\ Len(line) \in Nat
    BY <1>1, <1>2, <2>1, AppendProperties
  <2>3. ASSUME Len(line') < bufferLength PROVE buffer' = line'
    <3>1. ptr < bufferLength - 1 /\ Len(line) < bufferLength
      BY <1>1, <2>2, <2>3
    <3>2. QED
      BY <2>1, <3>1 DEF CommandInv
  <2>4. QED
    BY <1>1, <2>1, <2>2, <2>3 DEF CommandInv
<1>3. ASSUME NEW c, Finish(c) PROVE CommandInv'
  BY <1>3 DEF Finish, CommandInv
<1>4. CASE UNCHANGED commandVars
  BY <1>4 DEF commandVars, CommandInv
<1>5. QED
  BY <1>2, <1>3, <1>4 DEF CommandNext, process

\* CommandHandler.cpp:43: for every table of commands, every length of the buffer and every
\* line, what runs is the first option that the whole line means, or nothing.
THEOREM LinesRunWhatTheyMean == CommandSpec => LineRunsWhatItMeans
<1> DEFINE Meaning == line # <<>> /\ line' = <<>> =>
             Meant(line) = <<outcome'.kind, IF outcome'.kind = "option" THEN outcome'.option ELSE 0>>
<1>1. CommandInit => CommandInv
  BY CommandAssumption DEF CommandInit, CommandInv, CommandAssumption
<1>2. CommandInv /\ [CommandNext]_commandVars => CommandInv'
  BY CommandStep
<1>3. CommandInv /\ [CommandNext]_commandVars => [Meaning]_commandVars
  <2> SUFFICES ASSUME CommandInv, CommandNext, line # <<>>, line' = <<>> PROVE Meaning
    OBVIOUS
  <2>1. line \in Seq(Chars) /\ ptr = Len(line) /\ Len(line) \in Nat /\ bufferLength \in Nat /\ Len(line) # 0
    BY CommandAssumption DEF CommandInv, CommandAssumption
  <2>2. ASSUME NEW c \in Chars, Gather(c) PROVE Meaning
    <3>1. line' = Append(line, c) /\ line' # <<>>
      BY <2>1, <2>2, AppendProperties DEF Gather
    <3>2. QED
      BY <3>1
  <2>3. ASSUME NEW c, Finish(c) PROVE Meaning
    <3>1. CASE ptr >= bufferLength
      <4>1. outcome' = TooLong
        BY <2>3, <3>1 DEF Finish
      <4>2. Meant(line) = <<"tooLong", 0>>
        BY <2>1, <3>1 DEF Meant
      <4>3. QED
        BY <4>1, <4>2 DEF TooLong
    <3>2. CASE ~(ptr >= bufferLength)
      <4>1. Len(line) < bufferLength /\ buffer = line
        BY <2>1, <3>2 DEF CommandInv
      <4>2. outcome' = FirstFound(line)
        BY <2>1, <2>3, <3>2, <4>1 DEF Finish
      <4>3. QED
        BY <2>1, <4>1, <4>2, FirstFoundIsMeant
    <3>3. QED
      BY <3>1, <3>2
  <2>4. QED
    BY <2>2, <2>3 DEF CommandNext, process
<1>4. QED
  BY <1>1, <1>2, <1>3, PTL DEF CommandSpec, LineRunsWhatItMeans

----------------------------------------------------------------------------
(***************************************************************************)
(* The node: events and the altitude.  A frame leads to one message and    *)
(* one event at most, and both are gone before the next frame is taken, so *)
(* neither queue ever holds a second one.                                  *)
(***************************************************************************)
Signal == [code : Int, param : Nat]

\* An event queue with room for what the node puts in.
RingOf == {q \in [events : [Cells -> Signal], head : Cells, tail : Cells, num : {0, 1}] :
             q.tail = (q.head + q.num) % kEventQueueSize}

Letters == {f.data : f \in Bus} \union {Blank}

BoxOf == {q \in [items : [Places -> Letters], head : Places, tail : Places, num : {0, 1},
                 overFlow : BOOLEAN] : q.tail = PlaceAt(q.head, q.num) /\ ~q.overFlow}

Steps == {"begin", "handle", "handling", "raise", "put", "output"}

NodeCalls == [pc : {"app", "test", "pop", "send", "callback"}, all : BOOLEAN, pri : Priorities,
              at : Nat, handled : BOOLEAN, event : Signal]

NodeTypeOK ==
  /\ queues \in [Priorities -> RingOf] /\ queues["high"].num = 0
  /\ fifo \in BoxOf /\ chip \in Seq(Bus) /\ call \in NodeCalls /\ step \in Steps
  /\ mListeners = IF step = "begin" THEN <<>> ELSE Listeners

\* The altitude a pair of bytes shows in the order the receiver takes them.
Shown(n) == ToInt(n \div 256, n % 256)

\* Every message has been read.
Quiet == fifo.num = 0 /\ altimeter = Shown(newest)

Asks(m, before) == IF IsAltitude(m) THEN ToInt(m[3], m[4]) ELSE before

\* One message waits, and reading it will show the altitude of the newest.
Loaded == fifo.num = 1 /\ Asks(fifo.items[fifo.head], altimeter) = Shown(newest)

Arrival == Event(DataReceived, 1)

\* The message that waits has its event in the queue ...
Announced == Loaded /\ queues["low"].num = 1 /\ front(queues["low"]) = Arrival

\* ... or on its way to the listener, which is the second of the table.
Delivered == Loaded /\ call.event = Arrival /\ IF call.pc = "send" THEN call.at = 0 ELSE call.at = 2

CallsInOrder ==
  /\ step # "handling" => call.pc = "app"
  /\ call.pc # "app" => call.all
  /\ call.pc = "pop" => queues[call.pri].num > 0

MessagesReachApp ==
  /\ (step \in {"output", "handle"} \/ call.pc \in {"test", "pop"}) => Quiet \/ Announced
  /\ call.pc \in {"send", "callback"} => queues["low"].num = 0 /\ (Quiet \/ Delivered)
  /\ (step \in {"begin", "raise", "put"} \/ (step = "handling" /\ call.pc = "app")) =>
       queues["low"].num = 0 /\ Quiet

NodeInv == NodeTypeOK /\ CallsInOrder /\ MessagesReachApp

LEMMA RingSteps ==
  ASSUME NEW h \in Cells
  PROVE  /\ kEventQueueSize \in Nat \ {0} /\ (h + 0) % kEventQueueSize = h
         /\ (h + 1) % kEventQueueSize \in Cells
<1>1. kEventQueueSize \in Nat \ {0} /\ h \in Int /\ h + 1 \in Int /\ h + 0 = h
  BY QueueSizeAssumption DEF QueueSizeAssumption, Cells
<1>2. h \in 0 .. kEventQueueSize - 1
  BY DEF Cells
<1>3. h % kEventQueueSize = h /\ (h + 1) % kEventQueueSize \in 0 .. kEventQueueSize - 1
  BY <1>1, <1>2, Remainder
<1>4. QED
  BY <1>1, <1>3 DEF Cells

LEMMA EmptyRing ==
  /\ EmptyQueue \in RingOf /\ EmptyQueue.num = 0
  /\ EmptyFifo \in BoxOf /\ EmptyFifo.num = 0
<1>1. 0 \in Cells /\ 0 \in Places /\ QUEUE_ITEMS \in Nat \ {0}
  BY QueueSizeAssumption, FifoAssumption DEF QueueSizeAssumption, FifoAssumption, Cells, Places
<1>2. (0 + 0) % kEventQueueSize = 0 /\ PlaceAt(0, 0) = 0
  BY <1>1, RingSteps, PlaceFacts
<1>3. EmptyQueue \in RingOf /\ EmptyQueue.num = 0
  BY <1>1, <1>2 DEF EmptyQueue, RingOf, Signal, kEventNone
<1>4. EmptyFifo \in BoxOf /\ EmptyFifo.num = 0
  BY <1>1, <1>2 DEF EmptyFifo, BoxOf, Letters, Places
<1>5. QED
  BY <1>3, <1>4

LEMMA QueueOne ==
  ASSUME NEW q \in RingOf, q.num = 0, NEW e \in Signal
  PROVE  /\ queueEvent(q, e) \in RingOf /\ queueEvent(q, e).num = 1
         /\ front(queueEvent(q, e)) = e
<1> DEFINE ev == [q.events EXCEPT ![q.tail] = e]
           t == (q.tail + 1) % kEventQueueSize
<1>1. /\ q \in [events : [Cells -> Signal], head : Cells, tail : Cells, num : {0, 1}]
      /\ q.head \in Cells /\ q.tail = q.head /\ kEventQueueSize \in Nat \ {0} /\ t \in Cells
  BY RingSteps DEF RingOf
<1>2. queueEvent(q, e) = [q EXCEPT !.events = ev, !.num = 0 + 1, !.tail = t]
  <2>1. ~isFull(q)
    BY <1>1 DEF isFull
  <2>2. QED
    BY <1>1, <2>1 DEF queueEvent
<1>3. ev \in [Cells -> Signal] /\ ev[q.head] = e
  BY <1>1
<1>4. t = (q.head + 1) % kEventQueueSize
  BY <1>1
<1> HIDE DEF ev, t
<1> DEFINE r == queueEvent(q, e)
<1> HIDE DEF r
<1>5. r = [q EXCEPT !.events = ev, !.num = 1, !.tail = t]
  BY <1>2 DEF r
<1>6. r \in [events : [Cells -> Signal], head : Cells, tail : Cells, num : {0, 1}]
  BY <1>1, <1>3, <1>5
<1>7. r.events = ev /\ r.head = q.head /\ r.tail = t /\ r.num = 1
  BY <1>1, <1>5
<1>8. QED
  BY <1>3, <1>4, <1>6, <1>7 DEF RingOf, front, r

LEMMA PopOnly ==
  ASSUME NEW q \in RingOf, q.num = 1
  PROVE  popEvent(q) \in RingOf /\ popEvent(q).num = 0 /\ front(q) \in Signal
<1> DEFINE ev == [q.events EXCEPT ![q.head].code = kEventNone]
           h == (q.head + 1) % kEventQueueSize
<1>1. /\ q \in [events : [Cells -> Signal], head : Cells, tail : Cells, num : {0, 1}]
      /\ q.head \in Cells /\ q.tail = h /\ h \in Cells /\ q.events[q.head] \in Signal
  BY RingSteps DEF RingOf
<1>2. popEvent(q) = [q EXCEPT !.events = ev, !.num = 1 - 1, !.head = h]
  BY <1>1 DEF popEvent
<1>3. ev \in [Cells -> Signal]
  BY <1>1 DEF Signal, kEventNone
<1>4. (h + 0) % kEventQueueSize = h
  BY <1>1, RingSteps
<1> HIDE DEF ev, h
<1> DEFINE r == popEvent(q)
<1> HIDE DEF r
<1>5. r = [q EXCEPT !.events = ev, !.num = 0, !.head = h]
  BY <1>2 DEF r
<1>6. r \in [events : [Cells -> Signal], head : Cells, tail : Cells, num : {0, 1}]
  BY <1>1, <1>3, <1>5
<1>7. r.head = h /\ r.tail = h /\ r.num = 0
  BY <1>1, <1>5
<1>8. QED
  BY <1>1, <1>4, <1>6, <1>7 DEF RingOf, front, r

LEMMA PutInBox ==
  ASSUME NEW q \in BoxOf, q.num = 0, NEW m \in Letters
  PROVE  /\ push(q, m) \in BoxOf /\ push(q, m).num = 1 /\ ~push(q, m).overFlow
         /\ push(q, m).items[push(q, m).head] = m
<1> DEFINE i == [q.items EXCEPT ![q.tail] = m]
           t == (q.tail + 1) % QUEUE_ITEMS
           n == IF q.num > kQueueSize THEN q.num ELSE q.num + 1
           o == q.overFlow \/ q.num > kQueueSize
<1>1. /\ q \in [items : [Places -> Letters], head : Places, tail : Places, num : {0, 1}, overFlow : BOOLEAN]
      /\ q.head \in Places /\ q.tail = q.head /\ QUEUE_ITEMS \in Nat \ {0}
  BY PlaceFacts DEF BoxOf
<1>2. t = PlaceAt(q.head, 1) /\ t \in Places
  <2>1. 1 \in 0 .. QUEUE_ITEMS
    BY <1>1
  <2>2. QED
    BY <1>1, <2>1, PlaceFacts DEF PlaceAt
<1>3. n = 1 /\ o = FALSE
  <2>1. kQueueSize \in Nat
    BY SizeInBytes
  <2>2. ~(q.num > kQueueSize) /\ ~q.overFlow /\ q.num + 1 = 1
    BY <2>1 DEF BoxOf
  <2>3. QED
    BY <2>2
<1>4. push(q, m) = [q EXCEPT !.items = i, !.tail = t, !.num = n, !.overFlow = o]
  BY Zenon, <1>1 DEF push
<1>5. i \in [Places -> Letters] /\ i[q.head] = m
  BY <1>1
<1> HIDE DEF i, t, n, o
<1> DEFINE r == push(q, m)
<1> HIDE DEF r
<1>6. r = [q EXCEPT !.items = i, !.tail = t, !.num = 1, !.overFlow = FALSE]
  BY <1>3, <1>4 DEF r
<1>7. r \in [items : [Places -> Letters], head : Places, tail : Places, num : {0, 1}, overFlow : BOOLEAN]
  BY <1>1, <1>2, <1>5, <1>6
<1>8. r.items = i /\ r.head = q.head /\ r.tail = t /\ r.num = 1 /\ ~r.overFlow
  BY <1>1, <1>6
<1>9. QED
  BY <1>2, <1>5, <1>7, <1>8 DEF BoxOf, r

\* Reading what is there leaves nothing, and returns the message that waited.
LEMMA EmptyBox ==
  ASSUME NEW q \in BoxOf, NEW n \in Nat, n >= q.num
  PROVE  /\ Popped(q, n) \in BoxOf /\ Popped(q, n).num = 0
         /\ q.num = 0 => Messages(q, n) = <<>>
         /\ q.num = 1 => Len(Messages(q, n)) = 1 /\ Messages(q, n)[1] = q.items[q.head]
<1> DEFINE k == IF n < q.num THEN n ELSE q.num
           h == (q.head + k) % QUEUE_ITEMS
<1>1. /\ q \in [items : [Places -> Letters], head : Places, tail : Places, num : {0, 1}, overFlow : BOOLEAN]
      /\ q.head \in Places /\ q.tail = PlaceAt(q.head, q.num) /\ QUEUE_ITEMS \in Nat \ {0}
  BY PlaceFacts DEF BoxOf
<1>2. k = q.num /\ q.num \in Nat /\ q.num - q.num = 0
  BY <1>1
<1>3. h = PlaceAt(q.head, q.num) /\ h \in Places /\ PlaceAt(h, 0) = h
  <2>1. q.num \in 0 .. QUEUE_ITEMS /\ h = PlaceAt(q.head, q.num)
    BY <1>1, <1>2 DEF PlaceAt
  <2>2. PlaceAt(q.head, q.num) \in Places
    BY <1>1, <2>1, PlaceFacts
  <2>3. QED
    BY <2>1, <2>2, PlaceFacts
<1>4. Popped(q, n) = [q EXCEPT !.head = h, !.num = 0, !.overFlow = FALSE]
  <2>1. ~q.overFlow
    BY DEF BoxOf
  <2>2. QED
    BY <1>1, <1>2, <2>1 DEF Popped
<1>5. q.num = 0 => Messages(q, n) = <<>>
  BY <1>2 DEF Messages
<1>6. ASSUME q.num = 1 PROVE Len(Messages(q, n)) = 1 /\ Messages(q, n)[1] = q.items[q.head]
  <2>1. q.head + 1 - 1 = q.head /\ q.head \in Int /\ q.head \in 0 .. QUEUE_ITEMS - 1
    BY <1>1 DEF Places
  <2>9. q.head % QUEUE_ITEMS = q.head
    BY <1>1, <2>1, Remainder
  <2>2. Messages(q, n) = [j \in 1 .. 1 |-> q.items[(q.head + j - 1) % QUEUE_ITEMS]]
    BY <1>2, <1>6 DEF Messages
  <2>3. QED
    BY <2>1, <2>9, <2>2
<1> HIDE DEF k, h
<1> DEFINE r == Popped(q, n)
<1> HIDE DEF r
<1>7. r = [q EXCEPT !.head = h, !.num = 0, !.overFlow = FALSE]
  BY <1>4 DEF r
<1>8. r \in [items : [Places -> Letters], head : Places, tail : Places, num : {0, 1}, overFlow : BOOLEAN]
  BY <1>1, <1>3, <1>7
<1>9. r.head = h /\ r.tail = q.tail /\ r.num = 0 /\ ~r.overFlow
  BY <1>1, <1>7
<1>10. QED
  BY <1>1, <1>3, <1>5, <1>6, <1>8, <1>9 DEF BoxOf, r

LEMMA BytesShown ==
  /\ Shown(0) = 0
  /\ \A a, b \in Byte : Shown(256 * a + b) = ToInt(a, b)
<1>1. Shown(0) = 0
  BY DEF Shown, ToInt, Int16
<1>2. ASSUME NEW a \in Byte, NEW b \in Byte PROVE Shown(256 * a + b) = ToInt(a, b)
  <2>1. (256 * a + b) \div 256 = a /\ (256 * a + b) % 256 = b
    BY DEF Byte
  <2>2. QED
    BY <2>1 DEF Shown
<1>3. QED
  BY <1>1, <1>2

\* The queue for events of low priority takes one when it is empty.
LEMMA Raised ==
  ASSUME queues \in [Priorities -> RingOf], queues["high"].num = 0, queues["low"].num = 0,
         NEW e \in Signal, Raise(e)
  PROVE  /\ queues' \in [Priorities -> RingOf] /\ queues'["high"].num = 0
         /\ queues'["low"].num = 1 /\ front(queues'["low"]) = e
<1>1. /\ queueEvent(queues["low"], e) \in RingOf /\ queueEvent(queues["low"], e).num = 1
      /\ front(queueEvent(queues["low"], e)) = e
  BY QueueOne DEF Priorities
<1>2. queues' = [queues EXCEPT !["low"] = queueEvent(queues["low"], e)]
  BY DEF Raise
<1> HIDE DEF Raise
<1>3. QED
  BY <1>1, <1>2 DEF Priorities

LEMMA Signals ==
  /\ Arrival \in Signal /\ Event(RequestData, 0) \in Signal
  /\ \A k \in {INVALID_COMMAND, ZERO_LENGTH, INIT_FAILED} : Event(DataError, k) \in Signal
BY DEF Arrival, Event, Signal, RequestData, DataReceived, DataError, INVALID_COMMAND, ZERO_LENGTH, INIT_FAILED

LEMMA NodeStarts == NodeInit => NodeInv
<1> SUFFICES ASSUME NodeInit PROVE NodeInv
  OBVIOUS
<1>1. /\ queues \in [Priorities -> RingOf] /\ queues["high"].num = 0 /\ queues["low"].num = 0
      /\ fifo \in BoxOf /\ fifo.num = 0
  BY EmptyRing DEF NodeInit, Priorities
<1>2. call \in NodeCalls /\ call.pc = "app"
  BY DEF NodeInit, InApp, NodeCalls, Signal, Priorities, kEventNone
<1>3. NodeTypeOK
  BY <1>1, <1>2 DEF NodeInit, NodeTypeOK, Steps
<1>4. Quiet
  BY <1>1, BytesShown DEF NodeInit, Quiet
<1>5. QED
  BY <1>1, <1>2, <1>3, <1>4 DEF NodeInit, NodeInv, CallsInOrder, MessagesReachApp

\* A pass that leaves queue and messages alone.
LEMMA StepsAside ==
  ASSUME NodeInv, step # "handling", step' \in Steps \ {"handling", "begin"}, step # "begin",
         UNCHANGED <<managerVars, fifo, altimeter, newest>>, chip' \in Seq(Bus),
         step \in {"raise", "put"} \/ (step = "output" /\ step' = "handle")
  PROVE  NodeInv'
<1>1. NodeTypeOK' /\ CallsInOrder'
  BY DEF NodeInv, NodeTypeOK, CallsInOrder, managerVars, listVars
<1>2. /\ Quiet' <=> Quiet
      /\ Announced' <=> Announced
  BY DEF Quiet, Announced, Loaded, Asks, Shown, managerVars
<1>3. /\ call' = call /\ queues' = queues /\ call.pc = "app"
      /\ step \in {"raise", "put"} => Quiet /\ queues["low"].num = 0
      /\ step = "output" => Quiet \/ Announced
  BY DEF NodeInv, CallsInOrder, MessagesReachApp, managerVars
<1>4. MessagesReachApp'
  BY <1>2, <1>3 DEF MessagesReachApp, Steps
<1>5. QED
  BY <1>1, <1>4 DEF NodeInv

LEMMA StartKeeps ==
  ASSUME NodeInv, NEW ok \in BOOLEAN, TryBegin(ok)
  PROVE  NodeInv'
<1>1. /\ step = "begin" /\ step' \in {"begin", "handle"}
      /\ mListeners' = (IF step' = "begin" THEN <<>> ELSE Listeners)
      /\ (RaiseNone \/ Raise(Event(DataError, INIT_FAILED)))
      /\ UNCHANGED <<call, chip, fifo, altimeter, newest>>
      /\ step' = "begin" => RaiseNone
  BY DEF TryBegin, StartEvent, StartFailed, NodeInv, NodeTypeOK
<1>2. Quiet /\ queues["low"].num = 0 /\ call.pc = "app" /\ NodeTypeOK
  BY <1>1 DEF NodeInv, MessagesReachApp, CallsInOrder
<1>3. Quiet'
  BY <1>1, <1>2 DEF Quiet, Shown
<1>4. /\ queues' \in [Priorities -> RingOf] /\ queues'["high"].num = 0
      /\ step' = "begin" => queues'["low"].num = 0
  <2>1. CASE RaiseNone
    BY <1>2, <2>1 DEF RaiseNone, NodeTypeOK
  <2>2. CASE Raise(Event(DataError, INIT_FAILED)) /\ ~RaiseNone
    BY <1>1, <1>2, <2>2, Signals, Raised DEF NodeTypeOK
  <2>3. QED
    BY <1>1, <2>1, <2>2
<1>5. NodeTypeOK'
  BY <1>1, <1>2, <1>4 DEF NodeTypeOK, Steps
<1>6. QED
  BY <1>1, <1>2, <1>3, <1>4, <1>5 DEF NodeInv, CallsInOrder, MessagesReachApp

LEMMA HandleKeeps ==
  ASSUME NodeInv, HandleEvents
  PROVE  NodeInv'
<1>1. /\ step = "handle" /\ step' = "handling" /\ call' = [InApp EXCEPT !.pc = "test", !.all = TRUE]
      /\ UNCHANGED <<queues, mListeners, chip, fifo, altimeter, newest>>
  BY DEF HandleEvents, Process, listVars
<1>2. call' \in NodeCalls /\ call'.pc = "test" /\ call'.all
  <2>1. InApp \in NodeCalls
    BY DEF InApp, NodeCalls, Signal, Priorities, kEventNone
  <2>2. QED
    BY <1>1, <2>1 DEF NodeCalls
<1>3. Quiet' \/ Announced'
  BY <1>1 DEF NodeInv, MessagesReachApp, Quiet, Announced, Loaded, Asks, Shown
<1>4. NodeTypeOK'
  BY <1>1, <1>2 DEF NodeInv, NodeTypeOK, Steps
<1>5. QED
  BY <1>1, <1>2, <1>3, <1>4 DEF NodeInv, CallsInOrder, MessagesReachApp

\* What all steps of the dispatch have in common.
Dispatches == step = "handling" /\ UNCHANGED nodeVars /\ UNCHANGED mListeners

LEMMA DispatchTypes ==
  ASSUME NodeInv, Dispatches, call' \in NodeCalls,
         queues' \in [Priorities -> RingOf], queues'["high"].num = 0
  PROVE  /\ NodeTypeOK' /\ step' = "handling" /\ step = "handling"
         /\ Quiet' <=> Quiet
         /\ Loaded' <=> Loaded
BY DEF NodeInv, NodeTypeOK, Dispatches, nodeVars, Quiet, Loaded, Asks, Shown

LEMMA TestKeeps ==
  ASSUME NodeInv, Dispatches, Test
  PROVE  NodeInv'
<1>1. /\ call.pc = "test" /\ queues' = queues /\ call \in NodeCalls /\ call.all /\ NodeTypeOK
      /\ call' = IF ~isEmpty(queues[call.pri]) THEN [call EXCEPT !.pc = "pop"]
                 ELSE IF call.pri = "high" THEN [call EXCEPT !.pri = "low"]
                 ELSE InApp
      /\ Quiet \/ Announced
  BY DEF Test, NodeInv, NodeTypeOK, CallsInOrder, MessagesReachApp, Dispatches
<1>2. CASE ~isEmpty(queues[call.pri])
  <2>1. call' \in NodeCalls /\ call'.pc = "pop" /\ call'.all = call.all /\ call'.pri = call.pri
    BY <1>1, <1>2 DEF NodeCalls
  <2>2. queues[call.pri].num > 0
    BY <1>1, <1>2 DEF isEmpty, NodeTypeOK, RingOf, NodeCalls
  <2>3. NodeTypeOK' /\ step' = "handling" /\ (Quiet' \/ Announced')
    BY <1>1, <2>1, DispatchTypes DEF NodeTypeOK, Announced
  <2>4. QED
    BY <1>1, <2>1, <2>2, <2>3 DEF NodeInv, CallsInOrder, MessagesReachApp
<1>3. CASE isEmpty(queues[call.pri]) /\ call.pri = "high"
  <2>1. call' \in NodeCalls /\ call'.pc = "test" /\ call'.all = call.all
    BY <1>1, <1>3 DEF NodeCalls, Priorities
  <2>2. NodeTypeOK' /\ step' = "handling" /\ (Quiet' \/ Announced')
    BY <1>1, <2>1, DispatchTypes DEF NodeTypeOK, Announced
  <2>3. QED
    BY <1>1, <2>1, <2>2 DEF NodeInv, CallsInOrder, MessagesReachApp
<1>4. CASE isEmpty(queues[call.pri]) /\ call.pri # "high"
  <2>1. call' \in NodeCalls /\ call'.pc = "app"
    BY <1>1, <1>4 DEF InApp, NodeCalls, Signal, Priorities, kEventNone
  <2>2. queues["low"].num = 0 /\ Quiet
    BY <1>1, <1>4 DEF isEmpty, NodeCalls, Priorities, Announced
  <2>3. NodeTypeOK' /\ step' = "handling" /\ Quiet'
    BY <1>1, <2>1, <2>2, DispatchTypes DEF NodeTypeOK
  <2>4. QED
    BY <1>1, <2>1, <2>2, <2>3 DEF NodeInv, CallsInOrder, MessagesReachApp
<1>5. QED
  BY <1>2, <1>3, <1>4

LEMMA PopKeeps ==
  ASSUME NodeInv, Dispatches, Pop
  PROVE  NodeInv'
<1>1. /\ call.pc = "pop" /\ call \in NodeCalls /\ call.all /\ NodeTypeOK
      /\ queues[call.pri].num > 0
      /\ queues' = [queues EXCEPT ![call.pri] = popEvent(@)]
      /\ call' = [call EXCEPT !.pc = "send", !.event = front(queues[call.pri]), !.at = 0, !.handled = FALSE]
      /\ Quiet \/ Announced
  BY DEF Pop, NodeInv, NodeTypeOK, CallsInOrder, MessagesReachApp, Dispatches
<1>2. call.pri = "low"
  BY <1>1 DEF NodeTypeOK, NodeCalls, Priorities
<1>3. queues["low"] \in RingOf /\ queues["low"].num = 1
  BY <1>1, <1>2 DEF NodeTypeOK, RingOf, Priorities
<1>4. popEvent(queues["low"]) \in RingOf /\ popEvent(queues["low"]).num = 0 /\ front(queues["low"]) \in Signal
  BY <1>3, PopOnly
<1>5. queues' \in [Priorities -> RingOf] /\ queues'["high"].num = 0 /\ queues'["low"].num = 0
  BY <1>1, <1>2, <1>4 DEF NodeTypeOK, Priorities
<1>6. /\ call' \in NodeCalls /\ call'.pc = "send" /\ call'.at = 0 /\ call'.all = call.all
      /\ call'.event = front(queues["low"])
  BY <1>1, <1>2, <1>4 DEF NodeCalls
<1>7. /\ NodeTypeOK' /\ step' = "handling" /\ (Quiet' <=> Quiet) /\ (Loaded' <=> Loaded)
  BY <1>5, <1>6, DispatchTypes
<1>8. Quiet' \/ Delivered'
  BY <1>1, <1>6, <1>7 DEF Announced, Delivered
<1>9. QED
  BY <1>1, <1>5, <1>6, <1>7, <1>8 DEF NodeInv, CallsInOrder, MessagesReachApp

\* The table while a dispatch runs: the second entry alone is for arriving messages.
LEMMA TableIs ==
  ASSUME NodeInv, step = "handling"
  PROVE  /\ mListeners = Listeners /\ DOMAIN mListeners = 1 .. 3
         /\ \A k \in 1 .. 3 : mListeners[k].eventCode = DataReceived <=> k = 2
         /\ mListeners[2].enabled /\ mListeners[2].callback = "dataReceived"
BY DEF NodeInv, NodeTypeOK, Listeners, DataReceived, RequestData, DataError

LEMMA InvokeKeeps ==
  ASSUME NodeInv, Dispatches, Invoke
  PROVE  NodeInv'
<1>1. /\ call.pc = "send" /\ call \in NodeCalls /\ call.all /\ NodeTypeOK /\ queues' = queues
      /\ queues["low"].num = 0 /\ (Quiet \/ Delivered) /\ step = "handling"
  BY DEF Invoke, NodeInv, NodeTypeOK, CallsInOrder, MessagesReachApp, Dispatches
<1>2. PICK k \in DOMAIN mListeners :
        Due(k) /\ call' = [call EXCEPT !.pc = "callback", !.at = k, !.handled = TRUE]
  BY DEF Invoke
<1>3. k \in 1 .. 3 /\ mListeners[k].eventCode = call.event.code
  BY <1>1, <1>2, TableIs DEF Due
<1>4. /\ call' \in NodeCalls /\ call'.pc = "callback" /\ call'.at = k /\ call'.all = call.all
      /\ call'.event = call.event
  <2>1. k \in Nat
    BY <1>3
  <2>2. QED
    BY <1>1, <1>2, <2>1 DEF NodeCalls
<1>5. /\ NodeTypeOK' /\ step' = "handling" /\ (Quiet' <=> Quiet) /\ (Loaded' <=> Loaded)
  BY <1>1, <1>4, DispatchTypes DEF NodeTypeOK
<1>6. ASSUME Delivered PROVE Delivered'
  <2>1. call.event.code = DataReceived /\ call.event = Arrival
    BY <1>6 DEF Delivered, Arrival, Event
  <2>2. k = 2
    BY <1>1, <1>3, <2>1, TableIs
  <2>3. QED
    BY <1>4, <1>5, <1>6, <2>1, <2>2 DEF Delivered
<1>7. QED
  BY <1>1, <1>4, <1>5, <1>6 DEF NodeInv, CallsInOrder, MessagesReachApp

\* An event nobody is left to hear is not that of a message that waits.
LEMMA SentKeeps ==
  ASSUME NodeInv, Dispatches, Sent
  PROVE  NodeInv'
<1>1. /\ call.pc = "send" /\ call \in NodeCalls /\ call.all /\ NodeTypeOK /\ queues' = queues
      /\ queues["low"].num = 0 /\ (Quiet \/ Delivered) /\ step = "handling" /\ AllCalled
      /\ call' = [call EXCEPT !.pc = "test"]
  BY DEF Sent, NodeInv, NodeTypeOK, CallsInOrder, MessagesReachApp, Dispatches
<1>2. ASSUME Delivered PROVE FALSE
  <2>1. call.at = 0 /\ call.event.code = DataReceived
    BY <1>1, <1>2 DEF Delivered, Arrival, Event
  <2>2. 2 \in DOMAIN mListeners /\ Due(2)
    BY <1>1, <2>1, TableIs DEF Due
  <2>3. QED
    BY <1>1, <2>2 DEF AllCalled
<1>3. call' \in NodeCalls /\ call'.pc = "test" /\ call'.all = call.all
  BY <1>1 DEF NodeCalls
<1>4. NodeTypeOK' /\ step' = "handling" /\ Quiet'
  BY <1>1, <1>2, <1>3, DispatchTypes DEF NodeTypeOK
<1>5. QED
  BY <1>1, <1>3, <1>4 DEF NodeInv, CallsInOrder, MessagesReachApp

LEMMA HandlingKeeps ==
  ASSUME NodeInv, Handling
  PROVE  NodeInv'
<1>1. Dispatches
  BY DEF Handling, Dispatches, Test, Pop, Invoke, Sent, listVars
<1>2. QED
  BY <1>1, TestKeeps, PopKeeps, InvokeKeeps, SentKeeps DEF Handling

\* A listener returns, after it read what it read.
LEMMA ReturnTypes ==
  ASSUME NodeInv, step = "handling", call.pc = "callback", Return, UNCHANGED <<step, chip>>,
         fifo' \in BoxOf, Quiet'
  PROVE  NodeInv'
<1>1. /\ call' = [call EXCEPT !.pc = "send"] /\ UNCHANGED <<queues, mListeners>>
      /\ call \in NodeCalls /\ call.all /\ queues["low"].num = 0 /\ NodeTypeOK
  BY DEF Return, NodeInv, NodeTypeOK, CallsInOrder, MessagesReachApp, listVars
<1>2. call' \in NodeCalls /\ call'.pc = "send" /\ call'.all = call.all
  BY <1>1 DEF NodeCalls
<1>3. NodeTypeOK'
  BY <1>1, <1>2 DEF NodeTypeOK
<1>4. QED
  BY <1>1, <1>2, <1>3 DEF NodeInv, CallsInOrder, MessagesReachApp

\* A listener that is not for messages runs when none waits.
LEMMA OthersRunQuietly ==
  ASSUME NodeInv, NEW cb, cb # "dataReceived", Running(cb)
  PROVE  Quiet /\ step = "handling" /\ call.pc = "callback" /\ Return
<1>1. /\ step = "handling" /\ call.pc = "callback" /\ Return /\ mListeners[call.at].callback = cb
      /\ Quiet \/ Delivered
  BY DEF Running, NodeInv, MessagesReachApp
<1>2. Delivered => call.at = 2
  BY <1>1 DEF Delivered
<1>3. QED
  BY <1>1, <1>2, TableIs

LEMMA RemoteAndErrorKeep ==
  ASSUME NodeInv, RemoteRequest \/ CanError
  PROVE  NodeInv'
<1>1. /\ Quiet /\ step = "handling" /\ call.pc = "callback" /\ Return
      /\ UNCHANGED <<step, chip, fifo, altimeter, newest>>
  BY OthersRunQuietly DEF RemoteRequest, CanError, nodeVars
<1>2. Quiet' /\ fifo' \in BoxOf
  BY <1>1 DEF Quiet, Shown, NodeInv, NodeTypeOK
<1>3. QED
  BY <1>1, <1>2, ReturnTypes

LEMMA DataReceivedKeeps ==
  ASSUME NodeInv, DataReceivedHandler
  PROVE  NodeInv'
<1> DEFINE n == call.event.param
           read == Messages(fifo, n)
           alt == SelectLastInSeq(read, IsAltitude)
<1>1. /\ step = "handling" /\ call.pc = "callback" /\ Return /\ UNCHANGED <<step, chip, newest>>
      /\ fifo' = Popped(fifo, n)
      /\ altimeter' = IF alt = 0 THEN altimeter ELSE ToInt(read[alt][3], read[alt][4])
      /\ Quiet \/ Delivered
      /\ fifo \in BoxOf /\ n \in Nat
  BY DEF DataReceivedHandler, Running, NodeInv, MessagesReachApp, NodeTypeOK, NodeCalls, Signal
<1>2. n >= fifo.num /\ fifo.num \in {0, 1}
  <2>1. fifo.num \in {0, 1} /\ (Quiet => fifo.num = 0) /\ (Delivered => n = 1)
    BY <1>1 DEF BoxOf, Quiet, Delivered, Arrival, Event
  <2>2. QED
    BY <1>1, <2>1
<1> HIDE DEF n
<1>3. /\ fifo' \in BoxOf /\ fifo'.num = 0
      /\ fifo.num = 0 => read = <<>>
      /\ fifo.num = 1 => Len(read) = 1 /\ read[1] = fifo.items[fifo.head]
  BY <1>1, <1>2, EmptyBox
<1> HIDE DEF read
<1>4. CASE fifo.num = 0
  <2>1. {i \in 1 .. Len(read) : IsAltitude(read[i])} = {}
    BY <1>3, <1>4
  <2>2. alt = 0
    BY <2>1 DEF SelectLastInSeq
  <2>3. Quiet
    BY <1>1, <1>4 DEF Delivered, Loaded
  <2>4. altimeter' = altimeter
    BY <1>1, <2>2
  <2>5. Quiet'
    BY <1>1, <1>3, <2>3, <2>4 DEF Quiet, Shown
  <2>6. QED
    BY <1>1, <1>3, <2>5, ReturnTypes
<1>5. CASE fifo.num = 1
  <2> DEFINE m == fifo.items[fifo.head]
             I == {i \in 1 .. Len(read) : IsAltitude(read[i])}
  <2>1. read[1] = m /\ Len(read) = 1
    BY <1>3, <1>5
  <2>2. I = IF IsAltitude(m) THEN {1} ELSE {}
    <3> HIDE DEF m
    <3>1. \A i : i \in 1 .. Len(read) <=> i = 1
      BY <2>1
    <3>2. QED
      BY <2>1, <3>1
  <2>3. alt = IF IsAltitude(m) THEN 1 ELSE 0
    <3>1. alt = IF I # {} THEN Max(I) ELSE 0
      BY DEF SelectLastInSeq
    <3>2. Max({1}) = 1
      BY DEF Max
    <3> HIDE DEF I, m, alt
    <3>3. QED
      BY <2>2, <3>1, <3>2
  <2>4. altimeter' = Asks(m, altimeter)
    <3> HIDE DEF m, alt
    <3>1. QED
      BY <1>1, <2>1, <2>3 DEF Asks
  <2>5. Asks(m, altimeter) = Shown(newest)
    BY <1>1, <1>5 DEF Quiet, Delivered, Loaded
  <2>6. Quiet'
    <3>1. newest' = newest /\ altimeter' = Shown(newest)
      BY <1>1, <2>4, <2>5
    <3>2. QED
      BY <1>3, <3>1 DEF Quiet, Shown
  <2>7. QED
    BY <1>1, <1>3, <2>6, ReturnTypes
<1>6. QED
  BY <1>2, <1>4, <1>5

LEMMA HandledKeeps ==
  ASSUME NodeInv, EventsHandled
  PROVE  NodeInv'
<1>1. /\ step = "handling" /\ call.pc = "app" /\ step' = "raise"
      /\ UNCHANGED <<queues, mListeners, call, chip, fifo, altimeter, newest>>
      /\ queues["low"].num = 0 /\ Quiet /\ NodeTypeOK
  BY DEF EventsHandled, managerVars, listVars, NodeInv, MessagesReachApp
<1>2. NodeTypeOK' /\ Quiet'
  BY <1>1 DEF NodeTypeOK, Steps, Quiet, Shown
<1>3. QED
  BY <1>1, <1>2 DEF NodeInv, CallsInOrder, MessagesReachApp

\* What every way of taking a frame starts from.
LEMMA TakeFacts ==
  ASSUME NodeInv, Take
  PROVE  /\ step = "raise" /\ chip \in Seq(Bus) /\ chip # <<>> /\ Head(chip) \in Bus
         /\ chip' \in Seq(Bus) /\ NodeTypeOK /\ Quiet /\ queues["low"].num = 0 /\ call.pc = "app"
         /\ UNCHANGED <<mListeners, call, altimeter>>
<1>1. /\ step = "raise" /\ chip \in Seq(Bus) /\ chip # <<>> /\ chip' = Tail(chip)
      /\ NodeTypeOK /\ Quiet /\ queues["low"].num = 0 /\ call.pc = "app"
      /\ UNCHANGED <<mListeners, call, altimeter>>
  BY DEF Take, NodeInv, NodeTypeOK, MessagesReachApp, CallsInOrder, listVars
<1>2. Head(chip) \in Bus /\ chip' \in Seq(Bus)
  BY <1>1, HeadTailProperties
<1>3. QED
  BY <1>1, <1>2

LEMMA TakeOtherKeeps ==
  ASSUME NodeInv, TakeOther
  PROVE  NodeInv'
<1>1. /\ Take /\ step' = "output" /\ UNCHANGED <<fifo, newest>>
  BY DEF TakeOther
<1>2. RaiseNone \/ \E e \in Signal : Raise(e)
  BY Signals DEF TakeOther
<1>3. queues' \in [Priorities -> RingOf] /\ queues'["high"].num = 0
  <2>1. CASE RaiseNone
    BY <1>1, <2>1, TakeFacts DEF RaiseNone, NodeTypeOK
  <2>2. ASSUME NEW e \in Signal, Raise(e) PROVE queues' \in [Priorities -> RingOf] /\ queues'["high"].num = 0
    BY <1>1, <2>2, TakeFacts, Raised DEF NodeTypeOK
  <2>3. QED
    BY <1>2, <2>1, <2>2
<1>4. NodeTypeOK'
  BY <1>1, <1>3, TakeFacts DEF NodeTypeOK, Steps
<1>5. Quiet'
  BY <1>1, TakeFacts DEF Quiet, Shown
<1>6. QED
  BY <1>1, <1>4, <1>5, TakeFacts DEF NodeInv, CallsInOrder, MessagesReachApp

LEMMA TakeMessageKeeps ==
  ASSUME NodeInv, TakeMessage
  PROVE  NodeInv'
<1> DEFINE m == Head(chip).data
           after == push(fifo, m)
<1>1. /\ Take /\ step' = "output" /\ fifo' = after /\ IsMessage(Head(chip))
      /\ newest' = IF IsAltitude(m) THEN 256 * m[3] + m[4] ELSE newest
      /\ IF after.overFlow
         THEN RaiseBoth(Event(DataReceived, after.num), Event(DataError, DATA_LOST))
         ELSE Raise(Event(DataReceived, after.num))
  BY DEF TakeMessage
<1>2. m \in Letters /\ fifo \in BoxOf /\ fifo.num = 0
  BY <1>1, TakeFacts DEF Letters, NodeTypeOK, Quiet
<1> HIDE DEF m
<1>3. after \in BoxOf /\ after.num = 1 /\ ~after.overFlow /\ after.items[after.head] = m
  BY <1>2, PutInBox
<1> HIDE DEF after
<1>4. Raise(Arrival)
  BY <1>1, <1>3 DEF Arrival
<1>5. /\ queues' \in [Priorities -> RingOf] /\ queues'["high"].num = 0
      /\ queues'["low"].num = 1 /\ front(queues'["low"]) = Arrival
  BY <1>1, <1>4, TakeFacts, Signals, Raised DEF NodeTypeOK
<1>6. NodeTypeOK'
  BY <1>1, <1>3, <1>5, TakeFacts DEF NodeTypeOK, Steps
<1>7. Asks(m, altimeter) = Shown(newest')
  <2>1. CASE IsAltitude(m)
    <3>1. m[3] \in Byte /\ m[4] \in Byte
      BY <1>1, <2>1, TakeFacts, NodeAssumption DEF NodeAssumption, IsMessage, m
    <3>2. QED
      BY <1>1, <2>1, <3>1, BytesShown DEF Asks
  <2>2. CASE ~IsAltitude(m)
    BY <1>1, <2>2, TakeFacts DEF Asks, Quiet
  <2>3. QED
    BY <2>1, <2>2
<1>8. Announced'
  <2>1. altimeter' = altimeter /\ fifo'.items[fifo'.head] = m /\ fifo'.num = 1
    BY <1>1, <1>3, TakeFacts
  <2>2. Loaded'
    BY <1>7, <2>1 DEF Loaded, Asks, Shown
  <2>3. QED
    BY <1>5, <2>2 DEF Announced, Arrival, front, Event
<1>9. QED
  BY <1>1, <1>6, <1>8, TakeFacts DEF NodeInv, CallsInOrder, MessagesReachApp

LEMMA PowerLossKeeps ==
  ASSUME NodeInv, PowerLoss
  PROVE  NodeInv'
<1>1. /\ queues' = [p \in Priorities |-> EmptyQueue] /\ mListeners' = <<>> /\ call' = InApp
      /\ step' = "begin" /\ chip' = <<>> /\ fifo' = EmptyFifo /\ altimeter' = 0 /\ newest' = 0
  BY DEF PowerLoss
<1>2. /\ queues' \in [Priorities -> RingOf] /\ queues'["high"].num = 0 /\ queues'["low"].num = 0
      /\ fifo' \in BoxOf /\ fifo'.num = 0
  BY <1>1, EmptyRing DEF Priorities
<1>3. call' \in NodeCalls /\ call'.pc = "app"
  BY <1>1 DEF InApp, NodeCalls, Signal, Priorities, kEventNone
<1>4. NodeTypeOK'
  BY <1>1, <1>2, <1>3 DEF NodeTypeOK, Steps
<1>5. Quiet'
  <2>1. fifo'.num = 0 /\ altimeter' = Shown(0)
    BY <1>1, <1>2, BytesShown
  <2>2. QED
    BY <1>1, <2>1 DEF Quiet, Shown
<1>6. QED
  BY <1>1, <1>2, <1>3, <1>4, <1>5 DEF NodeInv, CallsInOrder, MessagesReachApp

LEMMA NodeStepKeeps ==
  ASSUME NodeInv, [NodeNext(Bus)]_<<managerVars, nodeVars>>
  PROVE  NodeInv'
<1> USE DEF Steps
<1>1. ASSUME NEW ok \in BOOLEAN, TryBegin(ok) PROVE NodeInv'
  BY <1>1, StartKeeps
<1>2. CASE HandleEvents \/ Handling \/ RemoteRequest \/ CanError \/ DataReceivedHandler \/ EventsHandled
  BY <1>2, HandleKeeps, HandlingKeeps, RemoteAndErrorKeep, DataReceivedKeeps, HandledKeeps
<1>3. CASE NothingTaken
  BY <1>3, StepsAside DEF NothingTaken, NodeInv, NodeTypeOK
<1>4. CASE TakeOther \/ TakeMessage
  BY <1>4, TakeOtherKeeps, TakeMessageKeeps
<1>5. CASE TakeCommand
  <2>1. /\ Take /\ step' \in {"put", "output"} /\ UNCHANGED <<managerVars, fifo, altimeter, newest>>
    BY <1>5 DEF TakeCommand, Take, RaiseNone, managerVars
  <2>2. QED
    BY <2>1, TakeFacts, StepsAside
<1>6. CASE PutByte
  <2>1. /\ step = "put" /\ step' \in {"put", "output"}
        /\ UNCHANGED <<managerVars, fifo, altimeter, newest, chip>>
    BY <1>6 DEF PutByte
  <2>2. QED
    BY <2>1, StepsAside DEF NodeInv, NodeTypeOK
<1>7. ASSUME NEW due \in BOOLEAN, Output(due) PROVE NodeInv'
  BY <1>7, StepsAside DEF Output, NodeInv, NodeTypeOK
<1>8. CASE PowerLoss
  BY <1>8, PowerLossKeeps
<1>9. ASSUME NEW f \in Bus, Receive(f) PROVE NodeInv'
  <2>1. /\ step = "raise" /\ step' = "raise" /\ chip' = Append(chip, f) /\ chip \in Seq(Bus)
        /\ UNCHANGED <<managerVars, fifo, altimeter, newest>>
    BY <1>9 DEF Receive, NodeInv, NodeTypeOK
  <2>2. QED
    BY <2>1, AppendProperties, StepsAside
<1>10. CASE UNCHANGED <<managerVars, nodeVars>>
  <2>1. /\ UNCHANGED <<queues, mListeners, call, step, chip, fifo, altimeter, newest>>
    BY <1>10 DEF managerVars, listVars, nodeVars
  <2>2. QED
    BY <2>1 DEF NodeInv, NodeTypeOK, CallsInOrder, MessagesReachApp, Quiet, Announced, Delivered,
                Loaded, Asks, Shown
<1>11. QED
  BY <1>1, <1>2, <1>3, <1>4, <1>5, <1>6, <1>7, <1>8, <1>9, <1>10 DEF NodeNext, NodeStep

\* main.cpp:44: with every bus and every size of the queues, whenever the node is about to take
\* a frame it shows the altitude of the last message it took, its bytes swapped.
THEOREM AltitudeIsTheNewest == NodeSpec => []AltitudeIsNewestSwapped
<1>1. NodeInv => AltitudeIsNewestSwapped
  BY DEF NodeInv, MessagesReachApp, Quiet, Shown, AltitudeIsNewestSwapped
<1>2. QED
  BY <1>1, NodeStarts, NodeStepKeeps, PTL DEF NodeSpec

----------------------------------------------------------------------------
(***************************************************************************)
(* The node: the settings.  While a word is written its cells are those of *)
(* the last command, and the second of them is still to come.              *)
(***************************************************************************)
\* Bytes of the word ordered for a are still to be written: both, or the second.
Writing(a) ==
  /\ ordered[a] = ordered[Following(a)] /\ ordered[a].address = a
  /\ a \notin cut /\ Following(a) \notin cut
  /\ \/ put = BytesOf(a, ordered[a].word)
     \/ put = << <<Following(a), ordered[a].word \div 256>> >>

SettingsInv ==
  /\ DOMAIN eeprom = Memory /\ cut \subseteq Memory
  /\ step = "put" <=> put # <<>>
  /\ put # <<>> => \E a \in Memory : Writing(a)
  /\ SettingsAreOrdered

LEMMA MemoryMod ==
  ASSUME NEW x \in Nat
  PROVE  x % MemorySize \in 0 .. MemorySize - 1 /\ (x < MemorySize => x % MemorySize = x)
BY NodeAssumption DEF NodeAssumption

LEMMA CellFacts ==
  ASSUME NEW c \in Memory
  PROVE  Following(c) \in Memory /\ Following(c) # c
<1>1. MemorySize \in Nat \ {0, 1} /\ c \in Nat /\ c + 1 \in Nat /\ c < MemorySize
  BY NodeAssumption DEF NodeAssumption, Memory
<1>2. Following(c) \in Memory
  BY <1>1, MemoryMod DEF Following, Cell, Memory
<1>3. CASE c + 1 < MemorySize
  <2>1. (c + 1) % MemorySize = c + 1
    BY <1>1, <1>3, MemoryMod
  <2>2. QED
    BY <1>1, <1>2, <2>1 DEF Following, Cell
<1>4. CASE c + 1 = MemorySize
  <2>1. MemorySize % MemorySize = 0
    BY <1>1
  <2>2. QED
    BY <1>1, <1>2, <1>4, <2>1 DEF Following, Cell
<1>5. QED
  BY <1>1, <1>2, <1>3, <1>4

LEMMA SettingsStart == NodeInit => SettingsInv
<1> SUFFICES ASSUME NodeInit PROVE SettingsInv
  OBVIOUS
<1>1. /\ eeprom = [c \in Memory |-> 255] /\ ordered = [c \in Memory |-> Order(c, 65535)]
      /\ put = <<>> /\ step = "begin" /\ cut = {}
  BY DEF NodeInit
<1>2. \A c \in Memory : eeprom[c] = ByteFor(ordered[c], c)
  BY <1>1 DEF ByteFor, Order
<1>3. QED
  BY <1>1, <1>2 DEF SettingsInv, SettingsAreOrdered

\* Most steps write nothing.
LEMMA OthersKeepSettings ==
  ASSUME SettingsInv, UNCHANGED <<eeprom, put, ordered, cut>>, step' = "put" <=> step = "put"
  PROVE  SettingsInv'
BY DEF SettingsInv, SettingsAreOrdered, Unwritten, Writing, BytesOf

\* A command that sets a word orders both its cells, wherever they lie.
LEMMA CommandKeepsSettings ==
  ASSUME NodeInv, SettingsInv, TakeCommand
  PROVE  SettingsInv'
<1> DEFINE data == Head(chip).data
<1>1. /\ step = "raise" /\ Head(chip) \in Bus /\ IsForSelf(Head(chip))
  BY TakeFacts DEF TakeCommand
<1>2. Len(data) \in Nat /\ \A k \in 2 .. Len(data) : data[k] \in Byte
  BY <1>1, NodeAssumption DEF NodeAssumption, IsForSelf, IsCommand
<1> HIDE DEF data
<1>3. PICK stray \in [1 .. 5 -> Stray] :
        LET byte(k) == IF k + 2 <= Len(data) THEN data[k + 2] ELSE stray[k]
            address == 256 * byte(2) + byte(3)
            word    == 256 * byte(4) + byte(5)
            cell    == Cell(address)
            covered == {cell, Following(cell)}
            set     == byte(1) = SET_SETTING_VALUE
        IN /\ put' = IF set THEN BytesOf(cell, word) ELSE <<>>
           /\ ordered' = [c \in Memory |-> IF set /\ c \in covered THEN Order(cell, word) ELSE ordered[c]]
           /\ cut' = IF set THEN cut \ covered ELSE cut
           /\ step' = IF set THEN "put" ELSE "output"
  BY DEF TakeCommand, data
<1> DEFINE byte(k) == IF k + 2 <= Len(data) THEN data[k + 2] ELSE stray[k]
           address == 256 * byte(2) + byte(3)
           word    == 256 * byte(4) + byte(5)
           cell    == Cell(address)
           covered == {cell, Following(cell)}
           set     == byte(1) = SET_SETTING_VALUE
<1>4. /\ put' = IF set THEN BytesOf(cell, word) ELSE <<>>
      /\ ordered' = [c \in Memory |-> IF set /\ c \in covered THEN Order(cell, word) ELSE ordered[c]]
      /\ cut' = IF set THEN cut \ covered ELSE cut
      /\ step' = IF set THEN "put" ELSE "output"
  BY <1>3
<1>5. address \in Nat
  <2>1. ASSUME NEW k \in 1 .. 5 PROVE byte(k) \in Nat
    <3>1. stray[k] \in Byte /\ k \in Int /\ k + 2 >= 2
      BY NodeAssumption DEF NodeAssumption
    <3>2. CASE k + 2 <= Len(data)
      <4>1. k + 2 \in 2 .. Len(data)
        BY <1>2, <3>1, <3>2
      <4>2. byte(k) = data[k + 2] /\ data[k + 2] \in Byte
        BY <1>2, <3>2, <4>1
      <4> HIDE DEF byte
      <4>3. QED
        BY <4>2 DEF Byte
    <3>3. CASE ~(k + 2 <= Len(data))
      <4>1. byte(k) = stray[k]
        BY <3>3
      <4> HIDE DEF byte
      <4>2. QED
        BY <3>1, <4>1 DEF Byte
    <3>4. QED
      BY <3>2, <3>3
  <2>2. byte(2) \in Nat /\ byte(3) \in Nat
    BY <2>1
  <2> HIDE DEF byte
  <2>3. QED
    BY <2>2
<1> HIDE DEF word, set, address
<1>6. cell \in Memory /\ Following(cell) \in Memory /\ Following(cell) # cell
  <2>1. cell \in Memory
    BY <1>5, MemoryMod DEF Cell, Memory
  <2> HIDE DEF cell
  <2>2. QED
    BY <2>1, CellFacts
<1> HIDE DEF cell
<1>7. /\ put = <<>> /\ eeprom' = eeprom /\ DOMAIN eeprom = Memory /\ Unwritten = {}
      /\ \A c \in Memory \ cut : eeprom[c] = ByteFor(ordered[c], c)
      /\ \A c \in cut : ordered[c].address = c /\ ordered[Following(c)] = ordered[c]
                          => Following(c) \in cut
      /\ cut \subseteq Memory
  <2>1. put = <<>> /\ eeprom' = eeprom /\ DOMAIN eeprom = Memory /\ cut \subseteq Memory
    BY <1>1 DEF SettingsInv, TakeCommand, Take
  <2>2. Unwritten = {}
    BY <2>1 DEF Unwritten
  <2>3. QED
    BY <2>1, <2>2 DEF SettingsInv, SettingsAreOrdered
<1>8. CASE set
  <2>0. PICK a \in Memory, w \in {word} : a = cell /\ w = word
    BY <1>6
  <2>1. /\ put' = BytesOf(a, w) /\ step' = "put" /\ cut' = cut \ {a, Following(a)}
        /\ \A c \in Memory : ordered'[c] = IF c \in {a, Following(a)} THEN Order(a, w) ELSE ordered[c]
    BY ONLY <1>4, <1>8, <2>0
  <2>2. ordered'[a] = Order(a, w) /\ ordered'[Following(a)] = Order(a, w)
    BY <1>6, <2>0, <2>1
  <2>3. put' # <<>> /\ Unwritten' = {a, Following(a)}
    BY <2>1 DEF BytesOf, Unwritten
  <2>4. Writing(a)'
    BY <2>1, <2>2 DEF Writing, Order
  <2>5. \A c \in Memory \ (cut' \union Unwritten') : eeprom'[c] = ByteFor(ordered'[c], c)
    BY <1>7, <2>1, <2>3
  <2>6. ASSUME NEW c \in cut', ordered'[c].address = c, ordered'[Following(c)] = ordered'[c]
        PROVE  Following(c) \in cut'
    <3>1. c \in cut /\ c \notin {a, Following(a)} /\ c \in Memory /\ Following(c) \in Memory
      BY <1>7, <2>1, CellFacts
    <3>2. ordered'[c] = ordered[c]
      BY <2>1, <3>1
    <3>3. Following(c) \notin {a, Following(a)}
      BY <2>1, <2>6, <3>1 DEF Order
    <3>4. QED
      BY <1>7, <2>1, <2>6, <3>1, <3>2, <3>3
  <2>7. SettingsAreOrdered'
    BY <2>5, <2>6 DEF SettingsAreOrdered
  <2>8. cut' \subseteq Memory /\ DOMAIN eeprom' = Memory
    BY <1>7, <2>1
  <2>9. QED
    BY <2>0, <2>1, <2>3, <2>4, <2>7, <2>8 DEF SettingsInv
<1>9. CASE ~set
  <2>1. /\ put' = <<>> /\ step' = "output" /\ cut' = cut
        /\ \A c \in Memory : ordered'[c] = ordered[c]
    BY ONLY <1>4, <1>9
  <2>2. Unwritten' = {}
    BY <2>1 DEF Unwritten
  <2>3. \A c \in cut : ordered'[c] = ordered[c] /\ ordered'[Following(c)] = ordered[Following(c)]
    BY <1>7, <2>1, CellFacts
  <2>4. SettingsAreOrdered'
    BY <1>7, <2>1, <2>2, <2>3 DEF SettingsAreOrdered
  <2>5. QED
    BY <1>7, <2>1, <2>4 DEF SettingsInv
<1>10. QED
  BY <1>8, <1>9

\* Both bytes together are the word.
LEMMA PutKeepsSettings ==
  ASSUME SettingsInv, PutByte
  PROVE  SettingsInv'
<1>1. /\ step = "put" /\ put # <<>> /\ eeprom' = [eeprom EXCEPT ![put[1][1]] = put[1][2]]
      /\ put' = Tail(put) /\ step' = (IF Len(put) = 1 THEN "output" ELSE step)
      /\ ordered' = ordered /\ cut' = cut /\ cut \subseteq Memory
      /\ DOMAIN eeprom = Memory /\ DOMAIN eeprom' = Memory
  BY DEF PutByte, SettingsInv
<1>2. PICK a \in Memory : Writing(a)
  BY <1>1 DEF SettingsInv
<1>3. /\ Following(a) \in Memory /\ Following(a) # a
      /\ ordered[Following(a)] = ordered[a] /\ ordered[a].address = a
  BY <1>2, CellFacts DEF Writing
<1>4. /\ ByteFor(ordered[a], a) = ordered[a].word % 256
      /\ ByteFor(ordered[Following(a)], Following(a)) = ordered[a].word \div 256
  BY <1>3 DEF ByteFor
<1>5. CASE put = BytesOf(a, ordered[a].word)
  <2>1. /\ put[1] = <<a, ordered[a].word % 256>> /\ Len(put) = 2
        /\ Tail(put) = << <<Following(a), ordered[a].word \div 256>> >>
        /\ Unwritten = {a, Following(a)}
    BY <1>5 DEF BytesOf, Unwritten
  <2>2. /\ eeprom' = [eeprom EXCEPT ![a] = ordered[a].word % 256] /\ step' = "put"
        /\ put' = << <<Following(a), ordered[a].word \div 256>> >>
    <3>1. put[1][1] = a /\ put[1][2] = ordered[a].word % 256
      BY <2>1
    <3>2. step' = "put" /\ put' = << <<Following(a), ordered[a].word \div 256>> >>
      BY <1>1, <2>1
    <3>3. QED
      BY <1>1, <3>1, <3>2
  <2>3. put' # <<>> /\ Unwritten' = {Following(a)}
    BY <2>2 DEF Unwritten
  <2>4. Writing(a)'
    BY <1>1, <1>2, <2>2 DEF Writing
  <2>5. \A c \in Memory \ (cut \union {Following(a)}) : eeprom'[c] = ByteFor(ordered[c], c)
    BY <1>1, <1>4, <2>1, <2>2 DEF SettingsInv, SettingsAreOrdered
  <2>6. SettingsAreOrdered'
    BY <1>1, <2>3, <2>5 DEF SettingsInv, SettingsAreOrdered
  <2>7. QED
    BY <1>1, <2>2, <2>3, <2>4, <2>6 DEF SettingsInv
<1>6. CASE put = << <<Following(a), ordered[a].word \div 256>> >>
  <2>1. /\ put[1] = <<Following(a), ordered[a].word \div 256>> /\ Len(put) = 1 /\ Tail(put) = <<>>
        /\ Unwritten = {Following(a)}
    BY <1>6 DEF Unwritten
  <2>2. /\ eeprom' = [eeprom EXCEPT ![Following(a)] = ordered[a].word \div 256]
        /\ step' = "output" /\ put' = <<>>
    BY <1>1, <2>1
  <2>3. Unwritten' = {}
    BY <2>2 DEF Unwritten
  <2>4. \A c \in Memory \ cut : eeprom'[c] = ByteFor(ordered[c], c)
    BY <1>1, <1>3, <1>4, <2>1, <2>2 DEF SettingsInv, SettingsAreOrdered
  <2>5. SettingsAreOrdered'
    BY <1>1, <2>3, <2>4 DEF SettingsInv, SettingsAreOrdered
  <2>6. QED
    BY <1>1, <2>2, <2>5 DEF SettingsInv
<1>7. QED
  BY <1>2, <1>5, <1>6 DEF Writing

\* What was under way is cut: of a word whose low byte was to come the high byte was too.
LEMMA LossKeepsSettings ==
  ASSUME SettingsInv, PowerLoss
  PROVE  SettingsInv'
<1>1. /\ put' = <<>> /\ step' = "begin" /\ eeprom' = eeprom /\ ordered' = ordered
      /\ cut' = cut \union Unwritten /\ cut \subseteq Memory /\ DOMAIN eeprom = Memory
  BY DEF PowerLoss, SettingsInv
<1>2. Unwritten' = {}
  BY <1>1 DEF Unwritten
<1>3. /\ Unwritten \subseteq Memory
      /\ \A c \in Unwritten : ordered[c].address = c => Following(c) \in Unwritten
  <2>1. CASE put = <<>>
    BY <2>1 DEF Unwritten
  <2>2. CASE put # <<>>
    <3>1. PICK a \in Memory : Writing(a)
      BY <2>2 DEF SettingsInv
    <3>2. Following(a) \in Memory /\ Following(a) # a
      BY CellFacts
    <3>3. Unwritten \in {{a, Following(a)}, {Following(a)}} /\ Following(a) \in Unwritten
      BY <3>1 DEF Writing, BytesOf, Unwritten
    <3>4. ordered[Following(a)].address # Following(a)
      BY <3>1, <3>2 DEF Writing
    <3>5. QED
      BY <3>2, <3>3, <3>4
  <2>3. QED
    BY <2>1, <2>2
<1>4. SettingsAreOrdered'
  BY <1>1, <1>2, <1>3 DEF SettingsInv, SettingsAreOrdered
<1>5. QED
  BY <1>1, <1>3, <1>4 DEF SettingsInv

LEMMA NodeStepKeepsSettings ==
  ASSUME NodeInv, SettingsInv, [NodeNext(Bus)]_<<managerVars, nodeVars>>
  PROVE  SettingsInv'
<1>1. ASSUME NEW ok \in BOOLEAN, TryBegin(ok) PROVE SettingsInv'
  BY <1>1, OthersKeepSettings DEF TryBegin
<1>2. CASE HandleEvents \/ EventsHandled \/ NothingTaken
  BY <1>2, OthersKeepSettings DEF HandleEvents, EventsHandled, NothingTaken
<1>3. CASE Handling \/ RemoteRequest
  BY <1>3, OthersKeepSettings DEF Handling, RemoteRequest, nodeVars
<1>4. CASE CanError \/ DataReceivedHandler
  BY <1>4, OthersKeepSettings DEF CanError, DataReceivedHandler
<1>5. CASE TakeOther \/ TakeMessage
  BY <1>5, OthersKeepSettings DEF TakeOther, TakeMessage, Take
<1>6. CASE TakeCommand
  BY <1>6, CommandKeepsSettings
<1>7. CASE PutByte
  BY <1>7, PutKeepsSettings
<1>8. ASSUME NEW due \in BOOLEAN, Output(due) PROVE SettingsInv'
  BY <1>8, OthersKeepSettings DEF Output
<1>9. CASE PowerLoss
  BY <1>9, LossKeepsSettings
<1>10. ASSUME NEW f \in Bus, Receive(f) PROVE SettingsInv'
  BY <1>10, OthersKeepSettings DEF Receive
<1>11. CASE UNCHANGED <<managerVars, nodeVars>>
  BY <1>11, OthersKeepSettings DEF nodeVars
<1>12. QED
  BY <1>1, <1>2, <1>3, <1>4, <1>5, <1>6, <1>7, <1>8, <1>9, <1>10, <1>11 DEF NodeNext, NodeStep

\* CanSensor.cpp:328: for every size of the memory and every mix of commands, misaddressed and
\* short ones too, each byte that is not under way and that no loss of power took is that of the
\* last command that covered it, and a word torn by a loss of power has a new low byte.
THEOREM SettingsStayOrdered == NodeSpec => []SettingsAreOrdered
<1>1. SettingsInv => SettingsAreOrdered
  BY DEF SettingsInv
<1>2. QED
  BY <1>1, NodeStarts, NodeStepKeeps, SettingsStart, NodeStepKeepsSettings, PTL DEF NodeSpec
=============================================================================
