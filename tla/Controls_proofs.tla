--------------------------- MODULE Controls_proofs ---------------------------
(***************************************************************************)
(* For every size of the queues and of the table, every set of events,     *)
(* clock width, debounce time and travel of the knob: the event manager    *)
(* under interrupts and listeners that call it, and the controls that poll *)
(* and queue.                                                              *)
(***************************************************************************)
EXTENDS Controls, FiniteSetTheorems, SequenceTheorems, WellFoundedInduction, TLAPS

Event == [code : Int, param : Int]

\* The tail is where the count puts it.
QueueOf ==
  {q \in [events : [Cells -> Event], head : Cells, tail : Cells, num : 0 .. kEventQueueSize] :
     q.tail = (q.head + q.num) % kEventQueueSize}

Calls == [pc : {"app", "key", "test", "pop", "send", "callback"}, all : BOOLEAN, pri : Priorities,
          at : Nat, handled : BOOLEAN, event : Event]

Turns == [owed : SUBSET Callbacks, told : SUBSET Callbacks, shifted : BOOLEAN]

ManagerTypeOK ==
  /\ queues \in [Priorities -> QueueOf] /\ mListeners \in Seq(ListenerItem)
  /\ call \in Calls /\ highDue \in Nat /\ turn \in Turns

\* Only the call under way takes events, so what its test saw is still there.
PopFindsEvent == call.pc = "pop" => queues[call.pri].num > 0

\* While high events are taken, those due are among those waiting; then none is due.
HighCounted ==
  call.pc \notin {"app", "key"} =>
    /\ call.pri = "high" => highDue <= queues["high"].num
    /\ call.pri = "low" /\ call.all => highDue = 0

\* Whoever is owed the event has an entry the loop has still to come to.
OwedAreDue ==
  Dispatching /\ ~turn.shifted =>
    \A cb \in turn.owed \ turn.told :
      \E k \in DOMAIN mListeners : Due(k) /\ mListeners[k].callback = cb

ManagerInv == ManagerTypeOK /\ PopFindsEvent /\ HighCounted /\ OwedAreDue

ControlTypeOK ==
  /\ now \in 0 .. ClockMod - 1 /\ lastDebounceTime \in 0 .. ClockMod - 1 /\ idle \in Nat
  /\ keyDown \in BOOLEAN /\ lastState \in BOOLEAN /\ buttonState \in BOOLEAN
  /\ begun \in BOOLEAN /\ raced \in BOOLEAN /\ missed \in BOOLEAN /\ refused \in BOOLEAN
  /\ wiring \in {"button", "encoder", "both"} /\ errorCode \in 0 .. 2
  /\ phase \in 0 .. MaxPhase /\ origin \in 0 .. MaxPhase /\ seen \in 0 .. NotSeen
  /\ lastRotaryState \in BOOLEAN /\ rotaryCounter \in -(MaxCounter + 1) .. MaxCounter + 1
  /\ lastRotaryCounter \in Int /\ lastKey \in {KeyPress, KeyRelease} /\ steady \in Nat
  /\ wasReset \in BOOLEAN

\* A key seen down has been so for at least as long as the debounce time says.
DebounceIsSteady == lastState => Since(now) <= steady \/ steady > debounceDelay

\* The count at a phase the knob was turned to without a phase missed.
CountAt(p) == Edges(p) - Edges(origin) + (IF PinB(origin) # PinA(origin) THEN 1 ELSE -1)

\* Before the first count Begin() has taken the level of A for its closing.
CountIsOfSeen ==
  HasEncoder /\ begun /\ ~missed /\ ~refused =>
    IF seen = NotSeen
    THEN phase = origin /\ rotaryCounter = 0 /\ lastRotaryState = ~PinA(origin)
    ELSE /\ seen \in phase - 1 .. phase + 1 /\ rotaryCounter = CountAt(seen)
         /\ lastRotaryState = PinA(seen)

\* Nobody is told of a key before Begin().
KeyTold == EventsTellState /\ (~begun => lastKey = KeyRelease)

ControlInv == ControlTypeOK /\ DebounceIsSteady /\ CountIsOfSeen /\ KeyTold

----------------------------------------------------------------------------
(***************************************************************************)
(* The ring.  Sums of a cell and a count wrap at most once.                *)
(***************************************************************************)
LEMMA ModSmall ==
  ASSUME NEW n \in Nat \ {0}, NEW x \in 0 .. n - 1
  PROVE  x % n = x
OBVIOUS

LEMMA ModWrap ==
  ASSUME NEW n \in Nat \ {0}, NEW x \in n .. 2 * n - 1
  PROVE  x % n = x - n
OBVIOUS

LEMMA ModMinus ==
  ASSUME NEW n \in Nat \ {0}, NEW x \in -n .. -1
  PROVE  x % n = x + n
OBVIOUS

\* The cell k places after h.
CellAt(h, k) == (h + k) % kEventQueueSize

LEMMA CellAhead ==
  ASSUME NEW h \in Cells, NEW k \in 0 .. kEventQueueSize
  PROVE  /\ CellAt(h, k) \in Cells
         /\ CellAt(h, k) = IF h + k < kEventQueueSize THEN h + k ELSE h + k - kEventQueueSize
<1> USE QueueSizeAssumption DEF QueueSizeAssumption, Cells, CellAt
<1>1. CASE h + k < kEventQueueSize
  BY <1>1, ModSmall
<1>2. CASE h + k >= kEventQueueSize
  <2>1. h + k \in kEventQueueSize .. 2 * kEventQueueSize - 1
    BY <1>2
  <2>2. QED
    BY <1>2, <2>1, ModWrap
<1>3. QED
  BY <1>1, <1>2

LEMMA CellSteps ==
  ASSUME NEW h \in Cells
  PROVE  /\ CellAt(h, 0) = h
         /\ \A k \in 0 .. kEventQueueSize - 1 : /\ CellAt(CellAt(h, 1), k) = CellAt(h, k + 1)
                                                /\ CellAt(CellAt(h, k), 1) = CellAt(h, k + 1)
         /\ \A j, k \in 0 .. kEventQueueSize - 1 : CellAt(h, j) = CellAt(h, k) => j = k
<1> USE QueueSizeAssumption DEF QueueSizeAssumption, Cells
<1>1. /\ \A k \in 0 .. kEventQueueSize - 1 : k \in 0 .. kEventQueueSize /\ k + 1 \in 0 .. kEventQueueSize
      /\ 1 \in 0 .. kEventQueueSize
  OBVIOUS
<1>2. \A k \in 0 .. kEventQueueSize - 1 : CellAt(h, k) = IF h + k < kEventQueueSize THEN h + k
                                                         ELSE h + k - kEventQueueSize
  BY <1>1, CellAhead
<1>3. CellAt(h, 0) = h
  BY <1>2
<1>4. \A j, k \in 0 .. kEventQueueSize - 1 : CellAt(h, j) = CellAt(h, k) => j = k
  BY <1>2
<1>5. ASSUME NEW k \in 0 .. kEventQueueSize - 1
      PROVE  CellAt(CellAt(h, 1), k) = CellAt(h, k + 1) /\ CellAt(CellAt(h, k), 1) = CellAt(h, k + 1)
  <2>1. /\ CellAt(h, 1) \in Cells /\ CellAt(h, k) \in Cells
        /\ CellAt(h, 1) = IF h + 1 < kEventQueueSize THEN h + 1 ELSE h + 1 - kEventQueueSize
        /\ CellAt(h, k) = IF h + k < kEventQueueSize THEN h + k ELSE h + k - kEventQueueSize
        /\ CellAt(h, k + 1) = IF h + (k + 1) < kEventQueueSize THEN h + (k + 1)
                              ELSE h + (k + 1) - kEventQueueSize
    BY <1>1, CellAhead
  <2>2. /\ CellAt(CellAt(h, 1), k) = IF CellAt(h, 1) + k < kEventQueueSize THEN CellAt(h, 1) + k
                                     ELSE CellAt(h, 1) + k - kEventQueueSize
        /\ CellAt(CellAt(h, k), 1) = IF CellAt(h, k) + 1 < kEventQueueSize THEN CellAt(h, k) + 1
                                     ELSE CellAt(h, k) + 1 - kEventQueueSize
    BY <1>1, <2>1, CellAhead
  <2>3. QED
    BY <2>1, <2>2
<1>6. QED
  BY <1>3, <1>4, <1>5

LEMMA QueueFacts ==
  ASSUME NEW q \in QueueOf
  PROVE  /\ kEventQueueSize \in Nat \ {0} /\ q.head \in Cells /\ q.tail \in Cells
         /\ q.num \in 0 .. kEventQueueSize /\ q.events \in [Cells -> Event]
         /\ q.tail = CellAt(q.head, q.num)
         /\ q = [events |-> q.events, head |-> q.head, tail |-> q.tail, num |-> q.num]
BY QueueSizeAssumption DEF QueueSizeAssumption, QueueOf, CellAt

LEMMA PendingIs ==
  ASSUME NEW q \in QueueOf
  PROVE  /\ Pending(q) = [k \in 1 .. q.num |-> q.events[CellAt(q.head, k - 1)]]
         /\ Pending(q) \in Seq(Event) /\ Len(Pending(q)) = q.num
<1>1. \A k \in 1 .. q.num : q.head + k - 1 = q.head + (k - 1) /\ k - 1 \in 0 .. kEventQueueSize
  BY QueueFacts DEF Cells
<1>2. Pending(q) = [k \in 1 .. q.num |-> q.events[CellAt(q.head, k - 1)]]
  BY <1>1 DEF Pending, CellAt
<1>3. \A k \in 1 .. q.num : q.events[CellAt(q.head, k - 1)] \in Event
  BY <1>1, QueueFacts, CellAhead
<1>4. QED
  BY <1>2, <1>3, QueueFacts

LEMMA EmptyQueueType == EmptyQueue \in QueueOf /\ Pending(EmptyQueue) = <<>>
<1>1. 0 \in Cells /\ 0 \in 0 .. kEventQueueSize /\ (0 + 0) % kEventQueueSize = 0
  BY QueueSizeAssumption, ModSmall DEF QueueSizeAssumption, Cells
<1>2. QED
  BY <1>1 DEF EmptyQueue, QueueOf, Event, Pending, kEventNone

\* queueEvent() with room left appends to what is pending.
LEMMA QueueAccepts ==
  ASSUME NEW q \in QueueOf, NEW e \in Event, ~isFull(q)
  PROVE  /\ queueEvent(q, e) \in QueueOf /\ queueEvent(q, e).num = q.num + 1
         /\ Pending(queueEvent(q, e)) = Append(Pending(q), e)
         /\ Len(Pending(q)) < kEventQueueSize
<1> DEFINE r == queueEvent(q, e)
<1>0. q.num \in 0 .. kEventQueueSize - 1
  BY QueueFacts DEF isFull
<1>1. r = [events |-> [q.events EXCEPT ![q.tail] = e], head |-> q.head,
           tail |-> CellAt(q.tail, 1), num |-> q.num + 1]
  BY DEF queueEvent, QueueOf, CellAt
<1>2. /\ r.events = [q.events EXCEPT ![q.tail] = e] /\ r.head = q.head
      /\ r.tail = CellAt(q.tail, 1) /\ r.num = q.num + 1
  BY <1>1
<1>3. CellAt(q.tail, 1) \in Cells /\ CellAt(q.tail, 1) = CellAt(q.head, q.num + 1)
  <2>1. CellAt(q.tail, 1) = CellAt(q.head, q.num + 1)
    BY <1>0, QueueFacts, CellSteps
  <2>2. CellAt(q.tail, 1) \in Cells
    BY QueueFacts, CellAhead
  <2>3. QED
    BY <2>1, <2>2
<1>4. r \in QueueOf
  BY <1>0, <1>1, <1>3, QueueFacts DEF QueueOf, CellAt
<1>5. \A k \in 1 .. q.num : CellAt(q.head, k - 1) \in Cells \ {q.tail}
  <2> TAKE k \in 1 .. q.num
  <2>1. k - 1 \in 0 .. kEventQueueSize - 1 /\ k - 1 \in 0 .. kEventQueueSize /\ k - 1 # q.num
    BY <1>0, QueueFacts
  <2>2. CellAt(q.head, k - 1) \in Cells
    BY <2>1, QueueFacts, CellAhead
  <2>3. CellAt(q.head, k - 1) # CellAt(q.head, q.num)
    BY <1>0, <2>1, QueueFacts, CellSteps
  <2>4. QED
    BY <2>2, <2>3, QueueFacts
<1>6. \A k \in 1 .. q.num : r.events[CellAt(q.head, k - 1)] = q.events[CellAt(q.head, k - 1)]
  BY <1>2, <1>5, QueueFacts
<1>7. r.events[CellAt(q.head, q.num)] = e
  BY <1>2, QueueFacts
<1>8. \A k \in 1 .. q.num + 1 : Pending(r)[k] = IF k <= q.num THEN Pending(q)[k] ELSE e
  <2> TAKE k \in 1 .. q.num + 1
  <2> HIDE DEF r
  <2>0. k \in 1 .. r.num
    BY <1>0, <1>2
  <2>a. Pending(r) = [j \in 1 .. r.num |-> r.events[CellAt(r.head, j - 1)]]
    BY <1>4, PendingIs
  <2>1. Pending(r)[k] = r.events[CellAt(q.head, k - 1)]
    BY <1>2, <2>0, <2>a
  <2>2. CASE k <= q.num
    BY <1>0, <1>6, <2>1, <2>2, PendingIs
  <2>3. CASE k = q.num + 1
    <3>1. k - 1 = q.num
      BY <1>0, <2>3
    <3>2. QED
      BY <1>0, <1>7, <2>1, <2>3, <3>1
  <2>4. QED
    BY <1>0, <2>2, <2>3
<1>9. Pending(r) = Append(Pending(q), e)
  <2>1. Pending(r) \in Seq(Event) /\ Len(Pending(r)) = q.num + 1
    BY <1>2, <1>4, PendingIs
  <2>2. Append(Pending(q), e) \in Seq(Event) /\ Len(Append(Pending(q), e)) = q.num + 1
    BY PendingIs, AppendProperties
  <2>3. \A k \in 1 .. q.num + 1 : Append(Pending(q), e)[k] = IF k <= q.num THEN Pending(q)[k] ELSE e
    BY <1>0, PendingIs, AppendProperties
  <2> HIDE DEF r
  <2>4. QED
    BY <1>8, <2>1, <2>2, <2>3, SeqEqual
<1>10. QED
  BY <1>0, <1>2, <1>4, <1>9, PendingIs, QueueFacts

LEMMA QueueRefuses ==
  ASSUME NEW q, NEW e, isFull(q)
  PROVE  queueEvent(q, e) = q
BY DEF queueEvent

\* popEvent() on a queue that is not empty takes what front() returned off its head.
LEMMA QueueHandsOut ==
  ASSUME NEW q \in QueueOf, q.num > 0
  PROVE  /\ popEvent(q) \in QueueOf /\ popEvent(q).num = q.num - 1 /\ front(q) \in Event
         /\ Pending(q) # <<>> /\ front(q) = Head(Pending(q))
         /\ Pending(popEvent(q)) = Tail(Pending(q))
<1> DEFINE r == popEvent(q)
           blank == [q.events[q.head] EXCEPT !.code = kEventNone]
<1>0. q.num \in 1 .. kEventQueueSize
  BY QueueFacts
<1>1. q.events[q.head] \in Event /\ blank \in Event
  BY QueueFacts DEF Event, kEventNone
<1>2. /\ r.events = [q.events EXCEPT ![q.head] = blank] /\ r.tail = q.tail
      /\ r.head = CellAt(q.head, 1) /\ r.num = q.num - 1
      /\ r = [events |-> r.events, head |-> r.head, tail |-> r.tail, num |-> r.num]
  <2>1. q \in [events : [Cells -> Event], head : Cells, tail : Cells, num : 0 .. kEventQueueSize]
    BY DEF QueueOf
  <2>2. r.events = [q.events EXCEPT ![q.head] = blank]
    BY <2>1 DEF popEvent
  <2>3. r.tail = q.tail /\ r.head = CellAt(q.head, 1) /\ r.num = q.num - 1
    BY <2>1 DEF popEvent, CellAt
  <2>4. r = [events |-> r.events, head |-> r.head, tail |-> r.tail, num |-> r.num]
    <3>1. r = [q EXCEPT !.events = r.events, !.num = r.num, !.head = r.head]
      BY <2>1 DEF popEvent
    <3> HIDE DEF r
    <3>2. QED
      BY <2>1, <2>3, <3>1
  <2>5. QED
    BY <2>2, <2>3, <2>4
<1>3. /\ CellAt(q.head, 1) \in Cells
      /\ \A k \in 1 .. q.num : CellAt(CellAt(q.head, 1), k - 1) = CellAt(q.head, k)
  <2>1. CellAt(q.head, 1) \in Cells
    BY <1>0, QueueFacts, CellAhead
  <2>2. ASSUME NEW k \in 1 .. q.num PROVE CellAt(CellAt(q.head, 1), k - 1) = CellAt(q.head, k)
    <3>1. k - 1 \in 0 .. kEventQueueSize - 1 /\ (k - 1) + 1 = k
      BY <1>0, QueueFacts
    <3>2. QED
      BY <3>1, QueueFacts, CellSteps
  <2>3. QED
    BY <2>1, <2>2
<1>5. r \in QueueOf
  <2>1. [q.events EXCEPT ![q.head] = blank] \in [Cells -> Event]
    BY <1>1, QueueFacts
  <2>2. q.tail = CellAt(CellAt(q.head, 1), q.num - 1) /\ q.num - 1 \in 0 .. kEventQueueSize
    BY <1>0, <1>3, QueueFacts
  <2>3. QED
    BY <1>2, <1>3, <2>1, <2>2, QueueFacts DEF QueueOf, CellAt
<1>6. Pending(q)[1] = q.events[q.head]
  <2>1. CellAt(q.head, 1 - 1) = q.head
    BY QueueFacts, CellSteps
  <2>2. QED
    BY <1>0, <2>1, PendingIs
<1>7. \A k \in 1 .. q.num - 1 : Pending(r)[k] = Pending(q)[k + 1]
  <2> TAKE k \in 1 .. q.num - 1
  <2>1. /\ k \in 1 .. q.num /\ k \in 0 .. kEventQueueSize - 1 /\ k \in 0 .. kEventQueueSize
        /\ k + 1 \in 1 .. q.num /\ (k + 1) - 1 = k /\ 0 \in 0 .. kEventQueueSize - 1
    BY <1>0, QueueFacts
  <2>2. CellAt(q.head, k) \in Cells \ {q.head}
    BY <1>0, <2>1, QueueFacts, CellAhead, CellSteps
  <2>3. r.events[CellAt(q.head, k)] = q.events[CellAt(q.head, k)]
    BY <1>2, <2>2, QueueFacts
  <2>4. Pending(r)[k] = r.events[CellAt(q.head, k)]
    <3> HIDE DEF r
    <3>1. k \in 1 .. r.num
      BY <1>0, <1>2
    <3>2. Pending(r)[k] = r.events[CellAt(r.head, k - 1)]
      BY <1>5, <3>1, PendingIs
    <3>3. QED
      BY <1>2, <1>3, <2>1, <3>2
  <2>5. Pending(q)[k + 1] = q.events[CellAt(q.head, k)]
    BY <2>1, PendingIs
  <2>6. QED
    BY <2>3, <2>4, <2>5
<1>8. Pending(r) = Tail(Pending(q))
  <2>1. Pending(q) \in Seq(Event) /\ Pending(q) # <<>> /\ Len(Pending(q)) = q.num
    BY <1>0, PendingIs
  <2>2. Pending(r) \in Seq(Event) /\ Len(Pending(r)) = q.num - 1
    BY <1>2, <1>5, PendingIs
  <2>3. /\ Tail(Pending(q)) \in Seq(Event) /\ Len(Tail(Pending(q))) = q.num - 1
        /\ \A k \in 1 .. q.num - 1 : Tail(Pending(q))[k] = Pending(q)[k + 1]
    BY <1>0, <2>1, HeadTailProperties
  <2> HIDE DEF r
  <2>4. QED
    BY <1>7, <2>2, <2>3, SeqEqual
<1>9. Pending(q) # <<>> /\ Head(Pending(q)) = Pending(q)[1]
  BY <1>0, PendingIs
<1>10. QED
  BY <1>1, <1>2, <1>5, <1>6, <1>8, <1>9 DEF front

----------------------------------------------------------------------------
(***************************************************************************)
(* The table of listeners: the first entry that matches, a table without   *)
(* an entry, a table without a function.                                   *)
(***************************************************************************)

\* A set of numbers that is not empty has a least one: of the intervals that end in the set
\* one holds no other.
LEMMA LeastNumber ==
  ASSUME NEW T \in SUBSET Nat, T # {}
  PROVE  \E x \in T : \A y \in T : x <= y
<1> DEFINE U == {0 .. n : n \in T}
<1>1. IsWellFoundedOn(StrictSubsetOrdering(Nat), FiniteSubsetsOf(Nat))
  BY FS_StrictSubsetOrderingWellFounded
<1>2. U \subseteq FiniteSubsetsOf(Nat)
  <2>1. ASSUME NEW n \in T PROVE 0 .. n \in FiniteSubsetsOf(Nat)
    <3>1. IsFiniteSet(0 .. n)
      BY FS_Interval
    <3>2. 0 .. n \subseteq Nat
      OBVIOUS
    <3>3. QED
      BY <3>1, <3>2 DEF FiniteSubsetsOf
  <2>2. QED
    BY <2>1
<1>3. U # {}
  OBVIOUS
<1>4. \E x \in U : \A y \in U : ~ (<<y, x>> \in StrictSubsetOrdering(Nat))
  <2> HIDE DEF U
  <2> QED
    BY <1>1, <1>2, <1>3, WFMin
<1>5. PICK n \in T : \A m \in T : ~ (<<0 .. m, 0 .. n>> \in StrictSubsetOrdering(Nat))
  BY <1>4
<1>6. ASSUME NEW m \in T, m < n
      PROVE  FALSE
  <2>1. 0 .. m \in SUBSET (0 .. n)
    BY <1>6
  <2>2. 0 .. m # 0 .. n
    <3>1. n \in 0 .. n /\ n \notin 0 .. m
      BY <1>6
    <3>2. QED
      BY <3>1
  <2>3. 0 .. m \in SUBSET Nat /\ 0 .. n \in SUBSET Nat
    OBVIOUS
  <2>4. <<0 .. m, 0 .. n>> \in StrictSubsetOrdering(Nat)
    BY <2>1, <2>2, <2>3 DEF StrictSubsetOrdering
  <2>5. QED
    BY <1>5, <2>4
<1>7. QED
  BY <1>6

LEMMA MinIsLeast ==
  ASSUME NEW T \in SUBSET Nat, T # {}
  PROVE  Min(T) \in T /\ \A y \in T : Min(T) <= y
<1>1. \E x \in T : \A y \in T : x <= y
  BY LeastNumber
<1>2. QED
  BY <1>1, Zenon DEF Min

IsEntry(l, code, cb) == l.eventCode = code /\ l.callback = cb

LEMMA SearchFinds ==
  ASSUME mListeners \in Seq(ListenerItem), NEW code, NEW cb, searchListeners(code, cb) > 0
  PROVE  LET s == searchListeners(code, cb)
         IN  /\ s \in 1 .. Len(mListeners) /\ IsEntry(mListeners[s], code, cb)
             /\ \A k \in 1 .. s - 1 : ~IsEntry(mListeners[k], code, cb)
<1> DEFINE I == {i \in 1 .. Len(mListeners) : IsEntry(mListeners[i], code, cb)}
<1>1. searchListeners(code, cb) = IF I # {} THEN Min(I) ELSE 0
  BY DEF searchListeners, SelectInSeq, IsEntry
<1>2. I # {} /\ I \in SUBSET Nat
  BY <1>1
<1>3. Min(I) \in I /\ \A y \in I : Min(I) <= y
  BY <1>2, MinIsLeast
<1>4. Len(mListeners) \in Nat
  OBVIOUS
<1> DEFINE s == searchListeners(code, cb)
<1>5. s = Min(I)
  BY <1>1, <1>2
<1>6. s \in I /\ \A y \in I : s <= y
  BY <1>3, <1>5
<1> HIDE DEF s
<1>7. \A k \in 1 .. s - 1 : ~IsEntry(mListeners[k], code, cb)
  <2> SUFFICES ASSUME NEW k \in 1 .. s - 1, IsEntry(mListeners[k], code, cb)
               PROVE  FALSE
    OBVIOUS
  <2>1. k \in I
    BY <1>4, <1>6
  <2>2. QED
    BY <1>4, <1>6, <2>1
<1>8. QED
  BY <1>6, <1>7 DEF s

LEMMA EntryRemoved ==
  ASSUME NEW t \in Seq(ListenerItem), NEW s \in 1 .. Len(t)
  PROVE  /\ RemoveAt(t, s) \in Seq(ListenerItem) /\ Len(RemoveAt(t, s)) = Len(t) - 1
         /\ \A k \in 1 .. Len(t) - 1 : RemoveAt(t, s)[k] = IF k < s THEN t[k] ELSE t[k + 1]
<1>1. \A k \in 1 .. Len(t) : t[k] \in ListenerItem
  OBVIOUS
<1> DEFINE a == SubSeq(t, 1, s - 1)
           b == SubSeq(t, s + 1, Len(t))
<1>2. /\ a \in Seq(ListenerItem) /\ Len(a) = s - 1
      /\ \A k \in 1 .. s - 1 : a[k] = t[k]
  BY <1>1, SubSeqProperties
<1>3. /\ b \in Seq(ListenerItem) /\ Len(b) = Len(t) - s
      /\ \A k \in 1 .. Len(t) - s : b[k] = t[s + k]
  BY <1>1, SubSeqProperties
<1> HIDE DEF a, b
<1>4. /\ a \o b \in Seq(ListenerItem) /\ Len(a \o b) = Len(t) - 1
      /\ \A k \in 1 .. Len(t) - 1 : (a \o b)[k] = IF k <= s - 1 THEN a[k] ELSE b[k - (s - 1)]
  BY <1>2, <1>3, ConcatProperties
<1>5. \A k \in 1 .. Len(t) - 1 : (a \o b)[k] = IF k < s THEN t[k] ELSE t[k + 1]
  <2> TAKE k \in 1 .. Len(t) - 1
  <2>1. CASE k < s
    BY <1>2, <1>4, <2>1
  <2>2. CASE k >= s
    <3>1. k - (s - 1) \in 1 .. Len(t) - s /\ s + (k - (s - 1)) = k + 1 /\ ~(k <= s - 1)
      BY <2>2
    <3>2. QED
      BY <1>3, <1>4, <2>2, <3>1
  <2>3. k < s \/ k >= s
    OBVIOUS
  <2>4. QED
    BY <2>1, <2>2, <2>3
<1>6. QED
  BY <1>4, <1>5 DEF RemoveAt, a, b

\* An entry kept comes to stand behind as many as are kept before it, each entry kept at a
\* place of its own, and no place is left without one.
LEMMA KeptInOrder ==
  ASSUME NEW n \in Nat, NEW keep \in SUBSET (1 .. n)
  PROVE  /\ Cardinality(keep) \in 0 .. n
         /\ \A i \in 1 .. Cardinality(keep) :
              \E k \in keep : Cardinality({j \in keep : j < k}) = i - 1
         /\ \A k \in keep : Cardinality({j \in keep : j < k}) \in 0 .. Cardinality(keep) - 1
         /\ \A k, m \in keep :
              Cardinality({j \in keep : j < k}) = Cardinality({j \in keep : j < m}) => k = m
<1> DEFINE below(k) == {j \in keep : j < k}
           f == [k \in keep |-> Cardinality(below(k))]
           c == Cardinality(keep)
<1>1. IsFiniteSet(keep) /\ c \in 0 .. n
  <2>1. IsFiniteSet(1 .. n) /\ Cardinality(1 .. n) = n
    BY FS_Interval
  <2>2. IsFiniteSet(keep) /\ Cardinality(keep) <= n
    BY <2>1, FS_Subset
  <2>3. Cardinality(keep) \in Nat
    BY <2>2, FS_CardinalityType
  <2>4. QED
    BY <2>2, <2>3
<1>2. \A k \in keep : IsFiniteSet(below(k)) /\ f[k] \in 0 .. c - 1
  <2> TAKE k \in keep
  <2>1. below(k) \in SUBSET keep /\ below(k) # keep
    <3>1. k \in keep /\ k \notin below(k)
      OBVIOUS
    <3>2. QED
      BY <3>1
  <2>2. IsFiniteSet(below(k)) /\ Cardinality(below(k)) <= c /\ Cardinality(below(k)) # c
    BY <1>1, <2>1, FS_Subset
  <2>3. Cardinality(below(k)) \in Nat
    BY <2>2, FS_CardinalityType
  <2> HIDE DEF below, c
  <2>4. QED
    BY <1>1, <2>2, <2>3
<1>3. \A k, m \in keep : k < m => f[k] < f[m]
  <2> SUFFICES ASSUME NEW k \in keep, NEW m \in keep, k < m
               PROVE  f[k] < f[m]
    OBVIOUS
  <2>0. \A j \in keep : j \in Int
    OBVIOUS
  <2>a. \A j \in keep : j < k => j < m
    BY <2>0
  <2>1. below(k) \in SUBSET below(m) /\ k \in below(m) /\ k \notin below(k)
    <3>1. below(k) \subseteq below(m)
      BY <2>a
    <3>2. k \in below(m)
      OBVIOUS
    <3>3. k \notin below(k)
      BY <2>0
    <3>4. QED
      BY <3>1, <3>2, <3>3
  <2>2. IsFiniteSet(below(m))
    BY <1>2
  <2> HIDE DEF below
  <2>3. Cardinality(below(k)) <= Cardinality(below(m)) /\ Cardinality(below(k)) # Cardinality(below(m))
    BY <2>1, <2>2, FS_Subset
  <2>4. f[k] \in Nat /\ f[m] \in Nat
    BY <1>2
  <2>5. QED
    BY <2>3, <2>4
<1>4. \A k, m \in keep : f[k] = f[m] => k = m
  <2> SUFFICES ASSUME NEW k \in keep, NEW m \in keep, f[k] = f[m], k # m
               PROVE  FALSE
    OBVIOUS
  <2>1. k < m \/ m < k
    OBVIOUS
  <2>2. f[k] \in Nat /\ f[m] \in Nat
    BY <1>2
  <2> HIDE DEF f
  <2>3. QED
    BY <1>3, <2>1, <2>2
<1>5. f \in Injection(keep, 0 .. c - 1)
  <2>1. f \in [keep -> 0 .. c - 1]
    BY <1>2
  <2> HIDE DEF f
  <2>2. QED
    BY <1>4, <2>1 DEF Injection, IsInjective
<1>6. IsFiniteSet(0 .. c - 1) /\ Cardinality(0 .. c - 1) = c
  <2> HIDE DEF c
  <2>1. c - 1 \in Int /\ (0 > c - 1 => c = 0) /\ c - 1 - 0 + 1 = c
    BY <1>1
  <2>2. QED
    BY <2>1, FS_Interval
<1>7. f \in Surjection(keep, 0 .. c - 1)
  <2> HIDE DEF f
  <2>1. QED
    BY <1>5, <1>6, FS_Injection
<1>8. \A i \in 1 .. c : \E k \in keep : f[k] = i - 1
  <2> TAKE i \in 1 .. c
  <2>1. i - 1 \in 0 .. c - 1
    BY <1>1
  <2> HIDE DEF f
  <2>2. QED
    BY <1>7, <2>1 DEF Surjection
<1>9. QED
  BY <1>1, <1>2, <1>4, <1>8

NoneUpTo(t, cb, at) == \A j \in 1 .. Len(t) : t[j].callback = cb => j > at
FoundAfter(t, at, entry) == \E i \in 1 .. Len(t) : i > at /\ t[i] = entry

\* A table without a function keeps the other entries, and an entry behind a place that
\* nothing before was removed from stays behind it.
LEMMA FunctionRemoved ==
  ASSUME NEW t \in Seq(ListenerItem), NEW cb
  PROVE  /\ Without(t, cb) \in Seq(ListenerItem)
         /\ \A i \in 1 .. Len(Without(t, cb)) : Without(t, cb)[i].callback # cb
         /\ \A at \in Nat, k \in 1 .. Len(t) :
              k > at /\ t[k].callback # cb /\ NoneUpTo(t, cb, at)
                => FoundAfter(Without(t, cb), at, t[k])
<1> DEFINE keep == {k \in 1 .. Len(t) : t[k].callback # cb}
           rank(k) == Cardinality({j \in keep : j < k})
           c == Cardinality(keep)
           place(i) == CHOOSE k \in keep : rank(k) = i - 1
           entry(i) == t[place(i)]
<1>0. Len(t) \in Nat /\ DOMAIN t = 1 .. Len(t) /\ keep \in SUBSET (1 .. Len(t))
  OBVIOUS
<1>1. /\ c \in 0 .. Len(t)
      /\ \A i \in 1 .. c : \E k \in keep : rank(k) = i - 1
      /\ \A k \in keep : rank(k) \in 0 .. c - 1
      /\ \A k, m \in keep : rank(k) = rank(m) => k = m
  <2> HIDE DEF keep
  <2> QED
    BY <1>0, KeptInOrder
<1>2. Without(t, cb) = [i \in 1 .. c |-> entry(i)]
  BY <1>0 DEF Without
<1> HIDE DEF rank, c
<1>3. \A i \in 1 .. c : place(i) \in keep
  BY <1>1
<1>4. Without(t, cb) \in Seq(ListenerItem) /\ Len(Without(t, cb)) = c
  <2>1. \A i \in 1 .. c : entry(i) \in ListenerItem
    <3>1. \A j \in keep : t[j] \in ListenerItem
      BY <1>0
    <3> HIDE DEF keep
    <3>2. QED
      BY <1>3, <3>1
  <2> HIDE DEF keep, entry
  <2>2. QED
    BY <1>1, <1>2, <2>1
<1>5. \A k \in keep : Without(t, cb)[rank(k) + 1] = t[k]
  <2> TAKE k \in keep
  <2>1. rank(k) + 1 \in 1 .. c /\ rank(k) + 1 - 1 = rank(k)
    BY <1>1
  <2>2. place(rank(k) + 1) = k
    BY <1>1, <2>1
  <2> HIDE DEF place
  <2>3. entry(rank(k) + 1) = t[k]
    BY <2>2
  <2> HIDE DEF keep, entry
  <2>4. QED
    BY <1>2, <2>1, <2>3
<1>6. ASSUME NEW at \in Nat, NEW k \in 1 .. Len(t), k > at, t[k].callback # cb, NoneUpTo(t, cb, at)
      PROVE  \E i \in 1 .. c : i > at /\ Without(t, cb)[i] = t[k]
  <2>1. k \in keep /\ 1 .. at \in SUBSET {j \in keep : j < k}
    BY <1>0, <1>6 DEF NoneUpTo
  <2>2. IsFiniteSet({j \in keep : j < k})
    <3>1. IsFiniteSet(1 .. Len(t)) /\ {j \in keep : j < k} \in SUBSET (1 .. Len(t))
      BY <1>0, FS_Interval
    <3>2. QED
      BY <3>1, FS_Subset
  <2>3. Cardinality(1 .. at) = at
    BY FS_Interval
  <2>4. rank(k) >= at /\ rank(k) \in Nat
    <3>1. Cardinality(1 .. at) <= rank(k)
      BY <2>1, <2>2, FS_Subset DEF rank
    <3>2. QED
      BY <2>2, <2>3, <3>1, FS_CardinalityType DEF rank
  <2>5. rank(k) + 1 \in 1 .. c /\ rank(k) + 1 > at
    BY <1>1, <2>1, <2>4
  <2>6. QED
    BY <1>5, <2>1, <2>5
<1>7. \A i \in 1 .. c : Without(t, cb)[i].callback # cb
  <2> TAKE i \in 1 .. c
  <2>1. place(i) \in keep
    BY <1>3
  <2>2. t[place(i)].callback # cb
    BY <2>1
  <2> HIDE DEF place
  <2>3. QED
    BY <1>2, <2>2
<1>8. QED
  BY <1>4, <1>6, <1>7 DEF FoundAfter

----------------------------------------------------------------------------
(***************************************************************************)
(* The manager's steps.                                                    *)
(***************************************************************************)
LEMMA QueueEventKeeps ==
  ASSUME NEW q \in QueueOf, NEW e \in Event
  PROVE  /\ queueEvent(q, e) \in QueueOf /\ queueEvent(q, e).num \in Nat
         /\ q.num \in Nat /\ queueEvent(q, e).num >= q.num
<1>1. CASE isFull(q)
  BY <1>1, QueueRefuses, QueueFacts
<1>2. CASE ~isFull(q)
  BY <1>2, QueueAccepts, QueueFacts
<1>3. QED
  BY <1>1, <1>2

\* A call of the application that changes the table hands SetTable a table.
LEMMA TableType ==
  ASSUME ManagerTypeOK, AppCalls
  PROVE  ManagerTypeOK' /\ UNCHANGED <<queues, call, highDue>>
<1>1. ASSUME NEW table \in Seq(ListenerItem), NEW shift, SetTable(table, shift),
             UNCHANGED <<queues, call, highDue>>
      PROVE  ManagerTypeOK'
  BY <1>1 DEF ManagerTypeOK, SetTable, Turns
<1>2. ASSUME NEW code \in Codes, NEW cb \in Callbacks, addListener(code, cb)
      PROVE  ManagerTypeOK' /\ UNCHANGED <<queues, call, highDue>>
  <2>1. [callback |-> cb, eventCode |-> code, enabled |-> TRUE] \in ListenerItem
    BY ManagerAssumption DEF ManagerAssumption, ListenerItem
  <2>2. Append(mListeners, [callback |-> cb, eventCode |-> code, enabled |-> TRUE]) \in Seq(ListenerItem)
    BY <2>1 DEF ManagerTypeOK
  <2>3. QED
    BY <1>1, <1>2, <2>2 DEF addListener
<1>3. ASSUME NEW code \in Codes, NEW cb \in Callbacks, removeListener(code, cb)
      PROVE  ManagerTypeOK' /\ UNCHANGED <<queues, call, highDue>>
  <2>1. RemoveAt(mListeners, searchListeners(code, cb)) \in Seq(ListenerItem)
    BY <1>3, SearchFinds, EntryRemoved DEF removeListener, ManagerTypeOK
  <2>2. QED
    BY <1>1, <1>3, <2>1 DEF removeListener
<1>4. ASSUME NEW code \in Codes, NEW cb \in Callbacks, NEW enable \in BOOLEAN,
             enableListener(code, cb, enable)
      PROVE  ManagerTypeOK' /\ UNCHANGED <<queues, call, highDue>>
  <2> DEFINE s == searchListeners(code, cb)
  <2>1. s \in 1 .. Len(mListeners)
    BY <1>4, SearchFinds DEF enableListener, ManagerTypeOK
  <2>2. [mListeners EXCEPT ![s].enabled = enable] \in Seq(ListenerItem)
    <3> HIDE DEF s
    <3>1. mListeners \in Seq(ListenerItem) /\ mListeners[s] \in ListenerItem
      BY <2>1 DEF ManagerTypeOK
    <3>2. [mListeners[s] EXCEPT !.enabled = enable] \in ListenerItem
      BY <3>1 DEF ListenerItem
    <3>3. QED
      BY <2>1, <3>1, <3>2, ExceptSeq
  <2>3. QED
    BY <1>1, <1>4, <2>2 DEF enableListener
<1>5. ASSUME NEW cb \in Callbacks, removeListenerEverywhere(cb)
      PROVE  ManagerTypeOK' /\ UNCHANGED <<queues, call, highDue>>
  <2>1. Without(mListeners, cb) \in Seq(ListenerItem)
    BY FunctionRemoved DEF ManagerTypeOK
  <2>2. QED
    BY <1>1, <1>5, <2>1 DEF removeListenerEverywhere
<1>6. ASSUME NEW cb, NEW enable \in BOOLEAN, SetDefault(cb, enable)
      PROVE  ManagerTypeOK' /\ UNCHANGED <<queues, call, highDue>>
  BY <1>6 DEF SetDefault, ManagerTypeOK
<1>7. QED
  BY <1>2, <1>3, <1>4, <1>5, <1>6
  DEF AppCalls, setDefaultListener, removeDefaultListener, enableDefaultListener

LEMMA DispatchType ==
  ASSUME ManagerTypeOK, PopFindsEvent, Dispatch
  PROVE  ManagerTypeOK'
<1> USE DEF ManagerTypeOK, Calls, Turns
<1>1. CASE Test
  <2>1. InApp \in Calls /\ [call EXCEPT !.pc = "pop"] \in Calls /\ [call EXCEPT !.pri = "low"] \in Calls
    BY DEF InApp, Priorities, Event, kEventNone
  <2>2. call' \in Calls
    BY <1>1, <2>1 DEF Test
  <2>3. QED
    BY <1>1, <2>2 DEF Test, listVars
<1>2. CASE Pop
  <2>1. call.pri \in Priorities /\ queues[call.pri] \in QueueOf /\ queues[call.pri].num > 0
    BY <1>2 DEF Pop, PopFindsEvent
  <2>2. popEvent(queues[call.pri]) \in QueueOf /\ front(queues[call.pri]) \in Event
    BY <2>1, QueueHandsOut
  <2>3. queues' \in [Priorities -> QueueOf]
    BY <1>2, <2>1, <2>2 DEF Pop
  <2>4. call' \in Calls
    BY <1>2, <2>2 DEF Pop
  <2>5. highDue' \in Nat
    BY <1>2 DEF Pop
  <2>6. turn' \in Turns
    <3>1. EnabledFor(mListeners, front(queues[call.pri]).code) \in SUBSET Callbacks
      <4>1. \A k \in DOMAIN mListeners : mListeners[k].callback \in Callbacks
        <5>1. \A k \in DOMAIN mListeners : mListeners[k] \in ListenerItem
          OBVIOUS
        <5>2. QED
          BY <5>1 DEF ListenerItem
      <4>2. QED
        BY <4>1 DEF EnabledFor
    <3>2. QED
      BY <1>2, <3>1 DEF Pop, NoTurn
  <2>7. QED
    BY <1>2, <2>3, <2>4, <2>5, <2>6 DEF Pop, listVars
<1>3. CASE Invoke
  <2>1. PICK k \in DOMAIN mListeners :
          /\ call' = [call EXCEPT !.pc = "callback", !.at = k, !.handled = TRUE]
          /\ turn' = [turn EXCEPT !.told = @ \union {mListeners[k].callback}]
    BY <1>3 DEF Invoke
  <2>2. k \in Nat /\ mListeners[k].callback \in Callbacks
    <3>1. k \in 1 .. Len(mListeners) /\ mListeners[k] \in ListenerItem
      OBVIOUS
    <3>2. QED
      BY <3>1 DEF ListenerItem
  <2>3. QED
    BY <1>3, <2>1, <2>2 DEF Invoke, listVars
<1>4. CASE InvokeDefault
  BY <1>4, ManagerAssumption DEF ManagerAssumption, InvokeDefault, listVars
<1>5. CASE Return
  BY <1>5 DEF Return, listVars
<1>6. CASE Sent
  <2>a. InApp \in Calls
    BY DEF InApp, Priorities, Event, kEventNone
  <2>b. [call EXCEPT !.pc = "test"] \in Calls
    OBVIOUS
  <2>c. [call EXCEPT !.pc = "test", !.pri = "low"] \in Calls
    BY DEF Priorities
  <2>1. /\ InApp \in Calls /\ [call EXCEPT !.pc = "test"] \in Calls
        /\ [call EXCEPT !.pc = "test", !.pri = "low"] \in Calls
    BY <2>a, <2>b, <2>c
  <2>2. call' \in Calls
    BY <1>6, <2>1 DEF Sent
  <2>3. turn' \in Turns
    BY <1>6 DEF Sent, NoTurn
  <2>4. QED
    BY <1>6, <2>2, <2>3 DEF Sent, listVars
<1>7. QED
  BY <1>1, <1>2, <1>3, <1>4, <1>5, <1>6 DEF Dispatch

LEMMA QueuingStep ==
  ASSUME ManagerTypeOK, PopFindsEvent, HighCounted, NEW p \in Priorities, NEW e \in Event,
         QueueEvent(p, e)
  PROVE  ManagerTypeOK' /\ PopFindsEvent' /\ HighCounted'
<1>1. /\ queues[p] \in QueueOf /\ queues' = [queues EXCEPT ![p] = queueEvent(queues[p], e)]
      /\ UNCHANGED <<listVars, call, highDue, turn>>
  BY DEF QueueEvent, ManagerTypeOK
<1>2. \A r \in Priorities : /\ queues'[r] \in QueueOf /\ queues[r].num \in Nat
                            /\ queues'[r].num \in Nat /\ queues'[r].num >= queues[r].num
  <2> TAKE r \in Priorities
  <2>1. queues[r] \in QueueOf /\ queues'[r] = IF r = p THEN queueEvent(queues[r], e) ELSE queues[r]
    BY <1>1 DEF ManagerTypeOK
  <2>2. QED
    BY <2>1, QueueEventKeeps
<1>3. ManagerTypeOK'
  BY <1>1, <1>2 DEF ManagerTypeOK, listVars
<1>4. PopFindsEvent'
  BY <1>1, <1>2 DEF PopFindsEvent, ManagerTypeOK, Calls
<1>5. HighCounted'
  BY <1>1, <1>2 DEF HighCounted, ManagerTypeOK, Priorities
<1>6. QED
  BY <1>3, <1>4, <1>5

LEMMA DispatchCounts ==
  ASSUME ManagerTypeOK, PopFindsEvent, HighCounted, Dispatch
  PROVE  PopFindsEvent' /\ HighCounted'
<1> USE DEF ManagerTypeOK, Calls, Priorities
<1>0. \A p \in Priorities : queues[p].num \in Nat
  BY QueueFacts
<1>1. CASE Test
  BY <1>0, <1>1 DEF Test, PopFindsEvent, HighCounted, isEmpty, InApp
<1>2. CASE Pop
  <2>1. call.pri \in Priorities /\ queues[call.pri] \in QueueOf /\ queues[call.pri].num > 0
    BY <1>2 DEF Pop, PopFindsEvent
  <2>2. popEvent(queues[call.pri]).num = queues[call.pri].num - 1
    BY <2>1, QueueHandsOut
  <2>3. /\ queues' = [queues EXCEPT ![call.pri] = popEvent(queues[call.pri])]
        /\ call'.pc = "send" /\ call'.pri = call.pri /\ call'.all = call.all
        /\ highDue' = IF call.pri = "high" /\ highDue > 0 THEN highDue - 1 ELSE highDue
    BY <1>2 DEF Pop
  <2>4. call.pc = "pop"
    BY <1>2 DEF Pop
  <2>5. PopFindsEvent'
    BY <2>3 DEF PopFindsEvent
  <2>6. HighCounted'
    <3>1. CASE call.pri = "high"
      <4>1. queues'["high"].num = queues["high"].num - 1
        BY <2>1, <2>2, <2>3, <3>1
      <4>2. QED
        BY <1>0, <2>1, <2>3, <2>4, <3>1, <4>1 DEF HighCounted
    <3>2. CASE call.pri = "low"
      BY <2>3, <2>4, <3>2 DEF HighCounted
    <3>3. QED
      BY <3>1, <3>2
  <2>7. QED
    BY <2>5, <2>6
<1>3. CASE Invoke
  BY <1>3 DEF Invoke, PopFindsEvent, HighCounted
<1>4. CASE InvokeDefault
  BY <1>4 DEF InvokeDefault, PopFindsEvent, HighCounted
<1>5. CASE Return
  BY <1>5 DEF Return, PopFindsEvent, HighCounted
<1>6. CASE Sent
  BY <1>0, <1>6 DEF Sent, PopFindsEvent, HighCounted, InApp
<1>7. QED
  BY <1>1, <1>2, <1>3, <1>4, <1>5, <1>6 DEF Dispatch

LEMMA ProcessCounts ==
  ASSUME ManagerTypeOK, NEW all \in BOOLEAN, Process(all)
  PROVE  ManagerTypeOK' /\ PopFindsEvent' /\ HighCounted'
<1>1. queues["high"].num \in Nat
  BY QueueFacts DEF ManagerTypeOK, Priorities
<1>2. call' \in Calls /\ call'.pc = "test" /\ call'.pri = "high"
  <2>1. InApp \in Calls /\ InApp.pri = "high"
    BY DEF InApp, Calls, Priorities, Event, kEventNone
  <2>2. call' = [InApp EXCEPT !.pc = "test", !.all = all]
    BY DEF Process
  <2>3. QED
    BY <2>1, <2>2 DEF Calls
<1>3. QED
  BY <1>1, <1>2 DEF Process, ManagerTypeOK, PopFindsEvent, HighCounted, listVars

----------------------------------------------------------------------------
(***************************************************************************)
(* Who is owed the event.                                                  *)
(***************************************************************************)
ToCome(table, k, cb) ==
  /\ k > call.at /\ table[k].eventCode = call.event.code /\ table[k].enabled
  /\ table[k].callback = cb

\* A change of the table is harmless when those still in it who had an entry to come have one.
LEMMA TableChange ==
  ASSUME ManagerTypeOK, OwedAreDue, NEW table, NEW shift, SetTable(table, shift), UNCHANGED call,
         ASSUME NEW cb \in EnabledFor(table, call.event.code), Dispatching, ~shift,
                NEW k \in DOMAIN mListeners, ToCome(mListeners, k, cb)
         PROVE  \E j \in DOMAIN table : ToCome(table, j, cb)
  PROVE  OwedAreDue'
<1> SUFFICES ASSUME Dispatching', ~turn'.shifted, NEW cb \in turn'.owed \ turn'.told
             PROVE  \E j \in DOMAIN mListeners' : Due(j)' /\ mListeners'[j].callback = cb
  BY DEF OwedAreDue
<1>1. Dispatching /\ mListeners' = table
  BY DEF Dispatching, SetTable
<1>2. turn' = [turn EXCEPT !.owed = @ \intersect EnabledFor(table, call.event.code),
                           !.shifted = @ \/ shift]
  BY <1>1 DEF SetTable
<1>3. /\ ~turn.shifted /\ ~shift
      /\ cb \in turn.owed \ turn.told /\ cb \in EnabledFor(table, call.event.code)
  BY <1>2 DEF ManagerTypeOK, Turns
<1>4. PICK k \in DOMAIN mListeners : Due(k) /\ mListeners[k].callback = cb
  BY <1>1, <1>3 DEF OwedAreDue
<1>5. ToCome(mListeners, k, cb)
  BY <1>4 DEF Due, ToCome
<1>6. PICK j \in DOMAIN table : ToCome(table, j, cb)
  BY <1>1, <1>3, <1>5
<1>7. QED
  BY <1>1, <1>6 DEF Due, ToCome

LEMMA TableOwes ==
  ASSUME ManagerTypeOK, OwedAreDue, AppCalls
  PROVE  OwedAreDue'
<1>0. /\ mListeners \in Seq(ListenerItem) /\ call.at \in Nat /\ Len(mListeners) \in Nat
      /\ DOMAIN mListeners = 1 .. Len(mListeners)
      /\ \A k \in 1 .. Len(mListeners) : mListeners[k] \in ListenerItem
  BY DEF ManagerTypeOK, Calls
<1>1. ASSUME NEW code \in Codes, NEW cb \in Callbacks, addListener(code, cb)
      PROVE  OwedAreDue'
  <2> DEFINE l == [callback |-> cb, eventCode |-> code, enabled |-> TRUE]
  <2>1. l \in ListenerItem
    BY ManagerAssumption DEF ManagerAssumption, ListenerItem
  <2> HIDE DEF l
  <2>2. /\ Append(mListeners, l) \in Seq(ListenerItem)
        /\ \A k \in DOMAIN mListeners : /\ k \in DOMAIN Append(mListeners, l)
                                        /\ Append(mListeners, l)[k] = mListeners[k]
    BY <1>0, <2>1, AppendProperties
  <2>3. SetTable(Append(mListeners, l), FALSE) /\ UNCHANGED call
    BY <1>1 DEF addListener, l
  <2>4. \A k \in DOMAIN mListeners : \A c : ToCome(mListeners, k, c) => ToCome(Append(mListeners, l), k, c)
    BY <2>2 DEF ToCome
  <2>5. QED
    BY <2>2, <2>3, <2>4, TableChange
<1>2. ASSUME NEW code \in Codes, NEW cb \in Callbacks, removeListener(code, cb)
      PROVE  OwedAreDue'
  <2> DEFINE s == searchListeners(code, cb)
             t == RemoveAt(mListeners, s)
  <2>1. /\ s \in 1 .. Len(mListeners) /\ IsEntry(mListeners[s], code, cb)
        /\ \A k \in 1 .. s - 1 : ~IsEntry(mListeners[k], code, cb)
    BY <1>0, <1>2, SearchFinds DEF removeListener
  <2>2. /\ t \in Seq(ListenerItem) /\ DOMAIN t = 1 .. Len(mListeners) - 1
        /\ \A k \in 1 .. Len(mListeners) - 1 : t[k] = IF k < s THEN mListeners[k] ELSE mListeners[k + 1]
    <3>1. /\ t \in Seq(ListenerItem) /\ Len(t) = Len(mListeners) - 1
          /\ \A k \in 1 .. Len(mListeners) - 1 : t[k] = IF k < s THEN mListeners[k] ELSE mListeners[k + 1]
      <4>1. mListeners \in Seq(ListenerItem) /\ s \in 1 .. Len(mListeners)
        BY <1>0, <2>1
      <4> HIDE DEF s
      <4>2. QED
        BY <4>1, EntryRemoved
    <3> HIDE DEF t
    <3>2. QED
      BY <3>1
  <2>3. SetTable(t, s <= call.at) /\ UNCHANGED call
    BY <1>2 DEF removeListener
  <2> HIDE DEF s, t
  <2>4. ASSUME NEW c \in EnabledFor(t, call.event.code), ~(s <= call.at),
               NEW k \in DOMAIN mListeners, ToCome(mListeners, k, c)
        PROVE  \E j \in DOMAIN t : ToCome(t, j, c)
    <3>1. CASE k < s
      <4>1. k \in DOMAIN t /\ t[k] = mListeners[k]
        BY <1>0, <2>1, <2>2, <3>1
      <4>2. QED
        BY <2>4, <4>1 DEF ToCome
    <3>2. CASE k > s
      <4>1. k - 1 \in DOMAIN t /\ t[k - 1] = mListeners[k] /\ k - 1 > call.at
        BY <1>0, <2>1, <2>2, <2>4, <3>2
      <4>2. QED
        BY <2>4, <4>1 DEF ToCome
    <3>3. CASE k = s
      <4>1. c = cb /\ code = call.event.code
        BY <2>1, <2>4, <3>3 DEF ToCome, IsEntry
      <4>2. PICK j \in DOMAIN t : t[j].eventCode = call.event.code /\ t[j].enabled /\ t[j].callback = c
        BY DEF EnabledFor
      <4>3. ~(j < s)
        BY <1>0, <2>1, <2>2, <4>1, <4>2 DEF IsEntry
      <4>4. j > call.at
        BY <1>0, <2>1, <2>2, <2>4, <4>3
      <4>5. QED
        BY <4>2, <4>4 DEF ToCome
    <3>4. QED
      BY <1>0, <2>1, <3>1, <3>2, <3>3
  <2>5. QED
    BY <2>3, <2>4, TableChange
<1>3. ASSUME NEW code \in Codes, NEW cb \in Callbacks, NEW enable \in BOOLEAN,
             enableListener(code, cb, enable)
      PROVE  OwedAreDue'
  <2> DEFINE s == searchListeners(code, cb)
             t == [mListeners EXCEPT ![s].enabled = enable]
  <2>1. /\ s \in 1 .. Len(mListeners) /\ IsEntry(mListeners[s], code, cb)
        /\ \A k \in 1 .. s - 1 : ~IsEntry(mListeners[k], code, cb)
    BY <1>0, <1>3, SearchFinds DEF enableListener
  <2>2. /\ DOMAIN t = 1 .. Len(mListeners)
        /\ \A k \in 1 .. Len(mListeners) : k # s => t[k] = mListeners[k]
        /\ t[s].callback = cb /\ t[s].eventCode = code /\ t[s].enabled = enable
    BY <1>0, <2>1 DEF IsEntry, ListenerItem
  <2>3. SetTable(t, FALSE) /\ UNCHANGED call
    BY <1>3 DEF enableListener
  <2> HIDE DEF s, t
  <2>4. ASSUME NEW c \in EnabledFor(t, call.event.code),
               NEW k \in DOMAIN mListeners, ToCome(mListeners, k, c)
        PROVE  \E j \in DOMAIN t : ToCome(t, j, c)
    <3>1. CASE k # s
      BY <1>0, <2>2, <2>4, <3>1 DEF ToCome
    <3>2. CASE k = s
      <4>1. c = cb /\ code = call.event.code /\ s > call.at
        BY <2>1, <2>4, <3>2 DEF ToCome, IsEntry
      <4>2. PICK j \in DOMAIN t : t[j].eventCode = call.event.code /\ t[j].enabled /\ t[j].callback = c
        BY DEF EnabledFor
      <4>3. ~(j < s)
        <5>1. SUFFICES ASSUME j < s
                       PROVE  FALSE
          OBVIOUS
        <5>2. j \in 1 .. s - 1 /\ t[j] = mListeners[j]
          BY <1>0, <2>1, <2>2, <5>1
        <5>3. QED
          BY <2>1, <4>1, <4>2, <5>2 DEF IsEntry
      <4>4. j > call.at
        BY <1>0, <2>1, <2>2, <4>1, <4>3
      <4>5. QED
        BY <4>2, <4>4 DEF ToCome
    <3>3. QED
      BY <3>1, <3>2
  <2>5. QED
    BY <2>3, <2>4, TableChange
<1>4. ASSUME NEW cb \in Callbacks, removeListenerEverywhere(cb)
      PROVE  OwedAreDue'
  <2> DEFINE t == Without(mListeners, cb)
             shift == \E k \in DOMAIN mListeners : mListeners[k].callback = cb /\ k <= call.at
  <2>1. SetTable(t, shift) /\ UNCHANGED call
    BY <1>4 DEF removeListenerEverywhere
  <2>2. /\ t \in Seq(ListenerItem)
        /\ \A i \in 1 .. Len(t) : t[i].callback # cb
        /\ \A at \in Nat, k \in 1 .. Len(mListeners) :
              k > at /\ mListeners[k].callback # cb /\ NoneUpTo(mListeners, cb, at)
                => FoundAfter(t, at, mListeners[k])
    BY <1>0, FunctionRemoved
  <2> HIDE DEF t
  <2>3. ASSUME NEW c \in EnabledFor(t, call.event.code), ~shift,
               NEW k \in DOMAIN mListeners, ToCome(mListeners, k, c)
        PROVE  \E j \in DOMAIN t : ToCome(t, j, c)
    <3>1. c # cb
      BY <2>2 DEF EnabledFor
    <3>2. k > call.at /\ mListeners[k].callback # cb
      BY <2>3, <3>1 DEF ToCome
    <3>3. NoneUpTo(mListeners, cb, call.at)
      BY <1>0, <2>3 DEF NoneUpTo
    <3>4. PICK i \in 1 .. Len(t) : i > call.at /\ t[i] = mListeners[k]
      BY <1>0, <2>2, <3>2, <3>3 DEF FoundAfter
    <3>5. QED
      BY <2>2, <2>3, <3>4 DEF ToCome
  <2> HIDE DEF shift
  <2>4. QED
    BY <2>1, <2>3, TableChange
<1>5. ASSUME NEW cb, NEW enable \in BOOLEAN, SetDefault(cb, enable)
      PROVE  OwedAreDue'
  BY <1>5 DEF SetDefault, OwedAreDue, Dispatching, Due
<1>6. QED
  BY <1>1, <1>2, <1>3, <1>4, <1>5
  DEF AppCalls, setDefaultListener, removeDefaultListener, enableDefaultListener

LEMMA DispatchOwes ==
  ASSUME ManagerTypeOK, OwedAreDue, Dispatch
  PROVE  OwedAreDue'
<1>0. /\ DOMAIN mListeners = 1 .. Len(mListeners) /\ Len(mListeners) \in Nat
      /\ call \in Calls /\ turn \in Turns
  BY DEF ManagerTypeOK
<1>1. CASE Test
  <2>1. call'.pc \in {"pop", "test", "app"}
    BY <1>0, <1>1 DEF Test, InApp, Calls
  <2>2. QED
    BY <2>1 DEF OwedAreDue, Dispatching
<1>2. CASE Pop
  <2> DEFINE e == front(queues[call.pri])
  <2>1. /\ call'.at = 0 /\ call'.event = e /\ mListeners' = mListeners
        /\ turn'.owed = EnabledFor(mListeners, e.code)
    BY <1>0, <1>2 DEF Pop, Calls, NoTurn, listVars
  <2> HIDE DEF e
  <2>2. ASSUME NEW cb \in turn'.owed
        PROVE  \E k \in DOMAIN mListeners' : Due(k)' /\ mListeners'[k].callback = cb
    <3>1. PICK k \in DOMAIN mListeners : /\ mListeners[k].eventCode = e.code /\ mListeners[k].enabled
                                         /\ mListeners[k].callback = cb
      BY <2>1 DEF EnabledFor
    <3>2. k > 0
      BY <1>0
    <3>3. QED
      BY <2>1, <3>1, <3>2 DEF Due
  <2>3. QED
    BY <2>2 DEF OwedAreDue
<1>3. CASE Invoke
  <2>1. PICK k \in DOMAIN mListeners :
          /\ Due(k) /\ \A j \in 1 .. k - 1 : ~Due(j)
          /\ call' = [call EXCEPT !.pc = "callback", !.at = k, !.handled = TRUE]
          /\ turn' = [turn EXCEPT !.told = @ \union {mListeners[k].callback}]
    BY <1>3 DEF Invoke
  <2>2. /\ call'.at = k /\ call'.event = call.event /\ mListeners' = mListeners
        /\ turn'.owed = turn.owed /\ turn'.told = turn.told \union {mListeners[k].callback}
        /\ turn'.shifted = turn.shifted /\ Dispatching
    BY <1>0, <1>3, <2>1 DEF Invoke, Calls, Turns, listVars, Dispatching
  <2>3. ASSUME ~turn.shifted, NEW cb \in turn'.owed \ turn'.told
        PROVE  \E j \in DOMAIN mListeners' : Due(j)' /\ mListeners'[j].callback = cb
    <3>1. PICK j \in DOMAIN mListeners : Due(j) /\ mListeners[j].callback = cb
      BY <2>2, <2>3 DEF OwedAreDue
    <3>2. j # k
      BY <2>2, <2>3, <3>1
    <3>3. j > k
      BY <1>0, <2>1, <3>1, <3>2
    <3>4. QED
      BY <2>2, <3>1, <3>3 DEF Due
  <2>4. QED
    BY <2>2, <2>3 DEF OwedAreDue
<1>4. CASE InvokeDefault
  <2>1. /\ turn' = turn /\ Dispatching /\ \A k \in DOMAIN mListeners : ~Due(k)
    BY <1>4 DEF InvokeDefault, AllCalled, Dispatching
  <2>2. turn.shifted \/ turn.owed \ turn.told = {}
    BY <2>1 DEF OwedAreDue
  <2>3. QED
    BY <2>1, <2>2 DEF OwedAreDue
<1>5. CASE Return
  <2>1. /\ call'.at = call.at /\ call'.event = call.event /\ mListeners' = mListeners
        /\ turn' = turn /\ Dispatching
    BY <1>0, <1>5 DEF Return, Calls, listVars, Dispatching
  <2>2. QED
    BY <2>1 DEF OwedAreDue, Due
<1>6. CASE Sent
  BY <1>6 DEF Sent, OwedAreDue, NoTurn
<1>7. QED
  BY <1>1, <1>2, <1>3, <1>4, <1>5, <1>6 DEF Dispatch

LEMMA ManagerIdle ==
  ASSUME ManagerInv, UNCHANGED managerVars
  PROVE  ManagerInv'
BY DEF ManagerInv, managerVars, listVars, ManagerTypeOK, PopFindsEvent, HighCounted, OwedAreDue,
       Dispatching, Due

\* Every step of the library and of those that call it keeps the manager's invariant.
LEMMA ManagerStep ==
  ASSUME ManagerInv, EMNext
  PROVE  ManagerInv'
<1> USE DEF ManagerInv
<1>1. CASE Dispatch
  BY <1>1, DispatchType, DispatchCounts, DispatchOwes
<1>2. CASE AppCalls
  <2>1. ManagerTypeOK' /\ UNCHANGED <<queues, call, highDue>>
    BY <1>2, TableType
  <2>2. PopFindsEvent' /\ HighCounted'
    BY <2>1 DEF PopFindsEvent, HighCounted
  <2>3. QED
    BY <1>2, <2>1, <2>2, TableOwes
<1>3. ASSUME NEW all \in BOOLEAN, Process(all)
      PROVE  ManagerInv'
  <2>1. ManagerTypeOK' /\ PopFindsEvent' /\ HighCounted'
    BY <1>3, ProcessCounts
  <2>2. OwedAreDue'
    BY <1>3 DEF Process, OwedAreDue, Dispatching, InApp
  <2>3. QED
    BY <2>1, <2>2
<1>4. ASSUME NEW p \in Priorities, NEW e \in Events, QueueEvent(p, e)
      PROVE  ManagerInv'
  <2>1. e \in Event
    BY ManagerAssumption DEF ManagerAssumption, Event
  <2>2. ManagerTypeOK' /\ PopFindsEvent' /\ HighCounted'
    BY <1>4, <2>1, QueuingStep
  <2>3. OwedAreDue'
    BY <1>4 DEF QueueEvent, OwedAreDue, Dispatching, Due, listVars
  <2>4. QED
    BY <2>2, <2>3
<1>5. QED
  BY <1>1, <1>2, <1>3, <1>4 DEF EMNext

----------------------------------------------------------------------------
(***************************************************************************)
(* The controls: the clock, the knob, and what they add to the manager.    *)
(***************************************************************************)
LEMMA SinceIs ==
  ASSUME NEW n \in 0 .. ClockMod - 1, lastDebounceTime \in 0 .. ClockMod - 1
  PROVE  Since(n) = IF n >= lastDebounceTime THEN n - lastDebounceTime
                    ELSE n - lastDebounceTime + ClockMod
<1>1. ClockMod \in Nat \ {0}
  BY ControlsAssumption DEF ControlsAssumption
<1>2. CASE n >= lastDebounceTime
  <2>1. n - lastDebounceTime \in 0 .. ClockMod - 1
    BY <1>1, <1>2
  <2>2. QED
    BY <1>1, <1>2, <2>1, ModSmall DEF Since
<1>3. CASE n < lastDebounceTime
  <2>1. n - lastDebounceTime \in -ClockMod .. -1
    BY <1>1, <1>3
  <2>2. QED
    BY <1>1, <1>3, <2>1, ModMinus DEF Since
<1>4. QED
  BY <1>1, <1>2, <1>3

LEMMA NextTime ==
  ASSUME NEW n \in 0 .. ClockMod - 1, NEW t \in 0 .. 1
  PROVE  /\ (n + t) % ClockMod = IF n + t = ClockMod THEN 0 ELSE n + t
         /\ (n + t) % ClockMod \in 0 .. ClockMod - 1
         /\ (0 - t) % ClockMod \in 0 .. ClockMod - 1
         /\ t = 0 => (0 - t) % ClockMod = 0
<1>1. ClockMod \in Nat \ {0}
  BY ControlsAssumption DEF ControlsAssumption
<1>2. (n + t) % ClockMod = IF n + t = ClockMod THEN 0 ELSE n + t
  <2>1. CASE n + t < ClockMod
    BY <1>1, <2>1, ModSmall
  <2>2. CASE n + t = ClockMod
    <3>1. n + t \in ClockMod .. 2 * ClockMod - 1
      BY <1>1, <2>2
    <3>2. QED
      BY <1>1, <2>2, <3>1, ModWrap
  <2>3. QED
    BY <1>1, <2>1, <2>2
<1>3. (0 - t) % ClockMod \in 0 .. ClockMod - 1 /\ (t = 0 => (0 - t) % ClockMod = 0)
  <2>1. CASE t = 0
    <3>1. 0 \in 0 .. ClockMod - 1 /\ 0 - t = 0
      BY <1>1, <2>1
    <3>2. 0 % ClockMod = 0
      BY <1>1, <3>1, ModSmall
    <3>3. QED
      BY <3>1, <3>2
  <2>2. CASE t = 1
    <3>1. 0 - t = -1 /\ -1 \in -ClockMod .. -1
      BY <1>1, <2>2
    <3>2. (-1) % ClockMod = -1 + ClockMod
      BY <1>1, <3>1, ModMinus
    <3>3. QED
      BY <1>1, <2>2, <3>1, <3>2
  <2>3. QED
    BY <2>1, <2>2
<1>4. QED
  BY <1>1, <1>2, <1>3

\* Between neighbouring phases A has an edge or none, and B tells which way it went.
LEMMA EdgeStep ==
  ASSUME NEW p \in Nat, NEW s \in Nat, s \in p - 1 .. p + 1
  PROVE  Edges(p) - Edges(s) = IF PinA(p) = PinA(s) THEN 0
                               ELSE IF PinB(p) # PinA(p) THEN 1 ELSE -1
<1>1. PICK k \in Int, r \in 0 .. 3 : p = 4 * k + r
  <2> DEFINE k == p \div 4
             r == p % 4
  <2>1. \A n \in Int : n % 4 = n - 4 * (n \div 4)
    OBVIOUS
  <2>2. k \in Int /\ r \in 0 .. 3 /\ r = p - 4 * k
    BY <2>1
  <2> HIDE DEF k, r
  <2>3. p = 4 * k + r
    BY <2>2
  <2>4. QED
    BY <2>2, <2>3
<1>2. p \div 4 = k /\ p % 4 = r
  BY <1>1
<1>a. /\ Edges(p) = 2 * k + (IF r = 0 THEN 0 ELSE IF r = 3 THEN 2 ELSE 1)
      /\ PinA(p) = (r \in {1, 2}) /\ PinB(p) = (r \in {2, 3})
  BY <1>2 DEF Edges, PinA, PinB
<1>3. CASE s = p
  BY <1>3 DEF Edges
<1>4. CASE s = p + 1
  <2>1. s \div 4 = (IF r = 3 THEN k + 1 ELSE k) /\ s % 4 = (IF r = 3 THEN 0 ELSE r + 1)
    BY <1>1, <1>4
  <2>2. CASE r = 3
    <3>1. Edges(s) = 2 * k + 2 /\ ~PinA(s) /\ PinA(s) \in BOOLEAN
      BY <2>1, <2>2 DEF Edges, PinA, PinB
    <3>2. Edges(p) = 2 * k + 2 /\ ~PinA(p) /\ PinA(p) \in BOOLEAN
      BY <1>1, <1>2, <2>2 DEF Edges, PinA
    <3>3. QED
      BY <1>1, <3>1, <3>2
  <2>3. CASE r # 3
    <3>1. /\ Edges(s) = 2 * k + (IF r = 2 THEN 2 ELSE 1)
          /\ PinA(s) = (r \in {0, 1}) /\ PinB(s) = (r \in {1, 2})
      BY <2>1, <2>3 DEF Edges, PinA, PinB
    <3>2. QED
      BY <1>a, <2>3, <3>1
  <2>4. QED
    BY <2>2, <2>3
<1>5. CASE s = p - 1
  <2>1. s \div 4 = (IF r = 0 THEN k - 1 ELSE k) /\ s % 4 = (IF r = 0 THEN 3 ELSE r - 1)
    BY <1>1, <1>5
  <2>2. CASE r = 0
    BY <1>a, <2>1, <2>2 DEF Edges, PinA, PinB
  <2>3. CASE r # 0
    <3>1. /\ Edges(s) = 2 * k + (IF r = 1 THEN 0 ELSE 1)
          /\ PinA(s) = (r \in {2, 3}) /\ PinB(s) = (r = 3)
      BY <2>1, <2>3 DEF Edges, PinA, PinB
    <3>2. QED
      BY <1>a, <2>3, <3>1
  <2>4. QED
    BY <2>2, <2>3
<1>6. QED
  BY <1>3, <1>4, <1>5

\* Half a Loop() changes of the manager at most its low-priority queue.
LEMMA LoopKeepsManager ==
  ASSUME ManagerInv, NEW q \in QueueOf, call.pc \in {"app", "key"},
         call' = [call EXCEPT !.pc = "key"] \/ call' = InApp,
         queues' = [queues EXCEPT !["low"] = q], UNCHANGED <<listVars, highDue, turn>>
  PROVE  ManagerInv'
<1>1. call' \in Calls /\ call'.pc \in {"app", "key"}
  <2>1. InApp \in Calls /\ InApp.pc = "app"
    BY DEF Calls, InApp, Priorities, Event, kEventNone
  <2>2. [call EXCEPT !.pc = "key"] \in Calls /\ [call EXCEPT !.pc = "key"].pc = "key"
    BY DEF ManagerInv, ManagerTypeOK, Calls
  <2>3. QED
    BY <2>1, <2>2
<1>2. queues' \in [Priorities -> QueueOf]
  BY DEF ManagerInv, ManagerTypeOK
<1>3. ManagerTypeOK'
  BY <1>1, <1>2 DEF ManagerInv, ManagerTypeOK, listVars
<1>4. QED
  BY <1>1, <1>3 DEF ManagerInv, PopFindsEvent, HighCounted, OwedAreDue, Dispatching

LEMMA PinsAre == \A p \in Nat : PinA(p) \in BOOLEAN /\ PinB(p) \in BOOLEAN
BY DEF PinA, PinB

Direction(p) == IF PinB(p) # PinA(p) THEN 1 ELSE -1

\* LoopEncoder() counts an edge of A, in the direction B tells, or leaves the count alone.
LEMMA CountedIs ==
  ASSUME ControlTypeOK, WithinBound, NEW q \in QueueOf
  PROVE  LET enc == Counted(q)
         IN  /\ enc.q \in QueueOf /\ enc.state \in BOOLEAN /\ enc.lost \in BOOLEAN
             /\ enc.count \in -(MaxCounter + 1) .. MaxCounter + 1 /\ enc.last \in Int
             /\ \/ enc.state = lastRotaryState /\ enc.count = rotaryCounter
                \/ enc.lost
                \/ /\ enc.state = PinA(phase) /\ PinA(phase) # lastRotaryState
                   /\ enc.count = rotaryCounter + Direction(phase)
             /\ \/ enc.q = q /\ ~enc.lost
                \/ \E e \in Events : enc.q = queueEvent(q, e) /\ enc.lost = isFull(q)
<1> DEFINE closed == PinA(phase)
           count == rotaryCounter + Direction(phase)
           event == closed /\ count # lastRotaryCounter
           lost == event /\ isFull(q)
           e == [code |-> Menu0, param |-> count]
           enc == Counted(q)
<1>1. /\ MaxCounter \in Nat /\ rotaryCounter \in -MaxCounter .. MaxCounter
      /\ lastRotaryState \in BOOLEAN /\ lastRotaryCounter \in Int /\ phase \in Nat
  BY ControlsAssumption DEF ControlsAssumption, ControlTypeOK, WithinBound
<1>2. closed \in BOOLEAN /\ count \in -(MaxCounter + 1) .. MaxCounter + 1
  BY <1>1, PinsAre DEF Direction
<1>3. e \in Events /\ queueEvent(q, e) \in QueueOf
  <2>1. e \in Events /\ e \in Event
    BY <1>2, ControlsAssumption, ManagerAssumption DEF ControlsAssumption, ManagerAssumption, Event
  <2>2. QED
    BY <2>1, QueueEventKeeps
<1>4. CASE ~HasEncoder \/ Since(now) <= debounceDelay \/ closed = lastRotaryState
  <2>1. enc = [q |-> q, state |-> lastRotaryState, count |-> rotaryCounter,
               last |-> lastRotaryCounter, lost |-> FALSE]
    BY <1>4 DEF Counted
  <2>2. QED
    BY <1>1, <2>1
<1>5. CASE ~(~HasEncoder \/ Since(now) <= debounceDelay \/ closed = lastRotaryState)
  <2>1. enc = [q |-> IF event THEN queueEvent(q, e) ELSE q,
               state |-> IF lost THEN lastRotaryState ELSE closed, count |-> count,
               last |-> IF event THEN count ELSE lastRotaryCounter, lost |-> lost]
    BY <1>5 DEF Counted, Direction
  <2>2. /\ enc.q = (IF event THEN queueEvent(q, e) ELSE q)
        /\ enc.state = (IF lost THEN lastRotaryState ELSE closed) /\ enc.count = count
        /\ enc.last = (IF event THEN count ELSE lastRotaryCounter) /\ enc.lost = lost
    BY <2>1
  <2>3. closed # lastRotaryState
    BY <1>5
  <2>4. lost \in BOOLEAN /\ (~event => ~lost) /\ (event => lost = isFull(q))
    BY <1>2 DEF isFull
  <2> HIDE DEF enc, e, lost, event
  <2>5. \/ enc.q = q /\ ~enc.lost
        \/ \E x \in Events : enc.q = queueEvent(q, x) /\ enc.lost = isFull(q)
    BY <1>3, <2>2, <2>4
  <2>6. /\ enc.q \in QueueOf /\ enc.state \in BOOLEAN /\ enc.lost \in BOOLEAN
        /\ enc.count \in -(MaxCounter + 1) .. MaxCounter + 1 /\ enc.last \in Int
    BY <1>1, <1>2, <1>3, <2>2, <2>4
  <2>7. \/ enc.lost
        \/ /\ enc.state = PinA(phase) /\ PinA(phase) # lastRotaryState
           /\ enc.count = rotaryCounter + Direction(phase)
    BY <2>2, <2>3, <2>4
  <2>8. QED
    BY <2>5, <2>6, <2>7 DEF enc
<1>6. QED
  BY <1>4, <1>5

\* The first half of Loop().
LEMMA EncoderStep ==
  ASSUME ManagerInv, ControlInv, LoopEncoder
  PROVE  ManagerInv' /\ ControlInv'
<1> DEFINE q == queues["low"]
           enc == Counted(q)
<1>0. /\ q \in QueueOf /\ phase \in Nat /\ phase \in 0 .. MaxPhase /\ origin \in 0 .. MaxPhase
      /\ MaxPhase \in Nat /\ rotaryCounter \in Int /\ MaxCounter \in Nat
  BY ControlsAssumption
  DEF ControlsAssumption, ManagerInv, ManagerTypeOK, ControlInv, ControlTypeOK, Priorities
<1>1. /\ HasEncoder /\ call.pc = "app" /\ call' = [call EXCEPT !.pc = "key"]
      /\ queues' = [queues EXCEPT !["low"] = enc.q]
      /\ lastRotaryState' = enc.state /\ rotaryCounter' = enc.count /\ lastRotaryCounter' = enc.last
      /\ seen' = IF enc.state = PinA(phase) THEN phase ELSE seen
      /\ refused' = (refused \/ enc.lost)
      /\ UNCHANGED <<listVars, highDue, turn, pinVars, begun, buttonVars, lastKey, wasReset,
                     steady, raced, origin, missed>>
  BY DEF LoopEncoder
<1>2. /\ enc.q \in QueueOf /\ enc.state \in BOOLEAN /\ enc.lost \in BOOLEAN
      /\ enc.count \in -(MaxCounter + 1) .. MaxCounter + 1 /\ enc.last \in Int
      /\ \/ enc.state = lastRotaryState /\ enc.count = rotaryCounter
         \/ enc.lost
         \/ /\ enc.state = PinA(phase) /\ PinA(phase) # lastRotaryState
            /\ enc.count = rotaryCounter + Direction(phase)
  BY <1>0, CountedIs DEF LoopEncoder, ControlInv
<1> HIDE DEF enc
<1>3. ManagerInv'
  BY <1>1, <1>2, LoopKeepsManager
<1>4. ControlTypeOK'
  BY <1>0, <1>1, <1>2 DEF ControlInv, ControlTypeOK, pinVars, buttonVars, NotSeen
<1>5. DebounceIsSteady' /\ KeyTold'
  BY <1>1 DEF ControlInv, DebounceIsSteady, KeyTold, EventsTellState, pinVars, buttonVars, Since
<1>6. CountIsOfSeen'
  <2> SUFFICES ASSUME begun, ~missed, ~refused, ~enc.lost
               PROVE  IF seen' = NotSeen
                      THEN phase = origin /\ rotaryCounter' = 0 /\ lastRotaryState' = ~PinA(origin)
                      ELSE /\ seen' \in phase - 1 .. phase + 1 /\ rotaryCounter' = CountAt(seen')
                           /\ lastRotaryState' = PinA(seen')
    BY <1>1 DEF CountIsOfSeen, CountAt, pinVars
  <2>1. IF seen = NotSeen
        THEN phase = origin /\ rotaryCounter = 0 /\ lastRotaryState = ~PinA(origin)
        ELSE /\ seen \in phase - 1 .. phase + 1 /\ rotaryCounter = CountAt(seen)
             /\ lastRotaryState = PinA(seen)
    BY <1>1 DEF ControlInv, CountIsOfSeen
  <2>2. phase # NotSeen /\ CountAt(origin) = Direction(origin) /\ Direction(origin) \in Int
    <3>1. Edges(origin) - Edges(origin) = 0
      BY <1>0, EdgeStep
    <3>2. QED
      BY <1>0, <3>1 DEF NotSeen, CountAt, Direction
  <2>3. CASE enc.state # PinA(phase)
    BY <1>1, <1>2, <2>1, <2>3
  <2>4. CASE enc.state = PinA(phase)
    <3>1. seen' = phase /\ lastRotaryState' = PinA(phase) /\ phase \in phase - 1 .. phase + 1
      BY <1>0, <1>1, <2>4
    <3>2. rotaryCounter' = CountAt(phase)
      <4>1. CASE seen = NotSeen
        BY <1>0, <1>1, <1>2, <2>1, <2>2, <2>4, <4>1, PinsAre
      <4>2. CASE seen # NotSeen
        <5>1. seen \in Nat /\ seen \in phase - 1 .. phase + 1
          BY <2>1, <4>2 DEF ControlInv, ControlTypeOK
        <5>2. Edges(phase) - Edges(seen) = IF PinA(phase) = PinA(seen) THEN 0 ELSE Direction(phase)
          BY <1>0, <5>1, EdgeStep DEF Direction
        <5>3. rotaryCounter' = rotaryCounter + (Edges(phase) - Edges(seen))
          BY <1>0, <1>1, <1>2, <2>1, <2>4, <4>2, <5>2
        <5>4. Edges(phase) \in Int /\ Edges(seen) \in Int /\ Edges(origin) \in Int
          BY <1>0, <5>1 DEF Edges
        <5>5. QED
          BY <2>1, <4>2, <5>3, <5>4 DEF CountAt
      <4>3. QED
        BY <4>1, <4>2
    <3>3. QED
      BY <2>2, <3>1, <3>2
  <2>5. QED
    BY <2>3, <2>4
<1>7. QED
  BY <1>3, <1>4, <1>5, <1>6 DEF ControlInv

\* ButtonControl::Loop() takes the key over, tells of it, or says that it could not.
LEMMA KeyedIs ==
  ASSUME ControlTypeOK, NEW q \in QueueOf, NEW t \in 0 .. 1
  PROVE  LET key == Keyed(q, t)
         IN  /\ key.q \in QueueOf /\ key.told \in BOOLEAN /\ key.lost \in BOOLEAN
             /\ key.state \in BOOLEAN /\ key.error \in 0 .. 2
             /\ key.lost => key.state = keyDown /\ key.error = IF keyDown THEN 1 ELSE 2
             /\ ~key.lost => key.error = errorCode
             /\ ~key.lost /\ ~key.told => key.state = buttonState
             /\ key.told => key.state = keyDown
             /\ key.state # buttonState => key.state = keyDown /\ SteadyFor(t) > debounceDelay
             /\ \/ key.q = q /\ ~key.told /\ ~key.lost
                \/ key.q = queueEvent(q, KeyEvent) /\ key.lost = isFull(q)
<1> DEFINE event == SteadyFor(t) > debounceDelay /\ keyDown # buttonState
           lost == event /\ isFull(q)
           key == Keyed(q, t)
<1>1. keyDown \in BOOLEAN /\ buttonState \in BOOLEAN /\ errorCode \in 0 .. 2
  BY DEF ControlTypeOK
<1>2. KeyEvent \in Event /\ queueEvent(q, KeyEvent) \in QueueOf
  <2>1. KeyEvent \in Event
    BY DEF KeyEvent, Event, KeyPress, KeyRelease
  <2>2. QED
    BY <2>1, QueueEventKeeps
<1>3. key = [q |-> IF event THEN queueEvent(q, KeyEvent) ELSE q,
             state |-> IF event THEN keyDown ELSE buttonState,
             told |-> event /\ ~lost, lost |-> lost, error |-> KeyError(lost)]
  BY DEF Keyed
<1>4. /\ key.q = (IF event THEN queueEvent(q, KeyEvent) ELSE q)
      /\ key.state = (IF event THEN keyDown ELSE buttonState)
      /\ key.told = (event /\ ~lost) /\ key.lost = lost /\ key.error = KeyError(lost)
  BY <1>3
<1>5. /\ event \in BOOLEAN /\ lost \in BOOLEAN /\ (lost => event) /\ (event => lost = isFull(q))
      /\ (event => SteadyFor(t) > debounceDelay)
  BY DEF isFull
<1>6. KeyError(lost) = IF lost THEN IF keyDown THEN 1 ELSE 2 ELSE errorCode
  BY DEF KeyError
<1> HIDE DEF key, lost, event
<1>7. key.q \in QueueOf /\ key.told \in BOOLEAN /\ key.lost \in BOOLEAN
  BY <1>2, <1>4, <1>5
<1>8. key.state \in BOOLEAN /\ key.error \in 0 .. 2
  BY <1>1, <1>4, <1>5, <1>6
<1>9. /\ key.lost => key.state = keyDown /\ key.error = IF keyDown THEN 1 ELSE 2
      /\ ~key.lost => key.error = errorCode
  BY <1>4, <1>5, <1>6
<1>10. /\ (~key.lost /\ ~key.told => key.state = buttonState) /\ (key.told => key.state = keyDown)
       /\ (key.state # buttonState => key.state = keyDown /\ SteadyFor(t) > debounceDelay)
  BY <1>4, <1>5
<1>11. \/ key.q = q /\ ~key.told /\ ~key.lost
       \/ key.q = queueEvent(q, KeyEvent) /\ key.lost = isFull(q)
  BY <1>4, <1>5
<1>12. QED
  BY <1>7, <1>8, <1>9, <1>10, <1>11 DEF key

\* The second half of Loop(): a press only when the debounce time is over, which is when the
\* key was sampled down all along, or when the clock ticked in between.
LEMMA ButtonStep ==
  ASSUME ManagerInv, ControlInv, NEW t \in 0 .. 1, ButtonLoop(t)
  PROVE  /\ ManagerInv' /\ ControlInv'
         /\ buttonState' /\ ~buttonState => steady' > debounceDelay \/ raced'
<1> DEFINE q == queues["low"]
           key == Keyed(q, t)
<1>0. /\ q \in QueueOf /\ now \in 0 .. ClockMod - 1 /\ lastDebounceTime \in 0 .. ClockMod - 1
      /\ keyDown \in BOOLEAN /\ lastState \in BOOLEAN /\ buttonState \in BOOLEAN
      /\ steady \in Nat /\ ClockMod \in Nat \ {0} /\ debounceDelay \in Nat /\ errorCode \in 0 .. 2
      /\ lastKey \in {KeyPress, KeyRelease}
  BY ControlsAssumption
  DEF ControlsAssumption, ManagerInv, ManagerTypeOK, ControlInv, ControlTypeOK, Priorities
<1>1. /\ call.pc \in {"app", "key"} /\ (t = 1 => KeyChanged) /\ call' = InApp
      /\ queues' = [queues EXCEPT !["low"] = key.q]
      /\ lastState' = keyDown /\ buttonState' = key.state /\ errorCode' = key.error
      /\ lastDebounceTime' = IF KeyChanged THEN (now + t) % ClockMod ELSE lastDebounceTime
      /\ now' = (now + t) % ClockMod /\ idle' = t
      /\ lastKey' = IF key.told THEN KeyEvent.code ELSE lastKey
      /\ wasReset' = (wasReset /\ ~key.told)
      /\ steady' = IF KeyChanged THEN 0 ELSE steady
      /\ raced' = (KeyChanged /\ t = 1)
      /\ refused' = (refused \/ key.lost)
      /\ UNCHANGED <<listVars, highDue, turn, keyDown, phase, wiring, begun, rotaryVars, seen,
                     origin, missed>>
  BY DEF ButtonLoop
<1>2. /\ key.q \in QueueOf /\ key.told \in BOOLEAN /\ key.lost \in BOOLEAN
      /\ key.state \in BOOLEAN /\ key.error \in 0 .. 2
      /\ key.lost => key.state = keyDown /\ key.error = IF keyDown THEN 1 ELSE 2
      /\ ~key.lost => key.error = errorCode
      /\ ~key.lost /\ ~key.told => key.state = buttonState
      /\ key.told => key.state = keyDown
      /\ key.state # buttonState => key.state = keyDown /\ SteadyFor(t) > debounceDelay
  BY <1>0, KeyedIs DEF ControlInv
<1> HIDE DEF key
<1>3. ManagerInv'
  BY <1>1, <1>2, LoopKeepsManager
<1>4. /\ (now + t) % ClockMod \in 0 .. ClockMod - 1 /\ (t = 0 => (0 - t) % ClockMod = 0)
      /\ (t = 0 => (now + t) % ClockMod = now)
  <2>1. /\ (now + t) % ClockMod = IF now + t = ClockMod THEN 0 ELSE now + t
        /\ (now + t) % ClockMod \in 0 .. ClockMod - 1
        /\ (t = 0 => (0 - t) % ClockMod = 0)
    BY <1>0, NextTime
  <2>2. t = 0 => now + t = now /\ now + t # ClockMod
    BY <1>0
  <2>3. QED
    BY <2>1, <2>2
<1>5. KeyEvent.code = (IF keyDown THEN KeyPress ELSE KeyRelease) /\ KeyPress # KeyRelease
  BY DEF KeyEvent, KeyPress, KeyRelease
<1>6. ControlTypeOK'
  <2>1. /\ now' \in 0 .. ClockMod - 1 /\ lastDebounceTime' \in 0 .. ClockMod - 1 /\ idle' \in Nat
        /\ raced' \in BOOLEAN /\ lastKey' \in {KeyPress, KeyRelease} /\ steady' \in Nat
    BY <1>0, <1>1, <1>4, <1>5 DEF KeyChanged
  <2>2. QED
    BY <1>0, <1>1, <1>2, <2>1 DEF ControlInv, ControlTypeOK, rotaryVars
<1>7. DebounceIsSteady'
  <2>1. CASE KeyChanged
    <3>1. Since(now)' = 0
      <4>1. now' = lastDebounceTime' /\ now' \in 0 .. ClockMod - 1
        BY <1>1, <1>4, <2>1
      <4>2. 0 \in 0 .. ClockMod - 1 /\ now' \in Int
        BY <1>0, <4>1
      <4>3. now' - lastDebounceTime' = 0
        <5>1. \A x \in Int : x - x = 0
          OBVIOUS
        <5>2. QED
          BY <4>1, <4>2, <5>1
      <4>4. QED
        BY <1>0, <4>2, <4>3, ModSmall DEF Since
    <3>2. steady' = 0
      BY <1>1, <2>1
    <3>3. QED
      BY <3>1, <3>2 DEF DebounceIsSteady
  <2>2. CASE ~KeyChanged
    <3>1. /\ lastDebounceTime' = lastDebounceTime /\ now' = now /\ steady' = steady
          /\ lastState' = lastState
      BY <1>1, <1>4, <2>2 DEF KeyChanged
    <3>2. QED
      BY <3>1 DEF ControlInv, DebounceIsSteady, Since
  <2>3. QED
    BY <2>1, <2>2
<1>8. CountIsOfSeen'
  <2>1. refused' = FALSE => refused = FALSE
    BY <1>1 DEF ControlInv, ControlTypeOK
  <2>2. UNCHANGED <<phase, wiring, begun, lastRotaryState, rotaryCounter, seen, origin, missed>>
    BY <1>1 DEF rotaryVars
  <2>3. QED
    BY <1>1, <2>1, <2>2 DEF ControlInv, CountIsOfSeen, CountAt, HasEncoder
<1>9. KeyTold'
  <2>1. /\ begun' = begun /\ begun
        /\ buttonState /\ lastKey = KeyRelease => errorCode = 1
        /\ ~buttonState /\ lastKey = KeyPress => errorCode = 2 \/ wasReset
    BY <1>1 DEF ButtonLoop, ControlInv, KeyTold, EventsTellState
  <2>2. CASE key.told
    <3>1. lastKey' = (IF keyDown THEN KeyPress ELSE KeyRelease) /\ buttonState' = keyDown
      BY <1>1, <1>2, <1>5, <2>2
    <3>2. QED
      BY <1>5, <2>1, <3>1 DEF KeyTold, EventsTellState
  <2>3. CASE ~key.told /\ key.lost
    <3>1. buttonState' = keyDown /\ errorCode' = IF keyDown THEN 1 ELSE 2
      BY <1>1, <1>2, <2>3
    <3>2. QED
      BY <2>1, <3>1 DEF KeyTold, EventsTellState
  <2>4. CASE ~key.told /\ ~key.lost
    <3>1. /\ buttonState' = buttonState /\ errorCode' = errorCode /\ lastKey' = lastKey
          /\ wasReset' = (wasReset /\ TRUE)
      BY <1>1, <1>2, <2>4
    <3>2. QED
      BY <2>1, <3>1 DEF KeyTold, EventsTellState
  <2>5. QED
    BY <2>2, <2>3, <2>4
<1>10. ASSUME buttonState', ~buttonState
       PROVE  steady' > debounceDelay \/ raced'
  <2>1. keyDown /\ SteadyFor(t) > debounceDelay
    BY <1>1, <1>2, <1>10
  <2>2. CASE KeyChanged /\ t = 1
    BY <1>1, <2>2
  <2>3. CASE KeyChanged /\ t # 1
    <3>1. SteadyFor(t) = 0
      BY <1>4, <2>3 DEF SteadyFor
    <3>2. QED
      BY <1>0, <2>1, <3>1
  <2>4. CASE ~KeyChanged
    <3>1. SteadyFor(t) = Since(now) /\ lastState /\ steady' = steady
      BY <1>1, <2>1, <2>4 DEF SteadyFor, KeyChanged
    <3>2. Since(now) \in Int
      BY <1>0, SinceIs
    <3>3. QED
      BY <1>0, <2>1, <3>1, <3>2 DEF ControlInv, DebounceIsSteady
  <2>5. QED
    BY <2>2, <2>3, <2>4
<1>11. QED
  BY <1>3, <1>6, <1>7, <1>8, <1>9, <1>10 DEF ControlInv

LEMMA BeginStep ==
  ASSUME ManagerInv, ControlInv, Begin
  PROVE  ManagerInv' /\ ControlInv' /\ (buttonState' => buttonState)
<1>1. /\ begun' = TRUE /\ rotaryCounter' = 0 /\ lastRotaryState' = (HasEncoder /\ ~PinA(phase))
      /\ seen' = NotSeen /\ origin' = phase /\ missed' = FALSE
      /\ UNCHANGED <<managerVars, pinVars, lastRotaryCounter, lastKey, wasReset, steady, raced,
                     refused>>
      /\ ~begun
  BY DEF Begin
<1>2. \/ UNCHANGED buttonVars
      \/ errorCode' = 0 /\ lastDebounceTime' = 0 /\ lastState' = FALSE /\ buttonState' = FALSE
  BY DEF Begin, ResetButton
<1>3. ManagerInv'
  BY <1>1, ManagerIdle
<1>4. ControlTypeOK'
  <2>1. /\ 0 \in 0 .. ClockMod - 1 /\ 0 \in -(MaxCounter + 1) .. MaxCounter + 1
        /\ NotSeen \in 0 .. NotSeen
    BY ControlsAssumption DEF ControlsAssumption, NotSeen
  <2>2. /\ lastDebounceTime' \in 0 .. ClockMod - 1 /\ lastState' \in BOOLEAN
        /\ buttonState' \in BOOLEAN /\ errorCode' \in 0 .. 2
    <3>1. CASE UNCHANGED buttonVars
      BY <3>1 DEF ControlInv, ControlTypeOK, buttonVars
    <3>2. CASE ~UNCHANGED buttonVars
      <4>1. 0 \in 0 .. 2
        OBVIOUS
      <4>2. QED
        BY <1>2, <2>1, <3>2, <4>1
    <3>3. QED
      BY <3>1, <3>2
  <2>3. lastRotaryState' \in BOOLEAN /\ lastKey' \in {KeyPress, KeyRelease} /\ wasReset' \in BOOLEAN
    BY <1>1 DEF HasEncoder, ControlInv, ControlTypeOK
  <2>4. QED
    BY <1>1, <2>1, <2>2, <2>3 DEF ControlInv, ControlTypeOK, pinVars
<1>5. DebounceIsSteady'
  BY <1>1, <1>2 DEF ControlInv, DebounceIsSteady, pinVars, buttonVars, Since
<1>6. CountIsOfSeen'
  BY <1>1 DEF CountIsOfSeen, HasEncoder, pinVars
<1>7. KeyTold' /\ (buttonState' => buttonState)
  BY <1>1, <1>2 DEF ControlInv, KeyTold, EventsTellState, buttonVars, KeyPress, KeyRelease
<1>8. QED
  BY <1>3, <1>4, <1>5, <1>6, <1>7 DEF ControlInv

LEMMA ResetStep ==
  ASSUME ManagerInv, ControlInv, Reset
  PROVE  ManagerInv' /\ ControlInv' /\ ~buttonState'
<1>1. /\ errorCode' = 0 /\ lastDebounceTime' = 0 /\ lastState' = FALSE /\ buttonState' = FALSE
      /\ wasReset' = TRUE
      /\ UNCHANGED <<managerVars, pinVars, begun, rotaryVars, lastKey, steady, raced, seen, origin,
                     missed, refused>>
  BY DEF Reset, ResetButton
<1>2. ManagerInv'
  BY <1>1, ManagerIdle
<1>3. ControlTypeOK'
  <2>1. 0 \in 0 .. ClockMod - 1
    BY ControlsAssumption DEF ControlsAssumption
  <2>2. /\ errorCode' \in 0 .. 2 /\ lastDebounceTime' \in 0 .. ClockMod - 1
        /\ lastState' \in BOOLEAN /\ buttonState' \in BOOLEAN
    <3>1. 0 \in 0 .. 2
      OBVIOUS
    <3>2. QED
      BY <1>1, <2>1, <3>1
  <2>3. QED
    BY <1>1, <2>2 DEF ControlInv, ControlTypeOK, pinVars, rotaryVars
<1>4. DebounceIsSteady' /\ KeyTold'
  BY <1>1 DEF ControlInv, DebounceIsSteady, KeyTold, EventsTellState
<1>5. CountIsOfSeen'
  BY <1>1 DEF ControlInv, CountIsOfSeen, CountAt, HasEncoder, pinVars, rotaryVars
<1>6. QED
  BY <1>1, <1>2, <1>3, <1>4, <1>5 DEF ControlInv

LEMMA TickStep ==
  ASSUME ManagerInv, ControlInv, Tick
  PROVE  ManagerInv' /\ ControlInv' /\ UNCHANGED buttonState
<1>0. /\ now \in 0 .. ClockMod - 1 /\ lastDebounceTime \in 0 .. ClockMod - 1 /\ steady \in Nat
      /\ ClockMod \in Nat \ {0} /\ debounceDelay \in Nat /\ idle \in Nat
  BY ControlsAssumption DEF ControlsAssumption, ControlInv, ControlTypeOK
<1>1. /\ now' = (now + 1) % ClockMod /\ idle' = idle + 1
      /\ steady' = IF steady <= debounceDelay THEN steady + 1 ELSE steady
      /\ UNCHANGED <<managerVars, keyDown, phase, wiring, begun, buttonVars, rotaryVars, lastKey,
                     wasReset, raced, seen, origin, missed, refused>>
  BY DEF Tick
<1>2. /\ now' = IF now + 1 = ClockMod THEN 0 ELSE now + 1
      /\ now' \in 0 .. ClockMod - 1
  BY <1>0, <1>1, NextTime
<1>3. ManagerInv'
  BY <1>1, ManagerIdle
<1>4. ControlTypeOK'
  BY <1>0, <1>1, <1>2 DEF ControlInv, ControlTypeOK, buttonVars, rotaryVars
<1>5. DebounceIsSteady'
  <2>1. lastDebounceTime' = lastDebounceTime /\ lastState' = lastState
    BY <1>1 DEF buttonVars
  <2>2. /\ Since(now) = IF now >= lastDebounceTime THEN now - lastDebounceTime
                        ELSE now - lastDebounceTime + ClockMod
        /\ Since(now') = IF now' >= lastDebounceTime THEN now' - lastDebounceTime
                         ELSE now' - lastDebounceTime + ClockMod
    BY <1>0, <1>2, SinceIs
  <2>3. Since(now)' = Since(now')
    BY <2>1 DEF Since
  <2>4. Since(now') <= Since(now) + 1
    BY <1>0, <1>2, <2>2
  <2>5. Since(now) \in Int /\ Since(now') \in Int
    BY <1>0, <1>2, <2>2
  <2>6. lastState => Since(now) <= steady \/ steady > debounceDelay
    BY DEF ControlInv, DebounceIsSteady
  <2>7. lastState' => Since(now') <= steady' \/ steady' > debounceDelay
    BY <1>0, <1>1, <2>1, <2>4, <2>5, <2>6
  <2>8. QED
    BY <2>3, <2>7 DEF DebounceIsSteady
<1>6. CountIsOfSeen' /\ KeyTold' /\ UNCHANGED buttonState
  BY <1>1 DEF ControlInv, CountIsOfSeen, CountAt, KeyTold, EventsTellState, HasEncoder, buttonVars, rotaryVars
<1>7. QED
  BY <1>3, <1>4, <1>5, <1>6 DEF ControlInv

LEMMA HandStep ==
  ASSUME ManagerInv, ControlInv, MoveKey \/ \E d \in {-1, 1} : Turn(d)
  PROVE  ManagerInv' /\ ControlInv' /\ UNCHANGED buttonState
<1>1. CASE MoveKey
  <2>1. /\ keyDown' = ~keyDown
        /\ UNCHANGED <<managerVars, now, idle, phase, wiring, begun, buttonVars, rotaryVars, histories>>
    BY <1>1 DEF MoveKey
  <2>2. ManagerInv'
    BY <2>1, ManagerIdle
  <2>3. ControlTypeOK'
    BY <2>1 DEF ControlInv, ControlTypeOK, buttonVars, rotaryVars, histories
  <2>4. DebounceIsSteady' /\ CountIsOfSeen' /\ KeyTold' /\ UNCHANGED buttonState
    BY <2>1 DEF ControlInv, DebounceIsSteady, CountIsOfSeen, CountAt, KeyTold, EventsTellState, Since,
                HasEncoder, buttonVars, rotaryVars, histories
  <2>5. QED
    BY <2>2, <2>3, <2>4 DEF ControlInv
<1>2. ASSUME NEW d \in {-1, 1}, Turn(d)
      PROVE  ManagerInv' /\ ControlInv' /\ UNCHANGED buttonState
  <2>1. /\ phase + d \in 0 .. MaxPhase /\ phase' = phase + d /\ missed' = (missed \/ seen # phase)
        /\ UNCHANGED <<managerVars, now, idle, keyDown, wiring, begun, buttonVars, rotaryVars,
                       lastKey, wasReset, steady, raced, seen, origin, refused>>
    BY <1>2 DEF Turn
  <2>2. ManagerInv'
    BY <2>1, ManagerIdle
  <2>3. ControlTypeOK'
    BY <2>1 DEF ControlInv, ControlTypeOK, buttonVars, rotaryVars
  <2>4. DebounceIsSteady' /\ KeyTold' /\ UNCHANGED buttonState
    BY <2>1 DEF ControlInv, DebounceIsSteady, KeyTold, EventsTellState, Since, buttonVars
  <2>5. CountIsOfSeen'
    <3> SUFFICES ASSUME HasEncoder', begun', ~missed', ~refused'
                 PROVE  /\ seen' # NotSeen
                        /\ seen' \in phase' - 1 .. phase' + 1 /\ rotaryCounter' = CountAt(seen)'
                        /\ lastRotaryState' = PinA(seen')
      BY DEF CountIsOfSeen
    <3>1. /\ HasEncoder /\ begun /\ ~missed /\ ~refused /\ seen = phase
          /\ UNCHANGED <<rotaryCounter, lastRotaryState, origin, seen>>
      BY <2>1 DEF HasEncoder, rotaryVars
    <3>2. phase \in Nat /\ phase # NotSeen
      BY ControlsAssumption DEF ControlsAssumption, ControlInv, ControlTypeOK, NotSeen
    <3>3. rotaryCounter = CountAt(seen) /\ lastRotaryState = PinA(seen)
      BY <3>1, <3>2 DEF ControlInv, CountIsOfSeen
    <3>4. seen' \in phase' - 1 .. phase' + 1
      BY <2>1, <3>1, <3>2
    <3>5. QED
      BY <3>1, <3>2, <3>3, <3>4 DEF CountAt
  <2>6. QED
    BY <2>2, <2>3, <2>4, <2>5 DEF ControlInv
<1>3. QED
  BY <1>1, <1>2

LEMMA ControlIdle ==
  ASSUME ControlInv, UNCHANGED controlVars
  PROVE  ControlInv'
BY DEF ControlInv, ControlTypeOK, DebounceIsSteady, CountIsOfSeen, CountAt, KeyTold, EventsTellState, Since,
       HasEncoder, controlVars, pinVars, buttonVars, rotaryVars, histories

----------------------------------------------------------------------------
(***************************************************************************)
(* The theorems.                                                           *)
(***************************************************************************)
LEMMA StartHolds ==
  ASSUME ControlsInit, NEW table \in Seq(ListenerItem), EMInit(table)
  PROVE  ManagerInv /\ ControlInv
<1>1. ManagerInv
  <2>1. queues \in [Priorities -> QueueOf]
    BY EmptyQueueType DEF EMInit
  <2>2. call \in Calls
    BY DEF EMInit, InApp, Calls, Priorities, Event, kEventNone
  <2>3. turn \in Turns
    BY DEF EMInit, NoTurn, Turns
  <2>4. ManagerTypeOK
    BY <2>1, <2>2, <2>3 DEF EMInit, ManagerTypeOK
  <2>5. call.pc = "app"
    BY DEF EMInit, InApp
  <2>6. QED
    BY <2>4, <2>5 DEF ManagerInv, PopFindsEvent, HighCounted, OwedAreDue, Dispatching
<1>2. ControlTypeOK
  <2>1. /\ 0 \in 0 .. ClockMod - 1 /\ 0 \in -(MaxCounter + 1) .. MaxCounter + 1 /\ 0 \in 0 .. 2
        /\ NotSeen \in 0 .. NotSeen /\ 0 \in 0 .. MaxPhase /\ 1 \in 0 .. MaxPhase
    BY ControlsAssumption DEF ControlsAssumption, NotSeen
  <2>2. /\ phase \in 0 .. MaxPhase /\ origin \in 0 .. MaxPhase /\ seen \in 0 .. NotSeen
        /\ lastKey \in {KeyPress, KeyRelease}
    BY <2>1 DEF ControlsInit
  <2>3. /\ now \in 0 .. ClockMod - 1 /\ lastDebounceTime \in 0 .. ClockMod - 1 /\ idle \in Nat
        /\ errorCode \in 0 .. 2 /\ rotaryCounter \in -(MaxCounter + 1) .. MaxCounter + 1
        /\ lastRotaryCounter \in Int /\ steady \in Nat
    BY <2>1 DEF ControlsInit
  <2>4. QED
    BY <2>2, <2>3 DEF ControlsInit, ControlTypeOK
<1>3. DebounceIsSteady /\ CountIsOfSeen /\ KeyTold
  BY DEF ControlsInit, DebounceIsSteady, CountIsOfSeen, KeyTold, EventsTellState, KeyPress, KeyRelease
<1>4. QED
  BY <1>1, <1>2, <1>3 DEF ControlInv

LEMMA NextHolds ==
  ASSUME ManagerInv, ControlInv, [ControlsNext]_<<managerVars, controlVars>>
  PROVE  /\ ManagerInv' /\ ControlInv'
         /\ buttonState' /\ ~buttonState => steady' > debounceDelay \/ raced'
<1>1. CASE EMNext /\ UNCHANGED controlVars
  BY <1>1, ManagerStep, ControlIdle DEF controlVars, buttonVars
<1>2. CASE Begin
  BY <1>2, BeginStep
<1>3. CASE Reset
  BY <1>3, ResetStep
<1>4. CASE LoopEncoder
  BY <1>4, EncoderStep DEF LoopEncoder, buttonVars
<1>5. ASSUME NEW t \in 0 .. 1, ButtonLoop(t)
      PROVE  /\ ManagerInv' /\ ControlInv'
             /\ buttonState' /\ ~buttonState => steady' > debounceDelay \/ raced'
  BY <1>5, ButtonStep
<1>6. CASE Tick
  BY <1>6, TickStep
<1>7. CASE MoveKey \/ \E d \in {-1, 1} : Turn(d)
  BY <1>7, HandStep
<1>8. CASE UNCHANGED <<managerVars, controlVars>>
  BY <1>8, ManagerIdle, ControlIdle DEF controlVars, buttonVars
<1>9. QED
  BY <1>1, <1>2, <1>3, <1>4, <1>5, <1>6, <1>7, <1>8 DEF ControlsNext

\* The types, and what the counts, the debts and the histories say of each other, under
\* every order of interrupts, calls of listeners and polls.
THEOREM ControlsInvariant == ControlsSpec => [](ManagerInv /\ ControlInv)
<1>1. ASSUME NEW table \in Seq(ListenerItem), EMInit(table), ControlsInit
      PROVE  ManagerInv /\ ControlInv
  BY <1>1, StartHolds
<1>2. (\E table \in Seq(ListenerItem) : Len(table) <= kMaxListeners /\ EMInit(table)) /\ ControlsInit
        => ManagerInv /\ ControlInv
  BY <1>1
<1>3. ManagerInv /\ ControlInv /\ [ControlsNext]_<<managerVars, controlVars>>
        => (ManagerInv /\ ControlInv)'
  BY NextHolds
<1>4. QED
  BY <1>2, <1>3, PTL DEF ControlsSpec

\* processAllEvents() gives no low-priority event away before the high-priority events that
\* waited when it was called.
THEOREM HighGoesFirst == ControlsSpec => []HighFirst
<1>1. ManagerInv => HighFirst
  BY DEF ManagerInv, HighCounted, HighFirst, Dispatching
<1>2. QED
  BY <1>1, ControlsInvariant, PTL

\* sendEvent() reaches every listener that stays registered and enabled, unless an entry at
\* or before that of the running one is removed.
THEOREM AllAreTold == ControlsSpec => []NobodySkipped
<1>1. ManagerInv => NobodySkipped
  <2> SUFFICES ASSUME ManagerInv, call.pc = "send", AllCalled, ~turn.shifted
               PROVE  turn.owed \subseteq turn.told
    BY DEF NobodySkipped
  <2>1. Dispatching
    BY DEF Dispatching
  <2>2. QED
    BY <2>1 DEF ManagerInv, OwedAreDue, AllCalled
<1>2. QED
  BY <1>1, ControlsInvariant, PTL

\* Whatever was lost and reset: listeners that missed a press find error code 1; listeners that
\* missed a release find code 2 or, until they are told of the key again, a Reset() was called.
THEOREM ListenersKnowTheKey == ControlsSpec => []EventsTellState
BY ControlsInvariant, PTL DEF ControlInv, KeyTold

\* The encoder's count is that of the edges the knob was turned through.
THEOREM CountIsOfKnob == ControlsSpec => []CounterFollowsKnob
<1>1. ControlInv => CounterFollowsKnob
  <2>1. ControlInv => phase # NotSeen
    BY ControlsAssumption DEF ControlsAssumption, ControlInv, ControlTypeOK, NotSeen
  <2>2. QED
    BY <2>1 DEF ControlInv, CountIsOfSeen, CountAt, CounterFollowsKnob
<1>2. QED
  BY <1>1, ControlsInvariant, PTL

\* A press is reported after more than the debounce time of samples that agree, however the
\* clock wraps, or when it ticked between the two readings in one Loop().
THEOREM PressIsSteady == ControlsSpec => PressIsDebouncedUnlessRaced
<1>1. ManagerInv /\ ControlInv /\ [ControlsNext]_<<managerVars, controlVars>>
        => [buttonState' /\ ~buttonState => steady' > debounceDelay \/ raced']_controlVars
  BY NextHolds
<1>2. QED
  BY <1>1, ControlsInvariant, PTL DEF ControlsSpec, PressIsDebouncedUnlessRaced

----------------------------------------------------------------------------
(***************************************************************************)
(* Each queue as a first-in first-out queue.  What changes a queue accepts *)
(* or hands out one event; what changes neither a queue nor whose event is *)
(* being sent stutters or deals with that event.                           *)
(***************************************************************************)
FifoStep(p) ==
  \/ Sending(p) = <<>> /\ Pending(queues[p]) # <<>>
     /\ Sending(p)' = <<Head(Pending(queues[p]))>> /\ Pending(queues[p])' = Tail(Pending(queues[p]))
  \/ Sending(p)' = <<>> /\ Pending(queues[p])' = Pending(queues[p])
  \/ \E e \in Events : /\ Len(Pending(queues[p])) < kEventQueueSize
                       /\ Pending(queues[p])' = Append(Pending(queues[p]), e)
                       /\ Sending(p)' = Sending(p)
  \/ Sending(p)' = Sending(p) /\ Pending(queues[p])' = Pending(queues[p])

\* An event queued in one of the queues, while nothing happens to the calls.
LEMMA QueuedIsAccepted ==
  ASSUME ManagerInv, NEW p \in Priorities, NEW r \in Priorities, NEW e \in Events,
         queues' = [queues EXCEPT ![r] = queueEvent(queues[r], e)], Sending(p)' = Sending(p)
  PROVE  FifoStep(p)
<1>1. queues \in [Priorities -> QueueOf] /\ e \in Event
  BY ManagerAssumption DEF ManagerAssumption, Event, ManagerInv, ManagerTypeOK
<1>2. queues'[p] = IF p = r THEN queueEvent(queues[p], e) ELSE queues[p]
  BY <1>1
<1>3. Pending(queues[p])' = Pending(queues'[p])
  BY DEF Pending
<1>4. CASE p = r /\ ~isFull(queues[p])
  <2>1. /\ Pending(queueEvent(queues[p], e)) = Append(Pending(queues[p]), e)
        /\ Len(Pending(queues[p])) < kEventQueueSize
    BY <1>1, <1>4, QueueAccepts
  <2>2. QED
    BY <1>2, <1>3, <1>4, <2>1 DEF FifoStep
<1>5. CASE ~(p = r /\ ~isFull(queues[p]))
  <2>1. queues'[p] = queues[p]
    BY <1>2, <1>5, QueueRefuses
  <2>2. QED
    BY <1>3, <2>1 DEF FifoStep
<1>6. QED
  BY <1>4, <1>5

LEMMA DispatchIsFifo ==
  ASSUME ManagerInv, NEW p \in Priorities, Dispatch
  PROVE  FifoStep(p)
<1>0. queues \in [Priorities -> QueueOf] /\ call \in Calls
  BY DEF ManagerInv, ManagerTypeOK
<1>1. CASE Pop
  <2> DEFINE q == queues[call.pri]
  <2>1. q \in QueueOf /\ q.num > 0 /\ call.pri \in Priorities /\ call.pc = "pop"
    BY <1>0, <1>1 DEF Pop, ManagerInv, PopFindsEvent, Calls
  <2>2. /\ Pending(q) # <<>> /\ front(q) = Head(Pending(q)) /\ Pending(popEvent(q)) = Tail(Pending(q))
    BY <2>1, QueueHandsOut
  <2>3. /\ queues' = [queues EXCEPT ![call.pri] = popEvent(q)]
        /\ call' = [call EXCEPT !.pc = "send", !.event = front(q), !.at = 0, !.handled = FALSE]
    BY <1>1 DEF Pop
  <2>4. /\ Sending(p) = <<>>
        /\ Sending(p)' = IF p = call.pri THEN <<front(q)>> ELSE <<>>
    BY <1>0, <2>1, <2>3 DEF Sending, Dispatching, Calls
  <2>5. Pending(queues[p])' = Pending(queues'[p])
    BY DEF Pending
  <2> HIDE DEF q
  <2>6. queues'[p] = IF p = call.pri THEN popEvent(q) ELSE queues[p]
    BY <1>0, <2>3
  <2>7. CASE p = call.pri
    BY <2>2, <2>4, <2>5, <2>6, <2>7 DEF FifoStep, q
  <2>8. CASE p # call.pri
    BY <2>4, <2>5, <2>6, <2>8 DEF FifoStep
  <2>9. QED
    BY <2>7, <2>8
<1>2. CASE Test \/ Sent
  <2>1. queues' = queues /\ call'.pc \notin {"send", "callback"}
    <3>1. InApp.pc = "app"
      BY DEF InApp
    <3>2. CASE Test
      BY <1>0, <3>1, <3>2 DEF Test, Calls
    <3>3. CASE Sent
      BY <1>0, <3>1, <3>3 DEF Sent, Calls
    <3>4. QED
      BY <1>2, <3>2, <3>3
  <2>2. Sending(p)' = <<>> /\ Pending(queues[p])' = Pending(queues[p])
    BY <2>1 DEF Sending, Dispatching, Pending
  <2>3. QED
    BY <2>2 DEF FifoStep
<1>3. CASE Invoke \/ InvokeDefault \/ Return
  <2>1. /\ queues' = queues /\ call.pc \in {"send", "callback"} /\ call'.pc \in {"send", "callback"}
        /\ call'.event = call.event /\ call'.pri = call.pri
    <3>1. CASE Invoke
      BY <1>0, <3>1 DEF Invoke, Calls
    <3>2. CASE InvokeDefault
      BY <1>0, <3>2 DEF InvokeDefault, Calls
    <3>3. CASE Return
      BY <1>0, <3>3 DEF Return, Calls
    <3>4. QED
      BY <1>3, <3>1, <3>2, <3>3
  <2>2. Sending(p)' = Sending(p) /\ Pending(queues[p])' = Pending(queues[p])
    BY <2>1 DEF Sending, Dispatching, Pending
  <2>3. QED
    BY <2>2 DEF FifoStep
<1>4. QED
  BY <1>1, <1>2, <1>3 DEF Dispatch

LEMMA ManagerIsFifo ==
  ASSUME ManagerInv, NEW p \in Priorities, EMNext
  PROVE  FifoStep(p)
<1>1. CASE Dispatch
  BY <1>1, DispatchIsFifo
<1>2. CASE AppCalls
  <2>1. UNCHANGED <<queues, call>>
    BY <1>2, TableType DEF ManagerInv
  <2>2. QED
    BY <2>1 DEF FifoStep, Sending, Dispatching, Pending
<1>3. ASSUME NEW all \in BOOLEAN, Process(all)
      PROVE  FifoStep(p)
  BY <1>3 DEF Process, InApp, FifoStep, Sending, Dispatching, Pending
<1>4. ASSUME NEW r \in Priorities, NEW e \in Events, QueueEvent(r, e)
      PROVE  FifoStep(p)
  <2>1. Sending(p)' = Sending(p)
    BY <1>4 DEF QueueEvent, Sending, Dispatching
  <2>2. QED
    BY <1>4, <2>1, QueuedIsAccepted DEF QueueEvent
<1>5. QED
  BY <1>1, <1>2, <1>3, <1>4 DEF EMNext

LEMMA LoopIsFifo ==
  ASSUME ManagerInv, ControlInv, NEW p \in Priorities,
         LoopEncoder \/ \E t \in 0 .. 1 : ButtonLoop(t)
  PROVE  FifoStep(p)
<1> DEFINE q == queues["low"]
<1>0. q \in QueueOf /\ queues \in [Priorities -> QueueOf] /\ call \in Calls
  BY DEF ManagerInv, ManagerTypeOK, Priorities
<1>1. ASSUME NEW r, r = q \/ \E e \in Events : r = queueEvent(q, e),
             queues' = [queues EXCEPT !["low"] = r], Sending(p)' = Sending(p)
      PROVE  FifoStep(p)
  <2>1. CASE r = q
    <3>1. queues' = queues
      BY <1>0, <1>1, <2>1 DEF Priorities
    <3>2. QED
      BY <1>1, <3>1 DEF FifoStep, Pending
  <2>2. ASSUME NEW e \in Events, r = queueEvent(q, e)
        PROVE  FifoStep(p)
    BY <1>1, <2>2, QueuedIsAccepted DEF Priorities
  <2>3. QED
    BY <1>1, <2>1, <2>2
<1>2. ASSUME call.pc \in {"app", "key"}, call'.pc \in {"app", "key"}
      PROVE  Sending(p)' = Sending(p)
  BY <1>2 DEF Sending, Dispatching
<1>3. CASE LoopEncoder
  <2>1. /\ queues' = [queues EXCEPT !["low"] = Counted(q).q] /\ call.pc = "app" /\ call'.pc = "key"
    BY <1>0, <1>3 DEF LoopEncoder, Calls
  <2>2. Counted(q).q = q \/ \E e \in Events : Counted(q).q = queueEvent(q, e)
    BY <1>0, <1>3, CountedIs DEF LoopEncoder, ControlInv
  <2> HIDE DEF q
  <2>3. QED
    BY <1>1, <1>2, <2>1, <2>2
<1>4. ASSUME NEW t \in 0 .. 1, ButtonLoop(t)
      PROVE  FifoStep(p)
  <2>1. /\ queues' = [queues EXCEPT !["low"] = Keyed(q, t).q] /\ call.pc \in {"app", "key"}
        /\ call'.pc = "app"
    BY <1>4 DEF ButtonLoop, InApp
  <2>2. Keyed(q, t).q = q \/ Keyed(q, t).q = queueEvent(q, KeyEvent)
    BY <1>0, KeyedIs DEF ControlInv
  <2>3. KeyEvent \in Events
    BY ControlsAssumption DEF ControlsAssumption, KeyEvent
  <2> HIDE DEF q
  <2>4. QED
    BY <1>1, <1>2, <2>1, <2>2, <2>3
<1>5. QED
  BY <1>3, <1>4

LEMMA NextIsFifo ==
  ASSUME ManagerInv, ControlInv, NEW p \in Priorities,
         [ControlsNext]_<<managerVars, controlVars>>
  PROVE  FifoStep(p)
<1>1. CASE EMNext
  BY <1>1, ManagerIsFifo
<1>2. CASE UNCHANGED managerVars
  BY <1>2 DEF managerVars, FifoStep, Sending, Dispatching, Pending
<1>3. CASE LoopEncoder \/ \E t \in 0 .. 1 : ButtonLoop(t)
  BY <1>3, LoopIsFifo
<1>4. QED
  BY <1>1, <1>2, <1>3 DEF ControlsNext, Begin, Reset, Tick, MoveKey, Turn

\* Whatever interrupts queue between two steps of the library, each queue hands every event
\* it accepted out once, in the order of acceptance.
THEOREM QueuesKeepOrder == ControlsSpec => QueuesAreFifos
<1>1. (\E table \in Seq(ListenerItem) : Len(table) <= kMaxListeners /\ EMInit(table))
        => High!EFInit /\ Low!EFInit
  <2>1. ASSUME NEW table, EMInit(table), NEW p \in Priorities
        PROVE  Pending(queues[p]) = <<>> /\ Sending(p) = <<>>
    BY <2>1, EmptyQueueType DEF EMInit, InApp, Sending, Dispatching
  <2>2. QED
    BY <2>1 DEF High!EFInit, Low!EFInit, Priorities
<1>2. ManagerInv /\ ControlInv /\ [ControlsNext]_<<managerVars, controlVars>>
        => [High!EFNext]_<<Pending(queues["high"]), Sending("high")>>
  <2>1. FifoStep("high") => [High!EFNext]_<<Pending(queues["high"]), Sending("high")>>
    BY DEF FifoStep, High!EFNext, High!HandOut, High!Finish, High!Accept
  <2>2. QED
    BY <2>1, NextIsFifo DEF Priorities
<1>3. ManagerInv /\ ControlInv /\ [ControlsNext]_<<managerVars, controlVars>>
        => [Low!EFNext]_<<Pending(queues["low"]), Sending("low")>>
  <2>1. FifoStep("low") => [Low!EFNext]_<<Pending(queues["low"]), Sending("low")>>
    BY DEF FifoStep, Low!EFNext, Low!HandOut, Low!Finish, Low!Accept
  <2>2. QED
    BY <2>1, NextIsFifo DEF Priorities
<1>4. QED
  BY <1>1, <1>2, <1>3, ControlsInvariant, PTL
  DEF ControlsSpec, QueuesAreFifos, High!EFSpec, Low!EFSpec
=============================================================================
