------------------------- MODULE CanbusMonitor_proofs -------------------------
(***************************************************************************)
(* The monitor and its message store, for every capacity and entry width,  *)
(* range of the setting, timeout, set of frames and behaviour of encoder,  *)
(* button and host.  The store: update() and clear() keep the entries      *)
(* entries and track no identifier twice, and read up to each entry's      *)
(* length the array is the finite map its comment promises.  The monitor:  *)
(* its types, its selection, the settings it sends and its start-up; and   *)
(* that to the rest of the bus it is a QnhPanel.                           *)
(***************************************************************************)
EXTENDS CanbusMonitor, MessageStore, FiniteSetTheorems, TLAPS

----------------------------------------------------------------------------
(***************************************************************************)
(* The message store.                                                      *)
(***************************************************************************)
LEMMA KeptType ==
  ASSUME NEW m \in Frames
  PROVE  /\ Kept(m) \in 0 .. EntryBytes
         /\ Kept(m) = IF Len(m.data) < EntryBytes THEN Len(m.data) ELSE EntryBytes
         /\ \A b \in 1 .. Kept(m) : m.data[b] \in Bytes
<1>1. m.data \in Seq(Bytes) /\ Len(m.data) \in Nat /\ EntryBytes \in Nat
  BY StoreAssumption DEF StoreAssumption
<1>2. \A b \in 1 .. Len(m.data) : m.data[b] \in Bytes
  BY <1>1
<1>3. Kept(m) \in 0 .. EntryBytes /\ Kept(m) <= Len(m.data)
  BY <1>1 DEF Kept
<1>4. QED
  BY <1>1, <1>2, <1>3 DEF Kept

\* An entry filled from a frame holds that frame, up to the width of the entry.
LEMMA FillIsFrame ==
  ASSUME NEW m \in Frames, NEW e \in Entry
  PROVE  /\ Fill(e, m) \in Entry
         /\ Fill(e, m).id = m.id
         /\ [b \in 1 .. Fill(e, m).length |-> Fill(e, m).data[b]] = [b \in 1 .. Kept(m) |-> m.data[b]]
<1>1. m.id \in Nat /\ EntryBytes \in Nat
  BY StoreAssumption DEF StoreAssumption
<1> DEFINE d == [b \in 1 .. EntryBytes |-> IF b <= Kept(m) THEN m.data[b] ELSE e.data[b]]
<1>2. d \in [1 .. EntryBytes -> Bytes]
  <2>1. \A b \in 1 .. EntryBytes : e.data[b] \in Bytes
    BY DEF Entry
  <2>2. \A b \in 1 .. EntryBytes : b <= Kept(m) => m.data[b] \in Bytes
    BY KeptType, <1>1
  <2>3. QED
    BY <2>1, <2>2
<1>3. Fill(e, m) = [id |-> m.id, length |-> Kept(m), data |-> d]
  BY DEF Fill
<1>4. Fill(e, m) \in Entry
  BY <1>1, <1>2, <1>3, KeptType DEF Entry
<1>5. \A b \in 1 .. Kept(m) : d[b] = m.data[b]
  BY KeptType, <1>1
<1>6. QED
  BY <1>3, <1>4, <1>5

LEMMA StoreStart == ASSUME StoreInit PROVE StoreTypeOK /\ TrackedOnce
<1>1. [id |-> 0, length |-> 0, data |-> [b \in 1 .. EntryBytes |-> 0]] \in Entry
  BY StoreAssumption DEF StoreAssumption, Entry, Bytes
<1>2. StoreTypeOK
  BY <1>1, StoreAssumption DEF StoreAssumption, StoreInit, Zeroed, StoreTypeOK
<1>3. TrackedOnce
  BY DEF StoreInit, TrackedOnce
<1>4. QED
  BY <1>2, <1>3

LEMMA ZeroedType == Zeroed \in [1 .. MaxTracked -> Entry]
<1>1. [id |-> 0, length |-> 0, data |-> [b \in 1 .. EntryBytes |-> 0]] \in Entry
  BY StoreAssumption DEF StoreAssumption, Entry, Bytes
<1>2. QED
  BY <1>1 DEF Zeroed

LEMMA ClearStep ==
  ASSUME StoreTypeOK, clear
  PROVE  StoreTypeOK' /\ TrackedOnce'
<1>1. MaxTracked \in Nat \ {0}
  BY StoreAssumption DEF StoreAssumption
<1>2. QED
  BY <1>1 DEF clear, StoreTypeOK, TrackedOnce

\* update() neither forgets a tracked identifier nor tracks one twice.
LEMMA UpdateStep ==
  ASSUME StoreTypeOK, TrackedOnce, NEW m \in Frames, update(m)
  PROVE  /\ StoreTypeOK' /\ TrackedOnce' /\ count' >= count
         /\ \A i \in 1 .. count : slots'[i].id = slots[i].id
<1>0. MaxTracked \in Nat \ {0} /\ count \in Nat
  BY StoreAssumption DEF StoreAssumption, StoreTypeOK
<1> DEFINE Goal == /\ StoreTypeOK' /\ TrackedOnce' /\ count' >= count
                   /\ \A i \in 1 .. count : slots'[i].id = slots[i].id
<1>1. CASE Refresh(m)
  <2>1. PICK i \in 1 .. MaxTracked : Holds(i, m) /\ slots' = [slots EXCEPT ![i] = Fill(slots[i], m)]
    BY <1>1 DEF Refresh
  <2>2. count' = count
    BY <1>1 DEF Refresh
  <2>3. Fill(slots[i], m) \in Entry /\ Fill(slots[i], m).id = m.id
    BY FillIsFrame DEF StoreTypeOK
  <2>4. StoreTypeOK'
    BY <2>1, <2>2, <2>3 DEF StoreTypeOK
  <2>5. \A j \in 1 .. MaxTracked : slots'[j].id = slots[j].id
    BY <2>1, <2>3 DEF Holds, StoreTypeOK
  <2>6. \A j \in 1 .. count : slots'[j].id = slots[j].id
    BY <1>0, <2>5 DEF StoreTypeOK
  <2>7. TrackedOnce'
    BY <1>0, <2>2, <2>6 DEF TrackedOnce
  <2>8. QED
    BY <1>0, <2>2, <2>4, <2>6, <2>7
<1>2. CASE Add(m)
  <2>1. /\ count + 1 \in 1 .. MaxTracked /\ count' = count + 1
        /\ slots' = [slots EXCEPT ![count + 1] = Fill(slots[count + 1], m)]
    BY <1>0, <1>2 DEF Add, StoreTypeOK
  <2>2. Fill(slots[count + 1], m) \in Entry /\ Fill(slots[count + 1], m).id = m.id
    BY <2>1, FillIsFrame DEF StoreTypeOK
  <2>3. StoreTypeOK'
    BY <1>0, <2>1, <2>2 DEF StoreTypeOK
  <2>4. \A j \in 1 .. count : slots'[j] = slots[j] /\ slots[j].id # m.id
    BY <1>0, <1>2, <2>1 DEF Add, IsNew, Holds, StoreTypeOK
  <2>5. slots'[count + 1].id = m.id
    BY <2>1, <2>2 DEF StoreTypeOK
  <2>6. TrackedOnce'
    BY <1>0, <2>1, <2>4, <2>5 DEF TrackedOnce
  <2>7. QED
    BY <1>0, <2>1, <2>3, <2>4, <2>6
<1>3. CASE Drop(m)
  BY <1>0, <1>3 DEF Drop, storeVars, StoreTypeOK, TrackedOnce
<1>4. QED
  BY <1>1, <1>2, <1>3 DEF update
----------------------------------------------------------------------------
\* Type correctness and unique identifiers, together inductive.
THEOREM StoreCorrect == Spec => [](StoreTypeOK /\ TrackedOnce)
<1>1. Init => StoreTypeOK /\ TrackedOnce
  BY StoreStart DEF Init
<1>2. StoreTypeOK /\ TrackedOnce /\ [Next]_vars => StoreTypeOK' /\ TrackedOnce'
  <2> SUFFICES ASSUME StoreTypeOK, TrackedOnce, [Next]_vars
               PROVE  StoreTypeOK' /\ TrackedOnce'
    OBVIOUS
  <2>1. CASE Cleared
    BY <2>1, ClearStep DEF Cleared
  <2>2. ASSUME NEW m \in Frames, Updated(m)
        PROVE  StoreTypeOK' /\ TrackedOnce'
    BY <2>2, UpdateStep DEF Updated
  <2>3. CASE UNCHANGED vars
    BY <2>3 DEF vars, StoreTypeOK, TrackedOnce
  <2>4. QED
    BY <2>1, <2>2, <2>3 DEF Next
<1>3. QED
  BY <1>1, <1>2, PTL DEF Spec

----------------------------------------------------------------------------
LEMMA EntryIsUnique ==
  ASSUME TrackedOnce, NEW i \in 1 .. count
  PROVE  EntryOf(slots[i].id) = i
BY DEF TrackedOnce, EntryOf

\* As many identifiers are tracked as entries are used.
LEMMA TrackedNumber ==
  ASSUME StoreTypeOK, TrackedOnce
  PROVE  Cardinality(Tracked) = count
<1> DEFINE f == [i \in 1 .. count |-> slots[i].id]
<1>1. count \in Nat
  BY StoreAssumption DEF StoreTypeOK, StoreAssumption
<1>2. f \in Bijection(1 .. count, Tracked)
  <2>1. f \in [1 .. count -> Tracked]
    BY DEF Tracked
  <2>2. \A i, j \in 1 .. count : f[i] = f[j] => i = j
    BY DEF TrackedOnce
  <2>3. \A t \in Tracked : \E i \in 1 .. count : f[i] = t
    BY DEF Tracked
  <2>4. QED
    BY <2>1, <2>2, <2>3 DEF Bijection, Injection, Surjection, IsInjective
<1>3. ExistsBijection(1 .. count, Tracked)
  BY <1>2 DEF ExistsBijection
<1>4. IsFiniteSet(1 .. count) /\ Cardinality(1 .. count) = count
  BY <1>1, FS_Interval
<1>5. QED
  BY <1>3, <1>4, FS_Bijection

\* The instance brings its own copy of the library's Cardinality.
LEMMA SameCardinality == \A S : Store!Cardinality(S) = Cardinality(S)
  BY DEF Store!Cardinality, Cardinality, Store!IsFiniteSet, IsFiniteSet

\* The array of entries, stale bytes and all, implements the map of latest frames.
THEOREM Implementation == Spec => ImplementsLatestFrames
<1> DEFINE L == [id \in Tracked |-> FrameOf(EntryOf(id))]
<1>1. Init => Store!LFInit
  <2> SUFFICES ASSUME Init PROVE Store!LFInit
    OBVIOUS
  <2>1. Tracked = {}
    BY DEF Init, StoreInit, Tracked
  <2>2. L = <<>>
    BY <2>1
  <2>3. QED
    BY <2>2 DEF Store!LFInit, Init
<1>2. /\ StoreTypeOK /\ TrackedOnce /\ StoreTypeOK' /\ TrackedOnce'
      /\ [Next]_vars
      => [Store!LFNext]_<<L, handled>>
  <2> SUFFICES ASSUME StoreTypeOK, TrackedOnce, StoreTypeOK', TrackedOnce', [Next]_vars
               PROVE  [Store!LFNext]_<<L, handled>>
    OBVIOUS
  <2>0. MaxTracked \in Nat \ {0} /\ count \in Nat
    BY StoreAssumption DEF StoreAssumption, StoreTypeOK
  <2>a. \A i \in 1 .. count : L[slots[i].id] = FrameOf(i)
    BY EntryIsUnique DEF Tracked
  <2>b. \A i \in 1 .. count' : L'[slots'[i].id] = FrameOf(i)'
    <3>1. \A i \in 1 .. count' : EntryOf(slots[i].id)' = i
      BY DEF TrackedOnce, EntryOf
    <3>2. QED
      BY <3>1 DEF Tracked
  <2>c. Cardinality(DOMAIN L) = count
    BY TrackedNumber
  <2>cleared. CASE Cleared
    <3>1. Tracked' = {}
      BY <2>cleared DEF Cleared, clear, Tracked
    <3>2. L' = <<>>
      BY <3>1
    <3>3. QED
      BY <2>cleared, <3>2 DEF Cleared, clear, Store!LFNext, Store!Forget
  <2>refreshed. ASSUME NEW m \in Frames, Refresh(m), handled' = <<m>>
        PROVE  Store!Remember(m)
    <3>1. PICK i \in 1 .. MaxTracked : Holds(i, m) /\ slots' = [slots EXCEPT ![i] = Fill(slots[i], m)]
      BY <2>refreshed DEF Refresh
    <3>2. count' = count /\ i \in 1 .. count /\ slots[i].id = m.id
      BY <2>0, <2>refreshed, <3>1 DEF Refresh, Holds
    <3>3. slots'[i] = Fill(slots[i], m) /\ slots[i] \in Entry
      BY <3>1 DEF StoreTypeOK
    <3>4. \A j \in 1 .. MaxTracked : j # i => slots'[j] = slots[j]
      BY <3>1 DEF StoreTypeOK
    <3>5. slots'[i].id = m.id /\ FrameOf(i)' = Store!Payload(m)
      BY <3>3, FillIsFrame DEF FrameOf, Store!Payload, Kept
    <3>6. Tracked' = Tracked /\ Tracked = Tracked \union {m.id}
      BY <2>0, <3>2, <3>4, <3>5 DEF Tracked, StoreTypeOK
    <3>7. \A id \in Tracked : L'[id] = IF id = m.id THEN Store!Payload(m) ELSE L[id]
      <4> SUFFICES ASSUME NEW id \in Tracked
                   PROVE  L'[id] = IF id = m.id THEN Store!Payload(m) ELSE L[id]
        OBVIOUS
      <4>1. PICK j \in 1 .. count : slots[j].id = id
        BY DEF Tracked
      <4>2. CASE j = i
        BY <2>b, <3>2, <3>5, <4>1, <4>2
      <4>3. CASE j # i
        <5>1. slots'[j] = slots[j] /\ j \in 1 .. count'
          BY <2>0, <3>2, <3>4, <4>1, <4>3 DEF StoreTypeOK
        <5>2. id # m.id
          BY <3>2, <4>1, <4>3 DEF TrackedOnce
        <5>3. FrameOf(j)' = FrameOf(j)
          BY <5>1 DEF FrameOf
        <5>4. L'[id] = FrameOf(j)'
          BY <2>b, <4>1, <5>1
        <5>5. QED
          BY <2>a, <4>1, <5>2, <5>3, <5>4
      <4>4. QED
        BY <4>2, <4>3
    <3>8. m.id \in DOMAIN L
      BY <3>2 DEF Tracked
    <3>9. L' = [id \in DOMAIN L \union {m.id} |-> IF id = m.id THEN Store!Payload(m) ELSE L[id]]
      BY <3>6, <3>7
    <3>10. QED
      BY <2>refreshed, <3>8, <3>9, SameCardinality DEF Store!Remember, Store!Room
  <2>added. ASSUME NEW m \in Frames, Add(m), handled' = <<m>>
        PROVE  Store!Remember(m)
    <3>0. /\ count + 1 \in 1 .. MaxTracked /\ count' = count + 1
          /\ slots' = [slots EXCEPT ![count + 1] = Fill(slots[count + 1], m)]
      BY <2>0, <2>added DEF Add, StoreTypeOK
    <3>1. PICK k \in 1 .. MaxTracked : /\ k = count + 1 /\ count' = k
                                       /\ slots' = [slots EXCEPT ![k] = Fill(slots[k], m)]
      BY ONLY <3>0, Zenon
    <3>2. slots'[k] = Fill(slots[k], m) /\ slots[k] \in Entry
      BY <3>1 DEF StoreTypeOK
    <3>3. slots'[k].id = m.id /\ FrameOf(k)' = Store!Payload(m)
      BY <3>2, FillIsFrame DEF FrameOf, Store!Payload, Kept
    <3>4. \A j \in 1 .. count : slots'[j] = slots[j] /\ slots[j].id # m.id
      BY <2>0, <2>added, <3>1 DEF Add, IsNew, Holds, StoreTypeOK
    <3>5. Tracked' = Tracked \union {m.id}
      BY <2>0, <3>1, <3>3, <3>4 DEF Tracked
    <3>6. \A id \in Tracked' : L'[id] = IF id = m.id THEN Store!Payload(m) ELSE L[id]
      <4> SUFFICES ASSUME NEW id \in Tracked'
                   PROVE  L'[id] = IF id = m.id THEN Store!Payload(m) ELSE L[id]
        OBVIOUS
      <4>1. PICK j \in 1 .. count' : slots'[j].id = id
        BY DEF Tracked
      <4>2. CASE j = k
        BY <2>b, <3>3, <4>1, <4>2
      <4>3. CASE j # k
        <5>1. j \in 1 .. count /\ slots'[j] = slots[j]
          BY <2>0, <3>1, <3>4, <4>1, <4>3
        <5>2. id # m.id
          BY <3>4, <4>1, <5>1
        <5>3. FrameOf(j)' = FrameOf(j)
          BY <5>1 DEF FrameOf
        <5>4. L'[id] = FrameOf(j)'
          BY <2>b, <4>1
        <5>5. QED
          BY <2>a, <4>1, <5>1, <5>2, <5>3, <5>4
      <4>4. QED
        BY <4>2, <4>3
    <3>7. L' = [id \in DOMAIN L \union {m.id} |-> IF id = m.id THEN Store!Payload(m) ELSE L[id]]
      BY <3>5, <3>6
    <3>8. Cardinality(DOMAIN L) < MaxTracked
      BY <2>0, <2>added, <2>c DEF Add
    <3>9. QED
      BY <2>added, <3>7, <3>8, SameCardinality DEF Store!Remember, Store!Room
  <2>dropped. ASSUME NEW m \in Frames, Drop(m), handled' = <<m>>
        PROVE  Store!Ignore(m)
    <3>1. m.id \notin DOMAIN L
      BY <2>0, <2>dropped DEF Drop, IsNew, Holds, Tracked, StoreTypeOK
    <3>2. ~(Cardinality(DOMAIN L) < MaxTracked)
      BY <2>0, <2>dropped, <2>c DEF Drop
    <3>3. L' = L
      BY <2>dropped DEF Drop, storeVars, Tracked, FrameOf, EntryOf
    <3>4. QED
      BY <2>dropped, <3>1, <3>2, <3>3, SameCardinality DEF Store!Ignore, Store!Room
  <2>stutter. CASE UNCHANGED vars
    BY <2>stutter DEF vars, Tracked, FrameOf, EntryOf
  <2> QED
    BY <2>cleared, <2>refreshed, <2>added, <2>dropped, <2>stutter DEF Next, Updated, update, Store!LFNext
<1>3. QED
  BY <1>1, <1>2, StoreCorrect, PTL DEF Spec, ImplementsLatestFrames, Store!LFSpec

----------------------------------------------------------------------------
(***************************************************************************)
(* The monitor.                                                            *)
(***************************************************************************)
\* The start-up: a node that may transmit on the bus has passed its test.
CanInv ==
  /\ boot \in {"off", "begin"} => ~initialized /\ ~verified
  /\ boot \in {"send", "verify", "switch"} => initialized /\ mode = "loopback"
  /\ boot \in {"announce", "reinit"} => initialized /\ mode = "normal"
  /\ boot \in {"switch", "announce", "reinit", "ok"} => verified
  /\ boot = "reinit" => Reinit
  /\ OperationalMeansTested
  /\ ~verified => wire = {} /\ ~(initialized /\ mode = "normal")
  /\ "TEST" \notin wire

CanPart == CanTypeOK /\ CanInv

\* The setting being edited stays where the encoder's clamp puts it.
SetupInRange == QnhMin <= setupQnh /\ setupQnh <= QnhMax

----------------------------------------------------------------------------
(***************************************************************************)
(* The start-up.                                                           *)
(***************************************************************************)
LEMMA CanTypeStep ==
  ASSUME CanTypeOK, StartupStep
  PROVE  CanTypeOK'
<1> USE StartupAssumption DEF StartupAssumption, CanTypeOK, Modes, BootPhases
<1>1. CASE EnterStartup
  BY <1>1 DEF EnterStartup
<1>2. CASE BeginLoopback
  BY <1>2 DEF BeginLoopback, BeginOK, BeginFails
<1>3. CASE SendTest
  BY <1>3 DEF SendTest, Transmit
<1>4. CASE VerifyTest
  BY <1>4 DEF VerifyTest
<1>5. CASE SwitchToNormal
  BY <1>5 DEF SwitchToNormal, SetModeFails
<1>6. CASE Announce
  BY <1>6 DEF Announce, Transmit
<1>7. CASE BeginFinal
  BY <1>7 DEF BeginFinal, BeginOK, BeginFails
<1>8. QED
  BY <1>1, <1>2, <1>3, <1>4, <1>5, <1>6, <1>7 DEF StartupStep

LEMMA CanInvStep ==
  ASSUME CanTypeOK, CanInv, StartupStep
  PROVE  CanInv'
<1> USE StartupAssumption
    DEF StartupAssumption, CanTypeOK, CanInv, OperationalMeansTested, Modes, BootPhases
<1>1. CASE EnterStartup
  BY <1>1 DEF EnterStartup
<1>2. CASE BeginLoopback
  BY <1>2 DEF BeginLoopback, BeginOK, BeginFails
<1>3. CASE SendTest
  BY <1>3 DEF SendTest, Transmit
<1>4. CASE VerifyTest
  BY <1>4 DEF VerifyTest
<1>5. CASE SwitchToNormal
  BY <1>5 DEF SwitchToNormal, SetModeFails
<1>6. CASE Announce
  BY <1>6 DEF Announce, Transmit
<1>7. CASE BeginFinal
  BY <1>7 DEF BeginFinal, BeginOK, BeginFails
<1>8. QED
  BY <1>1, <1>2, <1>3, <1>4, <1>5, <1>6, <1>7 DEF StartupStep

LEMMA CanPartStart == ASSUME CanInit PROVE CanPart
  BY DEF CanInit, CanPart, CanTypeOK, BootPhases, CanInv, OperationalMeansTested

LEMMA StartupKeeps == ASSUME CanPart, StartupStep PROVE CanPart'
  BY CanTypeStep, CanInvStep DEF CanPart

LEMMA ResetKeeps == ASSUME CanPart, CanReset PROVE CanPart'
  BY DEF CanReset, CanPart, CanTypeOK, BootPhases, CanInv, OperationalMeansTested

LEMMA SendKeeps ==
  ASSUME CanPart, UNCHANGED <<initialized, mode, boot, verified>>, Send
  PROVE  CanPart'
<1>1. wire' = wire \/ (verified /\ wire' = wire \union {"DATA"})
  BY DEF Send, Transmit, CanPart, CanInv
<1>2. CASE wire' = wire
  BY <1>2 DEF CanPart, CanTypeOK, CanInv, OperationalMeansTested
<1>3. CASE verified /\ wire' = wire \union {"DATA"}
  BY <1>3 DEF CanPart, CanTypeOK, CanInv, OperationalMeansTested
<1>4. QED
  BY <1>1, <1>2, <1>3

LEMMA CanStutter == ASSUME CanPart, UNCHANGED canVars PROVE CanPart'
  BY DEF canVars, CanPart, CanTypeOK, CanInv, OperationalMeansTested

LEMMA CanPartStep ==
  ASSUME CanPart, [MonNext]_monVars
  PROVE  CanPart'
<1>1. CASE runCanStartup
  BY <1>1, StartupKeeps DEF runCanStartup
<1>2. CASE Encoder
  BY <1>2, SendKeeps, CanStutter DEF Encoder, Turn, sendQnhUpdate, canVars
<1>3. CASE Key
  BY <1>3, SendKeeps, CanStutter
     DEF Key, shortPress, EnterAlt, EnterClock, NextField, LeaveSetup, ToggleBacklight,
         sendQnhUpdate, canVars
<1>4. CASE processSerial
  BY <1>4, SendKeeps, CanStutter DEF processSerial, Serial, canVars
<1>5. CASE HoldReset \/ SerialReset
  BY <1>5, ResetKeeps DEF HoldReset, SerialReset, Restart
<1>6. CASE EndSetup \/ Receive \/ Timeout \/ Display \/ Arrival \/ Tick \/ UNCHANGED monVars
  BY <1>6, CanStutter DEF EndSetup, Receive, Timeout, Display, Arrival, Arrive, Tick, monVars
<1>7. QED
  BY <1>1, <1>2, <1>3, <1>4, <1>5, <1>6 DEF MonNext, Processor, Loop

----------------------------------------------------------------------------
(***************************************************************************)
(* The store and the chip's buffers.                                       *)
(***************************************************************************)
StorePart == StoreTypeOK /\ TrackedOnce
RxPart    == rx \in Seq(Frames) /\ Len(rx) <= RxBuffers

LEMMA StoreStutter == ASSUME StorePart, UNCHANGED storeVars PROVE StorePart'
  BY DEF storeVars, StorePart, StoreTypeOK, TrackedOnce

LEMMA StorePartStep ==
  ASSUME StorePart, RxPart, [MonNext]_monVars
  PROVE  StorePart'
<1>1. CASE Receive
  <2>1. CASE UNCHANGED storeVars
    BY <2>1, StoreStutter
  <2>2. CASE ~UNCHANGED storeVars
    <3>1. rx # <<>> /\ update(Head(rx))
      BY <1>1, <2>2 DEF Receive, Take, storeVars
    <3>2. Head(rx) \in Frames
      BY <3>1 DEF RxPart
    <3>3. QED
      BY <3>1, <3>2, UpdateStep DEF StorePart
  <2>3. QED
    BY <2>1, <2>2
<1>2. CASE processSerial
  <2>1. UNCHANGED storeVars \/ clear
    BY <1>2 DEF processSerial, Serial, ClearStore
  <2>2. QED
    BY <2>1, StoreStutter, ClearStep DEF StorePart
<1>3. CASE HoldReset \/ SerialReset
  <2>1. slots' = Zeroed /\ count' = 0
    BY <1>3 DEF HoldReset, SerialReset, Restart
  <2>2. QED
    BY <2>1, ZeroedType, StoreAssumption DEF StoreAssumption, StorePart, StoreTypeOK, TrackedOnce
<1>4. CASE UNCHANGED storeVars
  BY <1>4, StoreStutter
<1>5. QED
  BY <1>1, <1>2, <1>3, <1>4
     DEF MonNext, Processor, Loop, runCanStartup, EndSetup, Encoder, Key, Timeout, Display,
         Arrival, Arrive, Tick, monVars

LEMMA RxStep ==
  ASSUME RxPart, [MonNext]_monVars
  PROVE  RxPart'
<1>1. ASSUME NEW m \in Frames, Arrive(m) PROVE RxPart'
  <2>1. rx' = Append(rx, m) /\ Len(rx) < RxBuffers /\ RxBuffers \in Nat
    BY <1>1, MonitorAssumption DEF Arrive, MonitorAssumption
  <2>2. QED
    BY <2>1 DEF RxPart
<1>2. CASE Receive
  <2>1. rx' = rx \/ (rx # <<>> /\ rx' = Tail(rx))
    BY <1>2 DEF Receive
  <2>2. QED
    BY <2>1, MonitorAssumption DEF RxPart, MonitorAssumption
<1>3. CASE HoldReset \/ SerialReset
  <2>1. rx' = <<>>
    BY <1>3 DEF HoldReset, SerialReset, Restart
  <2>2. QED
    BY <2>1, MonitorAssumption DEF RxPart, MonitorAssumption
<1>4. CASE UNCHANGED rx
  BY <1>4 DEF RxPart
<1>5. QED
  BY <1>1, <1>2, <1>3, <1>4
     DEF MonNext, Processor, Loop, runCanStartup, EndSetup, Encoder, Key, Timeout, Display,
         processSerial, Arrival, Tick, monVars, busVars

----------------------------------------------------------------------------
(***************************************************************************)
(* Flags, ages and labels.                                                 *)
(***************************************************************************)
FlagPart == {busError, busActive, heard, lcdBacklightOn, key} \subseteq BOOLEAN

AgePart == /\ held \in {NotHeld} \union 0 .. HoldTime /\ silence \in 0 .. SilenceCap
           /\ displayAge \in 0 .. DisplayRefresh /\ late \in 0 .. MaxLate

LabelPart ==
  /\ pc \in {"setup", "encoder", "key", "receive", "timeout", "serial", "display"}
  /\ setupMode \in {"none", "alt", "time", "date"} /\ setupField \in 0 .. 2
  /\ rtc \in {"absent", "unset", "set"}
  /\ screen \in {"BOOT", "SETUP", "BUS ERROR", "ACT", "TMO", "WAITING"}

LEMMA FlagStep ==
  ASSUME FlagPart, [MonNext]_monVars
  PROVE  FlagPart'
<1>0. Levels \subseteq BOOLEAN
  BY MonitorAssumption DEF MonitorAssumption
<1>1. CASE HoldReset \/ SerialReset
  BY <1>0, <1>1, Zenon DEF HoldReset, SerialReset, Restart, FlagPart
<1>2. CASE EndSetup
  <2>1. busError' \in BOOLEAN
    BY <1>2, Zenon DEF EndSetup
  <2>2. UNCHANGED <<busActive, heard, lcdBacklightOn, key>>
    BY <1>2 DEF EndSetup
  <2>3. QED
    BY <2>1, <2>2, Zenon DEF FlagPart
<1>3. CASE Key
  <2>1. key' \in BOOLEAN /\ UNCHANGED <<busError, busActive, heard>>
    BY <1>0, <1>3 DEF Key, busVars
  <2>2. lcdBacklightOn' \in BOOLEAN
    BY <1>3 DEF Key, shortPress, EnterAlt, EnterClock, NextField, LeaveSetup, ToggleBacklight, FlagPart
  <2>3. QED
    BY <2>1, <2>2 DEF FlagPart
<1>4. CASE Receive
  BY <1>4 DEF Receive, FlagPart
<1>5. CASE Timeout
  <2>1. busActive' \in BOOLEAN /\ UNCHANGED <<busError, heard, lcdBacklightOn, key>>
    BY <1>5, Zenon DEF Timeout, uiVars
  <2>2. QED
    BY <2>1, Zenon DEF FlagPart
<1>6. CASE processSerial
  <2>1. busActive' = FALSE \/ busActive' = busActive
    BY <1>6, Zenon DEF processSerial, Serial, ClearStore
  <2>2. UNCHANGED <<busError, heard, lcdBacklightOn, key>>
    BY <1>6, Zenon DEF processSerial
  <2>3. QED
    BY <2>1, <2>2, Zenon DEF FlagPart
<1>7. CASE runCanStartup \/ Encoder \/ Display \/ Arrival \/ Tick \/ UNCHANGED monVars
  BY <1>7 DEF runCanStartup, Encoder, Display, Arrival, Arrive, Tick, monVars, busVars, uiVars, FlagPart
<1>8. QED
  BY <1>1, <1>2, <1>3, <1>4, <1>5, <1>6, <1>7 DEF MonNext, Processor, Loop

LEMMA CappedType == ASSUME NEW cap \in Nat, NEW n \in 0 .. cap PROVE Capped(n, cap) \in 0 .. cap
  BY DEF Capped

LEMMA Limits ==
  /\ HoldTime \in Nat /\ BusTimeout \in Nat /\ DisplayRefresh \in Nat /\ MaxLate \in Nat
  /\ SilenceCap \in Nat
  BY MonitorAssumption DEF MonitorAssumption, SilenceCap

LEMMA AgeStep ==
  ASSUME AgePart, [MonNext]_monVars
  PROVE  AgePart'
<1> USE Limits
<1> DEFINE Held == {NotHeld} \union 0 .. HoldTime
<1>1. 0 \in Held /\ NotHeld \in Held
  OBVIOUS
<1>2. CASE HoldReset \/ SerialReset
  BY <1>1, <1>2 DEF HoldReset, SerialReset, Restart, AgePart
<1>3. CASE EndSetup \/ Display
  <2>1. displayAge' = 0 \/ displayAge' = displayAge
    BY <1>3, Zenon DEF EndSetup, Display, updateDisplay
  <2>2. UNCHANGED <<held, silence>> /\ (late' = 0 \/ late' = late)
    BY <1>3, Zenon DEF EndSetup, Display, busVars
  <2>3. QED
    BY <2>1, <2>2 DEF AgePart
<1>4. CASE Key
  <2>1. held' \in Held
    BY <1>1, <1>4 DEF Key, HeldAt, AgePart
  <2>2. QED
    BY <1>4, <2>1 DEF Key, busVars, timeVars, AgePart
<1>5. CASE Receive
  BY <1>5 DEF Receive, timeVars, AgePart
<1>6. CASE Tick
  <2>1. silence' \in 0 .. SilenceCap /\ displayAge' \in 0 .. DisplayRefresh
    BY <1>6, CappedType DEF Tick, AgePart
  <2>2. held' \in Held
    BY <1>6, CappedType DEF Tick, AgePart
  <2>3. late' \in 0 .. MaxLate
    BY <1>6 DEF Tick, AgePart
  <2>4. QED
    BY <2>1, <2>2, <2>3 DEF AgePart
<1>7. CASE runCanStartup \/ Encoder \/ Timeout \/ processSerial \/ Arrival \/ UNCHANGED monVars
  BY <1>7 DEF runCanStartup, Encoder, Timeout, processSerial, Arrival, Arrive, monVars, busVars,
              timeVars, AgePart
<1>8. QED
  BY <1>2, <1>3, <1>4, <1>5, <1>6, <1>7 DEF MonNext, Processor, Loop

LEMMA LabelStep ==
  ASSUME LabelPart, [MonNext]_monVars
  PROVE  LabelPart'
<1>1. CASE HoldReset \/ SerialReset
  <2>0. 0 \in 0 .. 2
    OBVIOUS
  <2>1. pc' = "setup" /\ setupMode' = "none" /\ setupField' = 0 /\ rtc' = rtc /\ screen' = "BOOT"
    BY <1>1, Zenon DEF HoldReset, SerialReset, Restart
  <2>2. QED
    BY <2>0, <2>1, Zenon DEF LabelPart
<1>2. CASE EndSetup
  BY <1>2 DEF EndSetup, updateDisplay, LabelPart
<1>3. CASE Display
  BY <1>3 DEF Display, updateDisplay, LabelPart
<1>4. CASE Key
  <2>1. setupField' \in 0 .. 2
    <3>1. \/ setupField' = setupField \/ setupField' = 0
          \/ setupField < LastField /\ setupField' = setupField + 1
      BY <1>4, Zenon DEF Key, shortPress, EnterAlt, EnterClock, NextField, LeaveSetup, ToggleBacklight
    <3>2. LastField \in {1, 2}
      BY DEF LastField
    <3>3. setupField \in 0 .. 2
      BY DEF LabelPart
    <3>4. QED
      BY ONLY <3>1, <3>2, <3>3
  <2>2. setupMode' \in {"none", "alt", "time", "date"} /\ rtc' \in {"absent", "unset", "set"}
    BY <1>4 DEF Key, shortPress, EnterAlt, EnterClock, NextField, LeaveSetup, ToggleBacklight,
                LabelPart
  <2>3. QED
    BY <1>4, <2>1, <2>2 DEF Key, timeVars, LabelPart
<1>5. CASE processSerial
  BY <1>5 DEF processSerial, Serial, ClearStore, timeVars, LabelPart
<1>6. CASE runCanStartup \/ Encoder \/ Receive \/ Timeout \/ Arrival \/ Tick \/ UNCHANGED monVars
  BY <1>6 DEF runCanStartup, Encoder, Receive, Timeout, Arrival, Arrive, Tick, monVars, uiVars, timeVars,
              LabelPart
<1>7. QED
  BY <1>1, <1>2, <1>3, <1>4, <1>5, <1>6 DEF MonNext, Processor, Loop

----------------------------------------------------------------------------
(***************************************************************************)
(* Every step of the monitor is a step of the panel, or one the panel does *)
(* not notice.                                                             *)
(***************************************************************************)
LEMMA TwoBytes ==
  ASSUME NEW lo \in 0 .. 255, NEW hi \in 0 .. 255
  PROVE  lo + 256 * hi \in Words
<1>1. 256 * hi \in Nat /\ 256 * hi <= 256 * 255
  OBVIOUS
<1>2. 256 * 255 + 255 = 256 * 256 - 1
  OBVIOUS
<1>3. lo + 256 * hi \in Nat /\ lo + 256 * hi <= 256 * 256 - 1
  BY <1>1, <1>2
<1> DEFINE w == lo + 256 * hi
           top == 256 * 256 - 1
<1>4. w \in Nat /\ w <= top /\ top \in Nat
  BY <1>3
<1> HIDE DEF w, top
<1>5. w \in 0 .. top
  BY <1>4
<1>6. QED
  BY <1>5, Zenon DEF Words, w, top

LEMMA HeardRange ==
  ASSUME NEW m \in Frames, IsQnh(m)
  PROVE  QnhOf(m) \in Words
<1>1. m.data \in Seq(Bytes) /\ Len(m.data) >= 2
  BY StoreAssumption DEF StoreAssumption, IsQnh
<1>2. m.data[1] \in Bytes /\ m.data[2] \in Bytes
  BY <1>1
<1>3. QED
  BY <1>2, TwoBytes DEF QnhOf, Bytes

LEMMA SameWords == Panel!Words = Words /\ 0 \in Words /\ Words \subseteq Nat
  BY DEF Panel!Words, Words

PanelStutters == UNCHANGED <<setupMode, setupQnh, receivedQnh, sentQnh>>

LEMMA PanelStep ==
  ASSUME RxPart, [MonNext]_monVars
  PROVE  [Panel!PanelNext]_Panel!panelVars
<1> USE DEF Panel!PanelNext, Panel!panelVars
<1>0. ASSUME PanelStutters PROVE [Panel!PanelNext]_Panel!panelVars
  BY <1>0, Zenon DEF PanelStutters
<1>1. CASE HoldReset \/ SerialReset
  <2>1. setupMode' = "none" /\ setupQnh' = QnhDefault /\ receivedQnh' = 0 /\ sentQnh' = 0
    BY <1>1, Zenon DEF HoldReset, SerialReset, Restart
  <2>2. Panel!Boot
    BY <2>1 DEF Panel!Boot
  <2>3. QED
    BY <2>2, Zenon
<1>2. CASE Encoder
  <2>1. UNCHANGED <<setupMode, receivedQnh>>
    BY <1>2 DEF Encoder
  <2>2. PICK step \in Steps : Turn(step)
    BY <1>2 DEF Encoder
  <2>3. CASE step # 0 /\ setupMode = "alt"
    <3>1. setupQnh' = Clamped(setupQnh + step) /\ sentQnh' = Clamped(setupQnh + step)
      BY <2>2, <2>3 DEF Turn, sendQnhUpdate
    <3>2. step \in {-1, 1}
      BY <2>3, MonitorAssumption DEF MonitorAssumption
    <3>3. Panel!Dial(step)
      BY <2>1, <2>3, <3>1 DEF Panel!Dial, Panel!Dialled, Clamped
    <3>4. QED
      BY <3>2, <3>3, Zenon
  <2>4. CASE ~(step # 0 /\ setupMode = "alt")
    <3>1. UNCHANGED <<setupQnh, sentQnh>>
      BY <2>2, <2>4, Zenon DEF Turn
    <3>2. QED
      BY <1>0, <2>1, <3>1 DEF PanelStutters
  <2>5. QED
    BY <2>3, <2>4
<1>3. CASE Key
  <2>1. UNCHANGED receivedQnh
    BY <1>3 DEF Key
  <2>2. CASE EnterAlt
    <3>1. Panel!Open
      BY <2>1, <2>2 DEF EnterAlt, sendQnhUpdate, Panel!Open, Panel!OpenedWith, Panel!InPanelRange
    <3>2. QED
      BY <3>1, Zenon
  <2>3. CASE EnterClock \/ NextField \/ ToggleBacklight
    <3>1. setupMode # "alt" /\ setupMode' # "alt" /\ UNCHANGED <<setupQnh, receivedQnh, sentQnh>>
      BY <2>1, <2>3 DEF EnterClock, NextField, ToggleBacklight
    <3>2. QED
      BY <3>1
  <2>4. CASE LeaveSetup
    <3>1. setupMode' = "none" /\ UNCHANGED <<setupQnh, receivedQnh, sentQnh>>
      BY <2>1, <2>4 DEF LeaveSetup
    <3>2. CASE setupMode = "alt"
      <4>1. Panel!Close
        BY <3>1, <3>2 DEF Panel!Close
      <4>2. QED
        BY <4>1, Zenon
    <3>3. CASE setupMode # "alt"
      BY <3>1, <3>3
    <3>4. QED
      BY <3>2, <3>3
  <2>5. CASE UNCHANGED <<setupMode, setupQnh, sentQnh>>
    BY <1>0, <2>1, <2>5 DEF PanelStutters
  <2>6. QED
    BY <1>3, <2>2, <2>3, <2>4, <2>5, Zenon DEF Key, shortPress
<1>4. CASE Receive
  <2>1. UNCHANGED <<setupMode, setupQnh, sentQnh>>
    BY <1>4 DEF Receive
  <2>2. CASE UNCHANGED receivedQnh
    BY <1>0, <2>1, <2>2 DEF PanelStutters
  <2>3. CASE ~UNCHANGED receivedQnh
    <3>1. rx # <<>> /\ IsQnh(Head(rx)) /\ receivedQnh' = QnhOf(Head(rx))
      BY <1>4, <2>3 DEF Receive, Take
    <3>2. Head(rx) \in Frames
      BY <3>1 DEF RxPart
    <3>3. Panel!HearAny
      <4>1. receivedQnh' \in Words
        BY <3>1, <3>2, HeardRange, Zenon
      <4>2. QED
        BY <2>1, <4>1, SameWords, Zenon DEF Panel!HearAny
    <3>4. QED
      BY <3>3, Zenon
  <2>4. QED
    BY <2>2, <2>3
<1>5. CASE \/ runCanStartup \/ EndSetup \/ Timeout \/ processSerial \/ Display \/ Arrival
           \/ Tick \/ UNCHANGED monVars
  <2>1. PanelStutters
    BY <1>5 DEF runCanStartup, EndSetup, Timeout, processSerial, Display, Arrival, Arrive, Tick,
                monVars, uiVars, PanelStutters
  <2>2. QED
    BY <1>0, <2>1
<1>6. QED
  BY <1>1, <1>2, <1>3, <1>4, <1>5 DEF MonNext, Processor, Loop

\* What every step of a panel preserves.
QnhPart == /\ setupQnh \in Nat /\ receivedQnh \in Words /\ sentQnh \in Nat
           /\ SetupInRange /\ SentQnhInRange

LEMMA QnhLimits ==
  QnhMin \in Nat /\ QnhMax \in Nat /\ QnhDefault \in Nat /\ QnhMin <= QnhDefault /\ QnhDefault <= QnhMax
  BY MonitorAssumption DEF MonitorAssumption

LEMMA PanelKeeps ==
  ASSUME QnhPart, [Panel!PanelNext]_Panel!panelVars
  PROVE  QnhPart'
<1>1. CASE Panel!Boot
  <2>1. setupQnh' = QnhDefault /\ receivedQnh' = 0 /\ sentQnh' = 0
    BY <1>1, Zenon DEF Panel!Boot
  <2>2. QED
    BY <2>1, QnhLimits, SameWords DEF QnhPart, SetupInRange, SentQnhInRange
<1>2. CASE Panel!Open
  <2>1. /\ setupQnh' = Panel!OpenedWith /\ sentQnh' = Panel!OpenedWith
        /\ receivedQnh' = receivedQnh
    BY <1>2, Zenon DEF Panel!Open
  <2>2. Panel!OpenedWith \in Nat /\ QnhMin <= Panel!OpenedWith /\ Panel!OpenedWith <= QnhMax
    BY QnhLimits, SameWords DEF Panel!OpenedWith, Panel!InPanelRange, QnhPart, SetupInRange
  <2>3. QED
    BY <2>1, <2>2 DEF QnhPart, SetupInRange, SentQnhInRange
<1>3. ASSUME NEW step \in {-1, 1}, Panel!Dial(step) PROVE QnhPart'
  <2>1. /\ setupQnh' = Panel!Dialled(step) /\ sentQnh' = Panel!Dialled(step)
        /\ receivedQnh' = receivedQnh
    BY <1>3, Zenon DEF Panel!Dial
  <2>2. Panel!Dialled(step) \in Nat /\ QnhMin <= Panel!Dialled(step) /\ Panel!Dialled(step) <= QnhMax
    BY QnhLimits DEF Panel!Dialled, QnhPart
  <2>3. QED
    BY <2>1, <2>2 DEF QnhPart, SetupInRange, SentQnhInRange
<1>4. CASE Panel!Close \/ Panel!HearAny \/ UNCHANGED Panel!panelVars
  <2>1. setupQnh' = setupQnh /\ sentQnh' = sentQnh
    BY <1>4, SameWords, Zenon DEF Panel!Close, Panel!HearAny, Panel!panelVars
  <2>2. receivedQnh' = receivedQnh \/ receivedQnh' \in Words
    BY <1>4, SameWords, Zenon DEF Panel!Close, Panel!HearAny, Panel!panelVars
  <2>3. QED
    BY <2>1, <2>2, Zenon DEF QnhPart, SetupInRange, SentQnhInRange
<1>5. QED
  BY <1>1, <1>2, <1>3, <1>4, Zenon DEF Panel!PanelNext

----------------------------------------------------------------------------
(***************************************************************************)
(* The selection.                                                          *)
(***************************************************************************)
IndexPart == selectedIndex \in Nat /\ SelectionInRange

\* Clamping, and a list that only grows, leave the selection on an item.
LEMMA ClampedInRange ==
  ASSUME count \in Nat, selectedIndex \in Nat
  PROVE  ClampedIndex \in Nat /\ (ClampedIndex = 0 \/ ClampedIndex < totalItems)
<1>1. totalItems \in Nat
  BY DEF totalItems
<1>2. QED
  BY <1>1 DEF ClampedIndex

LEMMA GrowingList ==
  ASSUME count \in Nat, count' \in Nat, count' >= count, IndexPart, selectedIndex' = selectedIndex,
         rtcSet => rtcSet'
  PROVE  IndexPart'
<1>1. count \in Nat /\ count' \in Nat /\ count' >= count
  OBVIOUS
<1>2. \/ totalItems = count
      \/ totalItems = count + 2 /\ totalItems' = count' + 2
  <2>1. CASE rtcSet
    <3>1. totalItems = count + 2
      BY <2>1 DEF totalItems
    <3>2. rtcSet'
      BY <2>1, Zenon
    <3>3. totalItems' = count' + 2
      BY <3>2 DEF totalItems
    <3>4. QED
      BY <3>1, <3>3
  <2>2. CASE ~rtcSet
    <3>1. totalItems = count
      BY <2>2 DEF totalItems
    <3>2. QED
      BY <3>1
  <2>3. QED
    BY <2>1, <2>2
<1>3. totalItems' = count' \/ totalItems' = count' + 2
  <2>1. (rtcSet' /\ totalItems' = count' + 2) \/ (~rtcSet' /\ totalItems' = count' + 0)
    BY Zenon DEF totalItems
  <2>2. QED
    BY <1>1, <2>1
<1>4. totalItems' >= totalItems /\ totalItems \in Nat /\ totalItems' \in Nat
  BY ONLY <1>1, <1>2, <1>3
<1>5. QED
  BY <1>4 DEF IndexPart, SelectionInRange

LEMMA IndexStep ==
  ASSUME StorePart, StorePart', RxPart, IndexPart, [MonNext]_monVars
  PROVE  IndexPart'
<1>0. count \in Nat /\ count' \in Nat /\ totalItems \in Nat
  BY StoreAssumption DEF StoreAssumption, StorePart, StoreTypeOK, totalItems
<1>1. ASSUME UNCHANGED <<count, rtc>>, selectedIndex' \in Nat, selectedIndex' = 0 \/ selectedIndex' < totalItems
      PROVE  IndexPart'
  BY <1>1 DEF IndexPart, SelectionInRange, totalItems, rtcSet
<1>2. ASSUME selectedIndex' = 0 PROVE IndexPart'
  BY <1>2 DEF IndexPart, SelectionInRange
<1>3. CASE HoldReset \/ SerialReset
  BY <1>2, <1>3, Zenon DEF HoldReset, SerialReset, Restart
<1>4. CASE EndSetup \/ (Display /\ displayAge >= DisplayRefresh /\ updateDisplay(busError))
  <2>1. selectedIndex' = ClampedIndex /\ UNCHANGED <<count, rtc>>
    BY <1>4, Zenon DEF EndSetup, Display, updateDisplay, storeVars
  <2>2. QED
    BY <1>0, <1>1, <2>1, ClampedInRange DEF IndexPart
<1>5. CASE Encoder
  <2>1. UNCHANGED <<count, rtc>>
    BY <1>5 DEF Encoder, storeVars
  <2>2. PICK step \in Steps : Turn(step)
    BY <1>5 DEF Encoder
  <2>3. CASE selectedIndex' = Wrapped(selectedIndex + step) /\ totalItems > 0
    <3>1. step \in {-1, 0, 1} /\ selectedIndex \in Nat
      BY MonitorAssumption DEF MonitorAssumption, IndexPart
    <3>2. Wrapped(selectedIndex + step) \in Nat /\ Wrapped(selectedIndex + step) < totalItems
      BY <1>0, <2>3, <3>1 DEF Wrapped
    <3>3. QED
      BY <1>1, <2>1, <2>3, <3>2
  <2>4. CASE selectedIndex' = selectedIndex
    BY <1>1, <2>1, <2>4 DEF IndexPart, SelectionInRange
  <2>5. QED
    BY <2>2, <2>3, <2>4, Zenon DEF Turn
<1>6. CASE Key
  <2>1. rtcSet => rtcSet'
    BY <1>6 DEF Key, shortPress, EnterAlt, EnterClock, NextField, LeaveSetup, ToggleBacklight, rtcSet
  <2>2. UNCHANGED <<selectedIndex, count>>
    BY <1>6 DEF Key, storeVars
  <2>3. QED
    BY <1>0, <2>1, <2>2, GrowingList
<1>7. CASE Receive
  <2>1. UNCHANGED <<selectedIndex, rtc>>
    BY <1>7 DEF Receive
  <2>2. count' >= count
    <3>1. CASE UNCHANGED storeVars
      BY <1>0, <3>1 DEF storeVars
    <3>2. CASE ~UNCHANGED storeVars
      <4>1. rx # <<>> /\ update(Head(rx))
        BY <1>7, <3>2 DEF Receive, Take, storeVars
      <4>2. Head(rx) \in Frames
        BY <4>1 DEF RxPart
      <4>3. QED
        BY <4>1, <4>2, UpdateStep DEF StorePart
    <3>3. QED
      BY <3>1, <3>2
  <2>3. QED
    BY <1>0, <2>1, <2>2, GrowingList DEF rtcSet
<1>8. CASE processSerial
  <2>1. CASE ClearStore
    BY <1>2, <2>1 DEF ClearStore
  <2>2. CASE ~ClearStore
    <3>1. UNCHANGED <<selectedIndex, count>> /\ (rtcSet => rtcSet')
      BY <1>8, <2>2 DEF processSerial, Serial, storeVars, rtcSet
    <3>2. QED
      BY <1>0, <3>1, GrowingList
  <2>3. QED
    BY <2>1, <2>2
<1>9. CASE UNCHANGED <<selectedIndex, count, rtc>>
  BY <1>0, <1>9, GrowingList DEF rtcSet
<1>10. QED
  BY <1>3, <1>4, <1>5, <1>6, <1>7, <1>8, <1>9
     DEF MonNext, Processor, Loop, runCanStartup, Timeout, Display, Arrival, Arrive, Tick, monVars,
         storeVars, uiVars

\* The identifiers of used entries stay where they are, so a selection that is not moved
\* and not emptied stays on its identifier.
LEMMA SelectedKept ==
  ASSUME count \in Nat, count' \in Nat, count' >= count, selectedIndex \in Nat,
         selectedIndex' = selectedIndex, \A i \in 1 .. count : slots'[i].id = slots[i].id,
         Selected # {}
  PROVE  Selected' = Selected
<1>1. selectedIndex < count /\ Selected = {slots[selectedIndex + 1].id}
  BY DEF Selected
<1>2. selectedIndex + 1 \in 1 .. count /\ selectedIndex' < count'
  BY <1>1
<1>3. Selected' = {slots'[selectedIndex + 1].id}
  BY <1>2 DEF Selected
<1>4. QED
  BY <1>1, <1>2, <1>3

LEMMA SelectionStep ==
  ASSUME StorePart, StorePart', RxPart, IndexPart, [MonNext]_monVars,
         Selected # {}, pc # "encoder", count' # 0
  PROVE  Selected' = Selected
<1>0. count \in Nat /\ count' \in Nat /\ selectedIndex \in Nat
  BY StoreAssumption DEF StoreAssumption, StorePart, StoreTypeOK, IndexPart
<1>1. ASSUME UNCHANGED <<slots, count, selectedIndex>> PROVE Selected' = Selected
  BY <1>1 DEF Selected
<1>2. CASE HoldReset \/ SerialReset
  BY <1>2, Zenon DEF HoldReset, SerialReset, Restart
<1>3. CASE EndSetup \/ (Display /\ displayAge >= DisplayRefresh /\ updateDisplay(busError))
  <2>1. selectedIndex' = ClampedIndex /\ UNCHANGED <<slots, count>>
    BY <1>3, Zenon DEF EndSetup, Display, updateDisplay, storeVars
  <2>2. selectedIndex < count /\ totalItems \in Nat /\ totalItems >= count
    BY <1>0 DEF Selected, totalItems
  <2>3. ClampedIndex = selectedIndex
    BY <1>0, <2>2 DEF ClampedIndex
  <2>4. QED
    BY <1>1, <2>1, <2>3
<1>4. CASE Receive
  <2>1. CASE UNCHANGED storeVars
    BY <1>1, <1>4, <2>1 DEF Receive, storeVars
  <2>2. CASE ~UNCHANGED storeVars
    <3>1. rx # <<>> /\ update(Head(rx)) /\ selectedIndex' = selectedIndex
      BY <1>4, <2>2 DEF Receive, Take, storeVars
    <3>2. Head(rx) \in Frames
      BY <3>1 DEF RxPart
    <3>3. count' >= count /\ \A i \in 1 .. count : slots'[i].id = slots[i].id
      BY <3>1, <3>2, UpdateStep DEF StorePart
    <3>4. QED
      BY <1>0, <3>1, <3>3, SelectedKept
  <2>3. QED
    BY <2>1, <2>2
<1>5. CASE processSerial
  <2>1. ~ClearStore
    BY DEF ClearStore, clear
  <2>2. UNCHANGED <<slots, count, selectedIndex>>
    BY <1>5, <2>1 DEF processSerial, Serial, storeVars
  <2>3. QED
    BY <1>1, <2>2
<1>6. CASE UNCHANGED <<slots, count, selectedIndex>>
  BY <1>1, <1>6
<1>7. QED
  BY <1>2, <1>3, <1>4, <1>5, <1>6
     DEF MonNext, Processor, Loop, Encoder, Key, runCanStartup, Timeout, Display, Arrival, Arrive, Tick,
         monVars, storeVars, uiVars

----------------------------------------------------------------------------
(***************************************************************************)
(* The bus status.                                                         *)
(***************************************************************************)
\* Between the test of the timeout and the display an active bus has been silent for no
\* longer than the timeout and this pass; elsewhere the test is still to come.  A bus that is
\* not active although frames are stored has been found silent, and is silent since.
BusPart ==
  /\ pc = "setup" => ~busActive /\ count = 0
  /\ busError => ~busActive
  /\ busActive => heard
  /\ busActive /\ pc \in {"serial", "display"} => silence <= BusTimeout + late
  /\ ~busError /\ ~busActive /\ count > 0 => silence > BusTimeout

LEMMA BusStep ==
  ASSUME StorePart, StorePart', RxPart, FlagPart, AgePart, BusPart, [MonNext]_monVars
  PROVE  BusPart'
<1>0. /\ count \in Nat /\ silence \in Nat /\ late \in Nat /\ silence <= SilenceCap
      /\ BusTimeout \in Nat /\ MaxLate \in Nat /\ MaxLate > 0
      /\ busActive \in BOOLEAN /\ busError \in BOOLEAN /\ heard \in BOOLEAN
  BY StoreAssumption, MonitorAssumption
     DEF StoreAssumption, MonitorAssumption, StorePart, StoreTypeOK, FlagPart, AgePart, SilenceCap
<1>1. CASE HoldReset \/ SerialReset
  <2>1. busActive' = FALSE /\ count' = 0
    BY <1>1, Zenon DEF HoldReset, SerialReset, Restart
  <2>2. QED
    BY <2>1 DEF BusPart
<1>2. CASE EndSetup
  <2>1. pc = "setup" /\ pc' = "encoder" /\ UNCHANGED <<busActive, heard, count>>
    BY <1>2, Zenon DEF EndSetup, storeVars
  <2>2. QED
    BY <2>1 DEF BusPart
<1>3. CASE Receive
  <2>0. pc = "receive" /\ pc' = "timeout" /\ busError' = busError
    BY <1>3 DEF Receive
  <2>1. CASE ~busError /\ busActive' /\ heard'
    BY <2>0, <2>1 DEF BusPart
  <2>2. CASE UNCHANGED <<count, silence, busActive, heard>>
    BY <2>0, <2>2 DEF BusPart
  <2>3. QED
    BY <1>3, <2>1, <2>2 DEF Receive, storeVars
<1>4. CASE Timeout
  <2>0. pc' = "serial" /\ UNCHANGED <<count, busError, silence, heard, late>>
    BY <1>4 DEF Timeout, storeVars, timeVars
  <2>1. CASE TimedOut
    <3>1. ~busActive' /\ silence > BusTimeout
      BY <1>4, <2>1 DEF Timeout, TimedOut
    <3>2. QED
      BY <2>0, <3>1 DEF BusPart
  <2>2. CASE ~TimedOut
    <3>1. busActive' <=> busActive
      BY <1>4, <2>2 DEF Timeout
    <3>2. busActive => silence <= BusTimeout
      BY <1>0, <2>2 DEF BusPart, TimedOut
    <3>3. QED
      BY <1>0, <2>0, <3>1, <3>2 DEF BusPart
  <2>3. QED
    BY <2>1, <2>2
<1>5. CASE processSerial
  <2>0. /\ pc = "serial" /\ pc' = "display" /\ UNCHANGED <<busError, silence, heard, late>>
        /\ \/ UNCHANGED <<count, busActive>>
           \/ count' = 0 /\ ~busActive'
    BY <1>5 DEF processSerial, Serial, ClearStore, clear, storeVars, timeVars
  <2>1. QED
    BY <1>0, <2>0 DEF BusPart
<1>6. CASE Display
  <2>0. pc' = "encoder" /\ pc # "setup" /\ UNCHANGED <<count, busError, busActive, silence, heard>>
    BY <1>6 DEF Display, storeVars, busVars
  <2>1. QED
    BY <2>0 DEF BusPart
<1>7. CASE Encoder \/ Key
  <2>0. /\ pc # "setup" /\ pc' \in {"key", "receive"}
        /\ UNCHANGED <<count, busError, busActive, silence, heard>>
    BY <1>7 DEF Encoder, Key, storeVars, busVars
  <2>1. QED
    BY <2>0 DEF BusPart
<1>8. CASE Tick
  <2>0. late' = late + 1 /\ UNCHANGED <<pc, count, busError, busActive, heard>>
    BY <1>8 DEF Tick, storeVars
  <2>1. silence' = IF silence < SilenceCap THEN silence + 1 ELSE silence
    BY <1>8, Zenon DEF Tick, Capped
  <2>2. silence' >= silence /\ silence' <= silence + 1 /\ silence' \in Nat
    BY <1>0, <2>1
  <2>3. QED
    BY <1>0, <2>0, <2>2 DEF BusPart
<1>9. CASE UNCHANGED <<pc, count, busError, busActive, silence, heard, late>>
  BY <1>9 DEF BusPart
<1>10. QED
  BY <1>1, <1>2, <1>3, <1>4, <1>5, <1>6, <1>7, <1>8, <1>9, Zenon
     DEF MonNext, Processor, Loop, runCanStartup, Arrival, Arrive, monVars, storeVars, busVars, timeVars

LEMMA StatusStep ==
  ASSUME AgePart, BusPart, [MonNext]_monVars,
         pc = "display", pc' # "display", displayAge >= DisplayRefresh
  PROVE  /\ screen' = "ACT" => heard /\ silence <= BusTimeout + MaxLate
         /\ screen' = "TMO" => silence > BusTimeout
<1>1. Display
  BY Zenon DEF MonNext, Processor, Loop, runCanStartup, EndSetup, Encoder, HoldReset, Key, Receive, Timeout,
               processSerial, SerialReset, Arrival, Arrive, Tick, monVars
<1>2. updateDisplay(busError)
  <2>1. DisplayRefresh \in Nat /\ displayAge \in Nat
    BY Limits DEF AgePart
  <2>2. ~(displayAge < DisplayRefresh)
    BY <2>1
  <2>3. QED
    BY <1>1, <2>2, Zenon DEF Display
<1>3. screen' = "ACT" => busActive
  BY <1>2 DEF updateDisplay
<1>4. screen' = "TMO" => ~busError /\ ~busActive /\ count > 0
  BY <1>2 DEF updateDisplay
<1>5. BusTimeout \in Nat /\ MaxLate \in Nat /\ late \in 0 .. MaxLate /\ silence \in Nat
  BY Limits, MonitorAssumption DEF AgePart, SilenceCap, MonitorAssumption
<1>6. screen' = "ACT" => heard /\ silence <= BusTimeout + MaxLate
  BY <1>3, <1>5 DEF BusPart
<1>7. screen' = "TMO" => silence > BusTimeout
  BY <1>4 DEF BusPart
<1>8. QED
  BY <1>6, <1>7

----------------------------------------------------------------------------
(***************************************************************************)
(* The invariant and what follows from it.                                 *)
(***************************************************************************)
MonParts == /\ CanPart /\ StorePart /\ RxPart /\ FlagPart /\ AgePart /\ LabelPart
            /\ QnhPart /\ IndexPart /\ BusPart

LEMMA MonStart == ASSUME MonInit PROVE MonParts
<1>1. CanPart /\ StorePart
  BY CanPartStart, StoreStart DEF MonInit, StorePart
<1>2. RxPart
  BY MonitorAssumption DEF MonitorAssumption, MonInit, RamInit, RxPart
<1>3. FlagPart
  <2>1. key \in BOOLEAN
    BY MonitorAssumption DEF MonitorAssumption, MonInit
  <2>2. {busError, busActive, heard, lcdBacklightOn} \subseteq BOOLEAN
    BY Zenon DEF MonInit, RamInit
  <2>3. QED
    BY <2>1, <2>2 DEF FlagPart
<1>4. held = NotHeld /\ silence = 0 /\ displayAge = 0 /\ late = 0
  BY Zenon DEF MonInit, RamInit
<1>5. AgePart
  BY <1>4, Limits DEF AgePart
<1>6. /\ pc = "setup" /\ setupMode = "none" /\ setupField = 0 /\ screen = "BOOT"
      /\ rtc \in Clocks
  BY Zenon DEF MonInit, RamInit
<1>7. LabelPart
  BY <1>6, MonitorAssumption DEF MonitorAssumption, LabelPart
<1>8. setupQnh = QnhDefault /\ receivedQnh = 0 /\ sentQnh = 0 /\ selectedIndex = 0
  BY Zenon DEF MonInit, RamInit
<1>9. QnhPart /\ IndexPart
  BY <1>8, QnhLimits, SameWords
     DEF QnhPart, SetupInRange, SentQnhInRange, IndexPart, SelectionInRange
<1>10. BusPart
  <2>1. count = 0 /\ busActive = FALSE
    BY Zenon DEF MonInit, RamInit, StoreInit
  <2>2. QED
    BY <2>1 DEF BusPart
<1>11. QED
  BY <1>1, <1>2, <1>3, <1>5, <1>7, <1>9, <1>10 DEF MonParts

LEMMA MonStep ==
  ASSUME MonParts, [MonNext]_monVars
  PROVE  MonParts'
<1> USE DEF MonParts
<1>1. CanPart' /\ StorePart' /\ RxPart'
  BY CanPartStep, StorePartStep, RxStep
<1>2. FlagPart' /\ AgePart' /\ LabelPart'
  BY FlagStep, AgeStep, LabelStep
<1>3. QnhPart'
  BY PanelStep, PanelKeeps
<1>4. IndexPart'
  BY <1>1, IndexStep
<1>5. BusPart'
  BY <1>1, BusStep
<1>6. QED
  BY <1>1, <1>2, <1>3, <1>4, <1>5

LEMMA MonInvariant == MonSpec => []MonParts
  BY MonStart, MonStep, PTL DEF MonSpec

\* Type correctness of the whole monitor, its store and its receive buffers included.
THEOREM MonTypeCorrect == MonSpec => []MonTypeOK
<1>1. MonParts => MonTypeOK
  BY DEF MonParts, CanPart, StorePart, RxPart, FlagPart, AgePart, LabelPart, QnhPart, IndexPart, MonTypeOK
<1>2. QED
  BY <1>1, MonInvariant, PTL

\* loop() never reads beyond the list with the selected index, however frames, presses and
\* commands interleave and however long the list may grow.
THEOREM SelectionValid == MonSpec => []SelectionInRange
<1>1. MonParts => SelectionInRange
  BY DEF MonParts, IndexPart
<1>2. QED
  BY <1>1, MonInvariant, PTL

\* Nothing but the encoder, CLEAR and a restart takes a selected identifier from under the
\* button: no frame of a new identifier, no clamping by the display, no clock being set.
THEOREM SelectionSteady == MonSpec => SelectionStays
<1>1. /\ MonParts /\ MonParts' /\ [MonNext]_monVars
      => (Selected # {} /\ pc # "encoder" /\ count' # 0 => Selected' = Selected)
  BY SelectionStep DEF MonParts
<1>2. QED
  BY <1>1, MonInvariant, PTL DEF MonSpec, SelectionStays

\* What the display says of the bus is so when it is drawn, for every timeout, refresh
\* interval and length of a pass.
THEOREM StatusIsTrue == MonSpec => StatusTruthful
<1>1. /\ MonParts /\ [MonNext]_monVars
      => (pc = "display" /\ pc' # "display" /\ displayAge >= DisplayRefresh =>
            /\ screen' = "ACT" => heard /\ silence <= BusTimeout + MaxLate
            /\ screen' = "TMO" => silence > BusTimeout)
  BY StatusStep DEF MonParts
<1>2. QED
  BY <1>1, MonInvariant, PTL DEF MonSpec, StatusTruthful

\* No setting outside the limits is sent, whatever is heard and wherever the limits are.
THEOREM SettingsInRange == MonSpec => []SentQnhInRange
<1>1. MonParts => SentQnhInRange
  BY DEF MonParts, QnhPart
<1>2. QED
  BY <1>1, MonInvariant, PTL

\* A monitor whose start-up succeeded has passed the loopback test; its loop, its commands
\* and its resets do not change that.
THEOREM MonitorTested == MonSpec => []OperationalMeansTested
<1>1. MonParts => OperationalMeansTested
  BY DEF MonParts, CanPart, CanInv
<1>2. QED
  BY <1>1, MonInvariant, PTL

\* In the running monitor no identifier is listed twice.
THEOREM MonitorTracksOnce == MonSpec => []TrackedOnce
<1>1. MonParts => TrackedOnce
  BY DEF MonParts, StorePart
<1>2. QED
  BY <1>1, MonInvariant, PTL

\* The monitor implements the panel the other nodes take it for.
THEOREM MonitorIsPanel == MonSpec => ImplementsQnhPanel
<1>1. MonInit => Panel!PanelInit
  BY Zenon DEF MonInit, RamInit, Panel!PanelInit
<1>2. RxPart /\ [MonNext]_monVars => [Panel!PanelNext]_Panel!panelVars
  BY PanelStep
<1>3. MonParts => RxPart
  BY DEF MonParts
<1>4. QED
  BY <1>1, <1>2, <1>3, MonInvariant, PTL DEF MonSpec, ImplementsQnhPanel, Panel!PanelSpec
=============================================================================
