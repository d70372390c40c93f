--------------------------- MODULE SdLogger_proofs ---------------------------
(***************************************************************************)
(* Proofs about SdLogger for every interval, number of dates and devices.  *)
(*                                                                         *)
(* The two bounds are not inductive.  A row has waited no longer than the  *)
(* last flush is old, and how old that can be depends on the part of the   *)
(* loop that runs next: less than FlushInterval when tick() has just       *)
(* looked, and the ticks since are at most those of this pass and, before  *)
(* the next look, of the one before it.  The date of the open file runs    *)
(* behind the clock, never before it, so once the two differ only an open  *)
(* makes them agree again.                                                 *)
(***************************************************************************)
EXTENDS SdLogger, TLAPS

\* The ticks there may have been since tick() last looked.
SinceLook == IF pc = "serial" THEN late ELSE MaxLate + late

LogNeedsCard == /\ pc = "setup" => ~ready /\ sinceRotate = 0
                /\ logging => ready
                /\ waiting # None => logging

FlushRecent  == /\ logging => sinceFlush < FlushInterval + SinceLook
                /\ waiting <= sinceFlush

RotateRecent == /\ ready => sinceRotate < RotateCheck + SinceLook
                /\ logging => misfiled <= sinceRotate

DatesInOrder == logging => /\ path[2] <= clock
                           /\ path[2] = clock => misfiled = 0

IInv == /\ TypeOK /\ OneOpenLog /\ OwnFolder /\ MisfilingIsBrief
        /\ LogNeedsCard /\ FlushRecent /\ RotateRecent /\ DatesInOrder

----------------------------------------------------------------------------
\* The constants of this file as single facts.
LEMMA Bounds ==
  /\ LastDate \in Nat /\ LastDate > 0 /\ FlushInterval \in Nat /\ FlushInterval > 0
  /\ RotateCheck \in Nat /\ RotateCheck > 0 /\ MaxLate \in Nat /\ MaxLate > 0
BY LoggerAssumption DEF LoggerAssumption

\* _openLogFile: called with no handle open, and with the device and the date that are
\* current afterwards, it keeps its share of the invariant whether it succeeds or not.
LEMMA OpenKeeps ==
  ASSUME TypeOK, MisfilingIsBrief,
         NEW dev \in Devices, NEW date \in Dates \union {NoDate},
         Open(dev, date, 0)
  PROVE  /\ logging' \in BOOLEAN /\ path' \in Devices \X (Dates \union {NoDate})
         /\ path'[1] = dev /\ path'[2] = date
         /\ handles' = IF logging' THEN 1 ELSE 0
         /\ sinceFlush' \in 0 .. Cap /\ misfiled' \in 0 .. Cap
         /\ logging' => sinceFlush' = 0 /\ misfiled' = 0
         /\ misfiled' < RotateCheck + 2 * MaxLate
<1>1. path' = <<dev, date>>
  BY DEF Open
<1>2. CASE logging' = TRUE /\ handles' = 1 /\ sinceFlush' = 0 /\ misfiled' = 0
  BY <1>1, <1>2, Bounds DEF Cap
<1>3. CASE logging' = FALSE /\ handles' = 0 /\ UNCHANGED <<sinceFlush, misfiled>>
  BY <1>1, <1>3 DEF TypeOK, MisfilingIsBrief
<1>4. 0 + 1 = 1
  OBVIOUS
<1>5. QED
  BY <1>2, <1>3, <1>4 DEF Open

LEMMA ClosedHandles ==
  ASSUME TypeOK, OneOpenLog
  PROVE  HandlesAfterClose = 0
BY DEF TypeOK, OneOpenLog, HandlesAfterClose

\* A step that opens the log for what is the device and the date after it, with no row
\* left behind: first the types, then the rest of the invariant.
LEMMA ReopenedType ==
  ASSUME TypeOK, MisfilingIsBrief,
         deviceId' \in Devices, clock' \in Dates \union {NoDate},
         Open(deviceId', clock', 0), waiting' = None,
         ready' \in BOOLEAN, pc' \in {"log", "serial"}, late' \in 0 .. MaxLate,
         sinceRotate' \in 0 .. Cap
  PROVE  TypeOK'
<1>1. /\ logging' \in BOOLEAN /\ path' \in Devices \X (Dates \union {NoDate})
      /\ handles' = IF logging' THEN 1 ELSE 0
      /\ sinceFlush' \in 0 .. Cap /\ misfiled' \in 0 .. Cap
  BY OpenKeeps
<1>2. handles' \in Nat
  BY <1>1
<1>3. QED
  BY <1>1, <1>2 DEF TypeOK

LEMMA Later ==
  ASSUME NEW age \in Nat, NEW interval \in Nat, NEW look \in Nat, NEW look2 \in Nat,
         age < interval + look, look <= look2
  PROVE  age < interval + look2
OBVIOUS

LEMMA LookedNat ==
  ASSUME late' \in 0 .. MaxLate
  PROVE  SinceLook' \in Nat
<1>1. MaxLate \in Nat /\ late' \in Nat
  BY Bounds
<1>2. SinceLook' = late' \/ SinceLook' = MaxLate + late'
  BY ZenonT(10) DEF SinceLook
<1>3. QED
  BY <1>1, <1>2

LEMMA Reopened ==
  ASSUME TypeOK, MisfilingIsBrief,
         deviceId' \in Devices, clock' \in Dates \union {NoDate},
         Open(deviceId', clock', 0), waiting' = None,
         ready', pc' # "setup", late' \in 0 .. MaxLate, sinceRotate' \in 0 .. Cap
  PROVE  /\ OneOpenLog' /\ OwnFolder' /\ MisfilingIsBrief'
         /\ LogNeedsCard' /\ FlushRecent' /\ DatesInOrder'
         /\ logging' => misfiled' <= sinceRotate'
<1>1. /\ path'[1] = deviceId' /\ path'[2] = clock'
      /\ handles' = IF logging' THEN 1 ELSE 0
      /\ sinceFlush' \in 0 .. Cap
      /\ logging' => sinceFlush' = 0 /\ misfiled' = 0
      /\ misfiled' < RotateCheck + 2 * MaxLate
  BY OpenKeeps
<1>2. OneOpenLog' /\ OwnFolder' /\ MisfilingIsBrief'
  BY <1>1 DEF OneOpenLog, OwnFolder, MisfilingIsBrief
<1>3. LogNeedsCard'
  BY DEF LogNeedsCard
<1>4. logging' => sinceFlush' < FlushInterval + SinceLook'
  BY <1>1, LookedNat, Bounds
<1>5. waiting' <= sinceFlush'
  BY <1>1 DEF None
<1>6. clock' \in Int
  BY Bounds DEF Dates, NoDate
<1>7. DatesInOrder'
  BY <1>1, <1>6 DEF DatesInOrder
<1>8. logging' => misfiled' <= sinceRotate'
  BY <1>1
<1>9. QED
  BY <1>2, <1>3, <1>4, <1>5, <1>7, <1>8 DEF FlushRecent

----------------------------------------------------------------------------
LEMMA InitInv == Init => IInv
<1> SUFFICES ASSUME Init PROVE IInv
  OBVIOUS
<1> USE Bounds DEF Init
<1>1. TypeOK
  <2>1. /\ sinceFlush \in 0 .. Cap /\ sinceRotate \in 0 .. Cap /\ misfiled \in 0 .. Cap
        /\ late \in 0 .. MaxLate /\ handles \in Nat
    BY DEF Cap
  <2>2. QED
    BY <2>1 DEF TypeOK
<1>2. OneOpenLog /\ OwnFolder /\ MisfilingIsBrief /\ LogNeedsCard
  BY DEF OneOpenLog, OwnFolder, MisfilingIsBrief, LogNeedsCard
<1>3. FlushRecent /\ RotateRecent /\ DatesInOrder
  BY DEF FlushRecent, RotateRecent, DatesInOrder, SinceLook, None
<1>4. QED
  BY <1>1, <1>2, <1>3 DEF IInv

LEMMA StartInv == ASSUME IInv, begin PROVE IInv'
<1> USE DEF IInv, begin
<1>1. CASE ready' = TRUE /\ Open(deviceId, clock, handles) /\ CloseRows
  <2>1. handles = 0
    BY DEF LogNeedsCard, OneOpenLog, TypeOK
  <2>2. TypeOK'
    BY <1>1, <2>1, ReopenedType DEF CloseRows, TypeOK
  <2>3. /\ OneOpenLog' /\ OwnFolder' /\ MisfilingIsBrief'
        /\ LogNeedsCard' /\ FlushRecent' /\ DatesInOrder'
        /\ logging' => misfiled' <= sinceRotate'
    BY <1>1, <2>1, Reopened DEF CloseRows, TypeOK
  <2>4. RotateRecent'
    <3>1. sinceRotate' = 0 /\ late' \in 0 .. MaxLate /\ pc' = "log"
      BY DEF TypeOK, LogNeedsCard
    <3>2. QED
      BY <2>3, <3>1, Bounds DEF RotateRecent, SinceLook
  <2>5. QED
    BY <2>2, <2>3, <2>4
<1>2. CASE UNCHANGED ready /\ NotReady
  BY <1>2, Bounds DEF NotReady, TypeOK, OneOpenLog, OwnFolder, MisfilingIsBrief, LogNeedsCard,
                      FlushRecent, RotateRecent, DatesInOrder, SinceLook
<1>3. QED
  BY <1>1, <1>2

\* A step that leaves the log alone and does not bring the next look closer.
LEMMA Untouched ==
  ASSUME IInv, UNCHANGED <<logging, path, handles, sinceFlush, sinceRotate, misfiled, ready>>,
         waiting' = waiting, pc' # "setup", pc # "setup",
         pc' \in {"log", "tick", "serial"}, late' \in 0 .. MaxLate,
         SinceLook <= SinceLook', SinceLook \in Nat,
         deviceId' \in Devices, clock' \in Dates \union {NoDate},
         ~logging \/ UNCHANGED <<deviceId, clock>>
  PROVE  IInv'
<1>1. TypeOK'
  BY DEF IInv, TypeOK
<1>2. OneOpenLog' /\ OwnFolder' /\ MisfilingIsBrief' /\ LogNeedsCard'
  BY DEF IInv, OneOpenLog, OwnFolder, MisfilingIsBrief, LogNeedsCard
<1>3. sinceFlush \in Nat /\ sinceRotate \in Nat /\ SinceLook' \in Nat
  BY LookedNat DEF IInv, TypeOK
<1>4. FlushRecent'
  BY <1>3, Later, Bounds, Zenon DEF IInv, FlushRecent
<1>5. RotateRecent'
  BY <1>3, Later, Bounds, Zenon DEF IInv, RotateRecent
<1>6. DatesInOrder'
  BY DEF IInv, DatesInOrder
<1>7. QED
  BY <1>1, <1>2, <1>4, <1>5, <1>6 DEF IInv

LEMMA LogInv == ASSUME IInv, log \/ NoFrame PROVE IInv'
<1>1. /\ pc = "log" /\ pc' = "tick"
      /\ UNCHANGED <<logging, path, handles, sinceFlush, sinceRotate, misfiled, ready,
                     deviceId, clock, late>>
  BY DEF log, NoFrame
<1>2. late \in 0 .. MaxLate /\ deviceId \in Devices /\ clock \in Dates \union {NoDate}
  BY DEF IInv, TypeOK
<1>3. SinceLook = MaxLate + late /\ SinceLook' = MaxLate + late
  BY <1>1 DEF SinceLook
<1>4. SinceLook \in Nat /\ SinceLook <= SinceLook'
  BY <1>2, <1>3, Bounds
<1>5. CASE waiting' = waiting
  BY <1>1, <1>2, <1>4, <1>5, Untouched
<1>6. CASE logging /\ waiting' = 0
  <2>1. TypeOK'
    BY <1>1, <1>6, Bounds DEF IInv, TypeOK, Cap
  <2>2. OneOpenLog' /\ OwnFolder' /\ MisfilingIsBrief' /\ LogNeedsCard' /\ DatesInOrder'
    BY <1>1, <1>6 DEF IInv, OneOpenLog, OwnFolder, MisfilingIsBrief, LogNeedsCard, DatesInOrder
  <2>3. FlushRecent' /\ RotateRecent'
    <3>1. sinceFlush \in Nat
      BY DEF IInv, TypeOK
    <3>2. QED
      BY <1>1, <1>3, <1>6, <3>1 DEF IInv, FlushRecent, RotateRecent
  <2>4. QED
    BY <2>1, <2>2, <2>3 DEF IInv
<1>7. QED
  BY <1>5, <1>6 DEF log, NoFrame

LEMMA LookInv == ASSUME IInv, tick PROVE IInv'
<1>1. /\ pc = "tick" /\ pc' = "serial" /\ UNCHANGED <<deviceId, clock, ready, late>>
      /\ sinceRotate' = IF ready /\ sinceRotate >= RotateCheck THEN 0 ELSE sinceRotate
  BY DEF tick
<1>2. /\ late \in 0 .. MaxLate /\ late \in Nat
      /\ deviceId \in Devices /\ clock \in Dates \union {NoDate}
      /\ sinceRotate \in 0 .. Cap /\ sinceRotate \in Nat /\ sinceFlush \in Nat
      /\ misfiled \in Nat
  BY DEF IInv, TypeOK
<1>3. SinceLook' = late
  BY <1>1 DEF SinceLook
<1>4. sinceRotate' = sinceRotate \/ (sinceRotate' = 0 /\ sinceRotate >= RotateCheck)
  BY <1>1
<1>5. sinceRotate' \in 0 .. Cap
  BY <1>2, <1>4, Bounds DEF Cap
<1>6. ready => sinceRotate' < RotateCheck + late
  <2>1. CASE sinceRotate >= RotateCheck
    BY <1>1, <1>2, <2>1, Bounds
  <2>2. CASE ~(sinceRotate >= RotateCheck)
    BY <1>1, <1>2, <2>2, Bounds
  <2>3. QED
    BY <2>1, <2>2
<1>7. CASE ready /\ Open(deviceId, clock, HandlesAfterClose) /\ CloseRows
  <2>1. HandlesAfterClose = 0
    BY ClosedHandles DEF IInv
  <2>2. TypeOK'
    BY <1>1, <1>2, <1>5, <1>7, <2>1, ReopenedType DEF CloseRows, IInv, TypeOK
  <2>3. /\ OneOpenLog' /\ OwnFolder' /\ MisfilingIsBrief'
        /\ LogNeedsCard' /\ FlushRecent' /\ DatesInOrder'
        /\ logging' => misfiled' <= sinceRotate'
    BY <1>1, <1>2, <1>5, <1>7, <2>1, Reopened DEF CloseRows, IInv
  <2>4. RotateRecent'
    BY <1>1, <1>3, <1>6, <2>3 DEF RotateRecent
  <2>5. QED
    BY <2>2, <2>3, <2>4 DEF IInv
<1>8. ASSUME ~RotationDue, logging PROVE misfiled <= sinceRotate'
  <2>1. CASE sinceRotate' = sinceRotate
    BY <1>8, <2>1 DEF IInv, RotateRecent
  <2>2. CASE sinceRotate' = 0 /\ sinceRotate >= RotateCheck
    <3>1. path[2] = clock
      BY <1>8, <2>2 DEF RotationDue
    <3>2. misfiled = 0
      BY <1>8, <3>1 DEF IInv, DatesInOrder
    <3>3. QED
      BY <2>2, <3>2
  <2>3. QED
    BY <1>4, <2>1, <2>2
<1>9. ASSUME ready => ~RotationDue, UNCHANGED <<logging, path, handles, misfiled>>,
             sinceFlush' \in 0 .. Cap, waiting' \in {None} \union 0 .. Cap,
             waiting' # None => logging, waiting' <= sinceFlush',
             logging => sinceFlush' < FlushInterval
      PROVE  IInv'
  <2>1. TypeOK'
    BY <1>1, <1>5, <1>9 DEF IInv, TypeOK
  <2>2. OneOpenLog' /\ OwnFolder' /\ MisfilingIsBrief' /\ LogNeedsCard' /\ DatesInOrder'
    BY <1>1, <1>9 DEF IInv, OneOpenLog, OwnFolder, MisfilingIsBrief, LogNeedsCard, DatesInOrder
  <2>3. logging => sinceFlush' < FlushInterval + late
    <3>1. sinceFlush' \in Nat
      BY <1>9
    <3>2. sinceFlush' < FlushInterval => sinceFlush' < FlushInterval + late
      BY <1>2, <3>1, Bounds
    <3>3. QED
      BY <1>9, <3>2
  <2>4. FlushRecent'
    BY <1>3, <1>9, <2>3 DEF FlushRecent
  <2>5. logging => ready
    BY DEF IInv, LogNeedsCard
  <2>6. RotateRecent'
    BY <1>1, <1>3, <1>6, <1>8, <1>9, <2>5 DEF RotateRecent
  <2>7. QED
    BY <2>1, <2>2, <2>4, <2>6 DEF IInv
<1>10. CASE ready /\ ~RotationDue /\ FlushDue /\ sinceFlush' = 0 /\ waiting' = None
            /\ UNCHANGED <<logging, path, handles, misfiled>>
  <2>1. 0 \in 0 .. Cap /\ None <= 0 /\ 0 < FlushInterval
    BY Bounds DEF Cap, None
  <2>2. QED
    BY <1>9, <1>10, <2>1
<1>11. CASE (~ready \/ (~RotationDue /\ ~FlushDue)) /\ NotReady
  <2>1. logging => ready
    BY DEF IInv, LogNeedsCard
  <2>2. logging => sinceFlush < FlushInterval
    <3>1. ~(sinceFlush >= FlushInterval) => sinceFlush < FlushInterval
      BY <1>2, Bounds
    <3>2. QED
      BY <1>11, <2>1, <3>1 DEF FlushDue
  <2>3. /\ UNCHANGED <<logging, path, handles, misfiled, sinceFlush, waiting>>
        /\ ready => ~RotationDue
    BY <1>11 DEF NotReady
  <2>4. /\ sinceFlush \in 0 .. Cap /\ waiting \in {None} \union 0 .. Cap
        /\ waiting # None => logging /\ waiting <= sinceFlush
        /\ waiting <= sinceFlush
    BY DEF IInv, TypeOK, LogNeedsCard, FlushRecent
  <2>5. QED
    BY <1>9, <2>2, <2>3, <2>4
<1>12. QED
  BY <1>7, <1>10, <1>11 DEF tick

LEMMA CommandInv == ASSUME IInv, processSerial PROVE IInv'
<1>1. /\ pc = "serial" /\ pc' = "log" /\ late' = 0 /\ UNCHANGED <<ready, sinceRotate>>
  BY DEF processSerial
<1>2. /\ late \in 0 .. MaxLate /\ sinceRotate \in 0 .. Cap /\ sinceRotate \in Nat
      /\ deviceId \in Devices /\ clock \in Dates \union {NoDate} /\ 0 \in 0 .. MaxLate
      /\ ready \in BOOLEAN
  BY Bounds DEF IInv, TypeOK
<1>3. SinceLook = late /\ SinceLook' = MaxLate + 0
  BY <1>1 DEF SinceLook
<1>4. SinceLook \in Nat /\ SinceLook' \in Nat /\ SinceLook <= SinceLook'
  BY <1>2, <1>3, Bounds
<1>5. HandlesAfterClose = 0 /\ (~logging => handles = 0)
  BY ClosedHandles DEF IInv, OneOpenLog
<1>6. ready => sinceRotate < RotateCheck + SinceLook'
  BY <1>2, <1>4, Later, Bounds, Zenon DEF IInv, RotateRecent
<1>7. ASSUME ready, Open(deviceId', clock', 0), waiting' = None,
             deviceId' \in Devices, clock' \in Dates \union {NoDate}
      PROVE  IInv'
  <2>1. TypeOK'
    BY <1>1, <1>2, <1>7, ReopenedType DEF IInv
  <2>2. ready'
    BY <1>1, <1>7
  <2>3. /\ OneOpenLog' /\ OwnFolder' /\ MisfilingIsBrief'
        /\ LogNeedsCard' /\ FlushRecent' /\ DatesInOrder'
        /\ logging' => misfiled' <= sinceRotate'
    BY <1>1, <1>2, <1>7, <2>2, Reopened DEF IInv
  <2>4. RotateRecent'
    BY <1>1, <1>6, <2>3 DEF RotateRecent
  <2>5. QED
    BY <2>1, <2>3, <2>4 DEF IInv
<1>8. ASSUME NotReady, ~ready \/ UNCHANGED <<deviceId, clock>>,
             deviceId' \in Devices, clock' \in Dates \union {NoDate}
      PROVE  IInv'
  <2>1. logging => ready
    BY DEF IInv, LogNeedsCard
  <2>2. QED
    BY <1>1, <1>2, <1>4, <1>8, <2>1, Untouched DEF NotReady
<1>9. CASE Pause
  <2>1. /\ logging' = FALSE /\ handles' = 0
        /\ UNCHANGED <<deviceId, clock, path, sinceFlush, misfiled>>
    BY <1>5, <1>9 DEF Pause
  <2>2. waiting' = None
    BY <1>9 DEF Pause, IInv, LogNeedsCard
  <2>3. TypeOK'
    <3>1. handles' \in Nat /\ waiting' \in {None} \union 0 .. Cap /\ logging' \in BOOLEAN
      BY <2>1, <2>2
    <3>2. QED
      BY <1>1, <1>2, <2>1, <3>1 DEF IInv, TypeOK
  <2>4. OneOpenLog' /\ OwnFolder' /\ MisfilingIsBrief' /\ LogNeedsCard' /\ DatesInOrder'
    BY <1>1, <2>1, <2>2
    DEF IInv, OneOpenLog, OwnFolder, MisfilingIsBrief, LogNeedsCard, DatesInOrder
  <2>5. None <= sinceFlush
    BY DEF None, IInv, TypeOK
  <2>6. FlushRecent' /\ RotateRecent'
    BY <1>1, <1>6, <2>1, <2>2, <2>5 DEF FlushRecent, RotateRecent
  <2>7. QED
    BY <2>3, <2>4, <2>6 DEF IInv
<1>10. ASSUME NEW date \in Dates, TimeSet(date) PROVE IInv'
  <2>1. clock' = date /\ deviceId' = deviceId /\ clock' \in Dates \union {NoDate}
    BY <1>10 DEF TimeSet
  <2>2. CASE ready
    BY <1>2, <1>5, <1>7, <1>10, <2>1, <2>2 DEF TimeSet, CloseRows
  <2>3. CASE ~ready
    BY <1>2, <1>8, <1>10, <2>1, <2>3 DEF TimeSet
  <2>4. QED
    BY <2>2, <2>3
<1>11. ASSUME NEW dev \in Devices, SetDeviceId(dev) PROVE IInv'
  <2>1. deviceId' = dev /\ clock' = clock
    BY <1>11 DEF SetDeviceId
  <2>2. CASE ready
    BY <1>2, <1>5, <1>7, <1>11, <2>1, <2>2 DEF SetDeviceId, CloseRows
  <2>3. CASE ~ready
    BY <1>2, <1>8, <1>11, <2>1, <2>3 DEF SetDeviceId
  <2>4. QED
    BY <2>2, <2>3
<1>12. CASE Resume
  <2>1. CASE ready /\ ~logging
    <3>1. waiting' = None
      BY <1>12, <2>1 DEF Resume, IInv, LogNeedsCard
    <3>2. QED
      BY <1>2, <1>5, <1>7, <1>12, <2>1, <3>1 DEF Resume
  <2>2. CASE ~(ready /\ ~logging)
    BY <1>2, <1>8, <1>12, <2>2 DEF Resume
  <2>3. QED
    BY <2>1, <2>2
<1>13. CASE ReadCard
  <2>1. CASE ready /\ logging
    BY <1>2, <1>5, <1>7, <1>13, <2>1 DEF ReadCard, CloseRows
  <2>2. CASE ~(ready /\ logging)
    BY <1>2, <1>8, <1>13, <2>2 DEF ReadCard
  <2>3. QED
    BY <2>1, <2>2
<1>14. CASE NoCommand
  BY <1>2, <1>8, <1>14 DEF NoCommand
<1>15. QED
  BY <1>9, <1>10, <1>11, <1>12, <1>13, <1>14 DEF processSerial

LEMMA RestartInv == ASSUME IInv, Restart PROVE IInv'
<1>1. /\ pc' = "setup" /\ ready' = FALSE /\ logging' = FALSE /\ path' = <<deviceId, NoDate>>
      /\ handles' = 0 /\ sinceFlush' = 0 /\ sinceRotate' = 0 /\ late' = 0
      /\ waiting' = None /\ misfiled' = 0 /\ UNCHANGED <<deviceId, clock>>
  BY DEF Restart
<1>2. /\ 0 \in 0 .. Cap /\ 0 \in 0 .. MaxLate /\ None <= 0 /\ 0 < RotateCheck + 2 * MaxLate
      /\ 0 \in Nat
  BY Bounds DEF Cap, None
<1>3. TypeOK'
  <2>1. path' \in Devices \X (Dates \union {NoDate})
    BY <1>1 DEF IInv, TypeOK
  <2>2. ready' \in BOOLEAN /\ logging' \in BOOLEAN
    BY <1>1
  <2>3. QED
    BY <1>1, <1>2, <2>1, <2>2 DEF IInv, TypeOK
<1>4. OneOpenLog' /\ OwnFolder' /\ MisfilingIsBrief' /\ LogNeedsCard'
  BY <1>1, <1>2 DEF OneOpenLog, OwnFolder, MisfilingIsBrief, LogNeedsCard
<1>5. FlushRecent' /\ RotateRecent' /\ DatesInOrder'
  BY <1>1, <1>2 DEF FlushRecent, RotateRecent, DatesInOrder
<1>6. QED
  BY <1>3, <1>4, <1>5 DEF IInv

\* Every age grows by one tick, and so does the bound each is held to.
LEMMA OlderGrows ==
  ASSUME NEW n \in 0 .. Cap
  PROVE  Older(n) \in 0 .. Cap /\ Older(n) <= n + 1 /\ n <= Older(n)
BY Bounds DEF Older, Cap

LEMMA OlderMonotone ==
  ASSUME NEW a \in 0 .. Cap, NEW b \in 0 .. Cap, a <= b
  PROVE  Older(a) <= Older(b)
BY Bounds DEF Older, Cap

LEMMA OlderBelow ==
  ASSUME NEW n \in 0 .. Cap, NEW interval \in Nat, NEW look \in Nat, n < interval + look
  PROVE  Older(n) < interval + (look + 1)
BY OlderGrows

LEMMA TimeInv == ASSUME IInv, Tick PROVE IInv'
<1>1. /\ pc # "setup" /\ late < MaxLate /\ late' = late + 1
      /\ sinceFlush' = Older(sinceFlush) /\ sinceRotate' = Older(sinceRotate)
      /\ waiting' = IF waiting = None THEN None ELSE Older(waiting)
      /\ misfiled' = IF logging /\ path[2] # clock THEN Older(misfiled) ELSE 0
      /\ UNCHANGED <<pc, deviceId, clock, ready, logging, path, handles>>
  BY DEF Tick
<1>2. /\ pc \in {"log", "tick", "serial"} /\ late \in 0 .. MaxLate
      /\ sinceFlush \in 0 .. Cap /\ sinceRotate \in 0 .. Cap /\ misfiled \in 0 .. Cap
      /\ waiting \in {None} \union 0 .. Cap /\ waiting <= sinceFlush
  BY <1>1 DEF IInv, TypeOK, FlushRecent
<1>3. late' \in 0 .. MaxLate /\ late \in Nat
  BY <1>1, <1>2, Bounds
<1>4. SinceLook' = SinceLook + 1 /\ SinceLook \in Nat /\ SinceLook' <= 2 * MaxLate
  <2>1. CASE pc = "serial"
    <3>1. SinceLook = late /\ SinceLook' = late + 1
      BY <1>1, <2>1 DEF SinceLook
    <3>2. QED
      BY <1>1, <1>3, <3>1, Bounds
  <2>2. CASE pc # "serial"
    <3>1. SinceLook = MaxLate + late /\ SinceLook' = MaxLate + (late + 1)
      BY <1>1, <2>2 DEF SinceLook
    <3>2. QED
      BY <1>1, <1>3, <3>1, Bounds
  <2>3. QED
    BY <2>1, <2>2
<1>5. /\ sinceFlush' \in 0 .. Cap /\ sinceRotate' \in 0 .. Cap /\ sinceRotate' \in Nat
      /\ waiting' \in {None} \union 0 .. Cap /\ misfiled' \in 0 .. Cap
  <2>1. 0 \in 0 .. Cap
    BY Bounds DEF Cap
  <2>2. QED
    BY <1>1, <1>2, <2>1, OlderGrows
<1>6. TypeOK'
  BY <1>1, <1>3, <1>5 DEF IInv, TypeOK
<1>7. waiting' <= sinceFlush'
  <2>1. CASE waiting = None
    BY <1>1, <1>5, <2>1 DEF None
  <2>2. CASE waiting # None
    BY <1>1, <1>2, <2>2, OlderMonotone
  <2>3. QED
    BY <2>1, <2>2
<1>8. FlushRecent'
  <2>1. logging => sinceFlush' < FlushInterval + SinceLook'
    BY <1>1, <1>2, <1>4, OlderBelow, Bounds DEF IInv, FlushRecent
  <2>2. QED
    BY <1>1, <1>7, <2>1 DEF FlushRecent
<1>9. ready => sinceRotate' < RotateCheck + SinceLook'
  BY <1>1, <1>2, <1>4, OlderBelow, Bounds DEF IInv, RotateRecent
<1>10. logging => misfiled' <= sinceRotate'
  <2>1. CASE logging /\ path[2] # clock
    <3>1. misfiled <= sinceRotate /\ misfiled' = Older(misfiled)
      BY <1>1, <2>1 DEF IInv, RotateRecent
    <3>2. QED
      BY <1>1, <1>2, <3>1, OlderMonotone
  <2>2. CASE ~(logging /\ path[2] # clock)
    <3>1. misfiled' = 0
      BY <1>1, <2>2
    <3>2. QED
      BY <1>5, <3>1
  <2>3. QED
    BY <2>1, <2>2
<1>11. MisfilingIsBrief'
  <2>1. CASE misfiled' = 0
    BY <2>1, Bounds DEF MisfilingIsBrief
  <2>2. CASE misfiled' # 0
    <3>1. logging
      BY <1>1, <2>2
    <3>2. misfiled' <= sinceRotate' /\ sinceRotate' < RotateCheck + SinceLook'
      BY <1>9, <1>10, <3>1 DEF IInv, LogNeedsCard
    <3>3. misfiled' \in Nat /\ SinceLook' \in Nat
      BY <1>4, <1>5
    <3>4. misfiled' < RotateCheck + 2 * MaxLate
      BY <1>4, <1>5, <3>2, <3>3, Bounds
    <3>5. QED
      BY <3>4 DEF MisfilingIsBrief
  <2>3. QED
    BY <2>1, <2>2
<1>12. OneOpenLog' /\ OwnFolder'
  BY <1>1 DEF IInv, OneOpenLog, OwnFolder
<1>13. LogNeedsCard'
  BY <1>1 DEF IInv, LogNeedsCard
<1>14. DatesInOrder'
  BY <1>1 DEF IInv, DatesInOrder
<1>15. QED
  BY <1>1, <1>6, <1>8, <1>9, <1>10, <1>11, <1>12, <1>13, <1>14 DEF IInv, RotateRecent

LEMMA MidnightInv == ASSUME IInv, Midnight PROVE IInv'
<1>1. /\ clock \in Dates /\ clock < LastDate /\ clock' = clock + 1
      /\ UNCHANGED <<pc, deviceId, ready, logging, path, handles, sinceFlush, sinceRotate, late,
                     waiting, misfiled>>
  BY DEF Midnight
<1>2. clock \in Nat /\ clock' \in Dates
  BY <1>1, Bounds DEF Dates
<1>3. TypeOK'
  BY <1>1, <1>2 DEF IInv, TypeOK
<1>4. SinceLook' = SinceLook
  BY <1>1 DEF SinceLook
<1>5. OneOpenLog' /\ OwnFolder' /\ MisfilingIsBrief' /\ LogNeedsCard' /\ FlushRecent' /\ RotateRecent'
  BY <1>1, <1>4
  DEF IInv, OneOpenLog, OwnFolder, MisfilingIsBrief, LogNeedsCard, FlushRecent, RotateRecent
<1>6. path[2] \in Nat
  BY Bounds DEF IInv, TypeOK, Dates, NoDate
<1>7. path[2] <= clock => path[2] <= clock + 1 /\ path[2] # clock + 1
  BY <1>2, <1>6
<1>8. DatesInOrder'
  BY <1>1, <1>7 DEF IInv, DatesInOrder
<1>9. QED
  BY <1>3, <1>5, <1>8 DEF IInv

LEMMA StutterInv == ASSUME IInv, UNCHANGED vars PROVE IInv'
<1>1. SinceLook' = SinceLook
  BY DEF vars, SinceLook
<1>2. QED
  BY <1>1 DEF vars, IInv, TypeOK, OneOpenLog, OwnFolder, MisfilingIsBrief, LogNeedsCard,
              FlushRecent, RotateRecent, DatesInOrder

----------------------------------------------------------------------------
LEMMA NextInv == IInv /\ [Next]_vars => IInv'
<1> SUFFICES ASSUME IInv, [Next]_vars PROVE IInv'
  OBVIOUS
<1>1. CASE begin
  BY <1>1, StartInv
<1>2. CASE log \/ NoFrame
  BY <1>2, LogInv
<1>3. CASE tick
  BY <1>3, LookInv
<1>4. CASE processSerial
  BY <1>4, CommandInv
<1>5. CASE Restart
  BY <1>5, RestartInv
<1>6. CASE Tick
  BY <1>6, TimeInv
<1>7. CASE Midnight
  BY <1>7, MidnightInv
<1>8. CASE UNCHANGED vars
  BY <1>8, StutterInv
<1>9. QED
  BY <1>1, <1>2, <1>3, <1>4, <1>5, <1>6, <1>7, <1>8 DEF Next, Loop

LEMMA RowBound == IInv => LossIsBounded
<1> SUFFICES ASSUME IInv PROVE LossIsBounded
  OBVIOUS
<1>1. /\ waiting \in {None} \union 0 .. Cap /\ sinceFlush \in 0 .. Cap /\ late \in 0 .. MaxLate
      /\ waiting <= sinceFlush
  BY DEF IInv, TypeOK, FlushRecent
<1>2. CASE waiting = None
  BY <1>2, Bounds DEF LossIsBounded, None
<1>3. CASE waiting # None
  <2>1. sinceFlush < FlushInterval + SinceLook
    BY <1>3 DEF IInv, LogNeedsCard, FlushRecent
  <2>2. SinceLook = late \/ SinceLook = MaxLate + late
    BY DEF SinceLook
  <2>3. QED
    BY <1>1, <1>3, <2>1, <2>2, Bounds DEF LossIsBounded
<1>4. QED
  BY <1>2, <1>3

\* Whatever frames, commands, midnights, failed opens and power losses arrive and however
\* late loop() gets back to tick(), the logger stays within the inductive invariant.
THEOREM Invariance == Spec => []IInv
BY InitInv, NextInv, PTL DEF Spec

\* The logger's fields keep their types: in particular it never holds more than one handle
\* more than it knows of and no age runs past its bound.
THEOREM TypeCorrect == Spec => []TypeOK
BY Invariance, PTL DEF IInv

\* No handle of the library is lost and no row is written through a closed file.
THEOREM OneLog == Spec => []OneOpenLog
BY Invariance, PTL DEF IInv

\* Power loss takes no row older than the flush interval and two passes of loop().
THEOREM BoundedLoss == Spec => []LossIsBounded
BY Invariance, RowBound, PTL

\* After a midnight, rows go to the old file for no longer than a rotation check takes.
THEOREM BriefMisfiling == Spec => []MisfilingIsBrief
BY Invariance, PTL DEF IInv

\* Rows only ever go to the folder of the device identifier that is set.
THEOREM RightFolder == Spec => []OwnFolder
BY Invariance, PTL DEF IInv

\* Rows go through one open file, that of the device that is set and, but for a short while, of
\* the date, however commands, midnights and failed opens follow each other.
THEOREM RightFile == Spec => []FilesInOrder
BY OneLog, RightFolder, BriefMisfiling, PTL DEF FilesInOrder
=============================================================================
