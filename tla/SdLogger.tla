------------------------------ MODULE SdLogger ------------------------------
(***************************************************************************)
(* The CanbusLogger (src/CanbusLogger): one loop() that logs a received    *)
(* frame, lets the logger flush and rotate, and takes one serial command.  *)
(* The log file is kept open and flushed now and then, so what power loss  *)
(* takes is the rows written since the last flush.                         *)
(*                                                                         *)
(* The card and its library are outside the repository: opening a file may *)
(* fail at any time, a flush or a close makes every row durable.  Rows are *)
(* not kept, only how long the oldest one that is not durable has waited.  *)
(***************************************************************************)
EXTENDS Integers

CONSTANTS Devices,        \* device identifiers
          LastDate,       \* bound: dates are 1 .. LastDate
          FlushInterval,  \* FLUSH_INTERVAL_MS, in ticks
          RotateCheck,    \* ROTATE_CHECK_MS
          MaxLate         \* bound: ticks one pass of loop() may take

ASSUME LoggerAssumption ==
  {LastDate, FlushInterval, RotateCheck, MaxLate} \subseteq Nat \ {0}

VARIABLES pc,            \* the part of setup() or loop() that runs next
          deviceId,      \* kept in EEPROM
          clock,         \* what the RTC knows: a date, or NoDate while it is not set
          ready, logging,
          path,          \* device and date of the file opened last
          handles,       \* log files the library holds open
          sinceFlush, sinceRotate,   \* ticks since _lastFlushMs and _lastRotateMs
          late,
          waiting,       \* history: ticks the oldest row not yet durable has waited, or None
          misfiled       \* history: ticks the open file has had another date than today's

vars == <<pc, deviceId, clock, ready, logging, path, handles, sinceFlush, sinceRotate, late,
          waiting, misfiled>>

NoDate == 0
None   == -1
Dates  == 1 .. LastDate
Cap    == FlushInterval + RotateCheck + 2 * MaxLate

NotReady == UNCHANGED <<logging, path, handles, sinceFlush, waiting, misfiled>>

\* _openLogFile.  A handle that is still open is overwritten, not closed.  Without an open
\* log sinceFlush and misfiled are not used, and the next open sets them.
Open(dev, date, open) ==
  /\ path' = <<dev, date>>
  /\ \/ logging' = TRUE /\ handles' = open + 1 /\ sinceFlush' = 0 /\ misfiled' = 0
     \/ logging' = FALSE /\ handles' = open /\ UNCHANGED <<sinceFlush, misfiled>>

\* Closing makes the rows durable; only an open log is closed.
HandlesAfterClose == IF logging THEN handles - 1 ELSE handles

CloseRows == waiting' = None

----------------------------------------------------------------------------
Init == /\ pc = "setup" /\ deviceId \in Devices /\ clock \in Dates \union {NoDate}
        /\ ready = FALSE /\ logging = FALSE /\ path = <<deviceId, NoDate>> /\ handles = 0
        /\ sinceFlush = 0 /\ sinceRotate = 0 /\ late = 0
        /\ waiting = None /\ misfiled = 0

\* setup: setDeviceId, then begin(), which may find no card.
begin == /\ pc = "setup" /\ pc' = "log"
         /\ \/ ready' = TRUE /\ Open(deviceId, clock, handles) /\ CloseRows
            \/ UNCHANGED ready /\ NotReady
         /\ UNCHANGED <<deviceId, clock, sinceRotate, late>>

\* One received frame; a frame that finds no open log is dropped and counted.
log == /\ pc = "log" /\ pc' = "tick"
       /\ waiting' = IF ready /\ logging /\ waiting = None THEN 0 ELSE waiting
       /\ UNCHANGED <<deviceId, clock, ready, logging, path, handles, sinceFlush, sinceRotate, late,
                      misfiled>>

NoFrame == /\ pc = "log" /\ pc' = "tick"
           /\ UNCHANGED <<deviceId, clock, ready, logging, path, handles, sinceFlush, sinceRotate,
                          late, waiting, misfiled>>

\* Defect: the undated file is never flushed.
FaultyFlushDue == logging /\ clock # NoDate /\ sinceFlush >= FlushInterval

FlushDue == logging /\ sinceFlush >= FlushInterval

\* Defect: only the undated file is ever left.
FaultyRotationDue == logging /\ sinceRotate >= RotateCheck /\ path[2] = NoDate /\ clock # path[2]

RotationDue == logging /\ sinceRotate >= RotateCheck /\ clock # path[2]

\* tick(): a flush if it is due, then the rotation check if that is due.
tick ==
  /\ pc = "tick" /\ pc' = "serial"
  /\ sinceRotate' = IF ready /\ sinceRotate >= RotateCheck THEN 0 ELSE sinceRotate
  /\ \/ /\ ready /\ RotationDue
        /\ Open(deviceId, clock, HandlesAfterClose) /\ CloseRows
     \/ /\ ready /\ ~RotationDue /\ FlushDue
        /\ sinceFlush' = 0 /\ waiting' = None
        /\ UNCHANGED <<logging, path, handles, misfiled>>
     \/ /\ ~ready \/ (~RotationDue /\ ~FlushDue)
        /\ NotReady
  /\ UNCHANGED <<deviceId, clock, ready, late>>

----------------------------------------------------------------------------

\* TIME: the clock is set and onTimeSet() opens the file of the new date.
TimeSet(date) ==
  /\ clock' = date
  /\ IF ready THEN Open(deviceId, date, HandlesAfterClose) /\ CloseRows ELSE NotReady
  /\ UNCHANGED <<deviceId>>

\* DEVID: pause, new folder, resume.
SetDeviceId(dev) ==
  /\ deviceId' = dev
  /\ IF ready THEN Open(dev, clock, HandlesAfterClose) /\ CloseRows ELSE NotReady
  /\ UNCHANGED <<clock>>

Pause == /\ logging' = FALSE /\ handles' = HandlesAfterClose
         /\ waiting' = IF logging THEN None ELSE waiting
         /\ UNCHANGED <<deviceId, clock, path, sinceFlush, misfiled>>

Resume == /\ IF ready /\ ~logging THEN Open(deviceId, clock, handles) /\ UNCHANGED waiting
             ELSE NotReady
          /\ UNCHANGED <<deviceId, clock>>

\* LISTFILES and DOWNLOAD close the log for their own use of the card, and open it again.
ReadCard ==
  /\ IF ready /\ logging THEN Open(deviceId, clock, HandlesAfterClose) /\ CloseRows ELSE NotReady
  /\ UNCHANGED <<deviceId, clock>>

NoCommand == NotReady /\ UNCHANGED <<deviceId, clock>>

processSerial ==
  /\ pc = "serial" /\ pc' = "log" /\ late' = 0
  /\ \/ \E date \in Dates : TimeSet(date)
     \/ \E dev \in Devices : SetDeviceId(dev)
     \/ Pause \/ Resume \/ ReadCard \/ NoCommand
  /\ UNCHANGED <<ready, sinceRotate>>

\* Power loss or RESET, which closes nothing: rows that were not durable are gone.
Restart == /\ pc # "setup" /\ pc' = "setup"
           /\ ready' = FALSE /\ logging' = FALSE /\ path' = <<deviceId, NoDate>> /\ handles' = 0
           /\ sinceFlush' = 0 /\ sinceRotate' = 0 /\ late' = 0
           /\ waiting' = None /\ misfiled' = 0
           /\ UNCHANGED <<deviceId, clock>>

Older(n) == IF n < Cap THEN n + 1 ELSE n

Tick == /\ pc # "setup" /\ late < MaxLate /\ late' = late + 1
        /\ sinceFlush' = Older(sinceFlush) /\ sinceRotate' = Older(sinceRotate)
        /\ waiting' = IF waiting = None THEN None ELSE Older(waiting)
        /\ misfiled' = IF logging /\ path[2] # clock THEN Older(misfiled) ELSE 0
        /\ UNCHANGED <<pc, deviceId, clock, ready, logging, path, handles>>

Midnight == /\ clock \in Dates /\ clock < LastDate /\ clock' = clock + 1
            /\ UNCHANGED <<pc, deviceId, ready, logging, path, handles, sinceFlush, sinceRotate, late,
                           waiting, misfiled>>

Loop == begin \/ log \/ NoFrame \/ tick \/ processSerial

Next == Loop \/ Restart \/ Tick \/ Midnight

Spec == Init /\ [][Next]_vars

----------------------------------------------------------------------------
TypeOK == /\ pc \in {"setup", "log", "tick", "serial"} /\ deviceId \in Devices
          /\ clock \in Dates \union {NoDate} /\ ready \in BOOLEAN /\ logging \in BOOLEAN
          /\ path \in Devices \X (Dates \union {NoDate}) /\ handles \in Nat
          /\ sinceFlush \in 0 .. Cap /\ sinceRotate \in 0 .. Cap /\ misfiled \in 0 .. Cap /\ late \in 0 .. MaxLate
          /\ waiting \in {None} \union 0 .. Cap

\* Across pauses, rotations, renamings and failed opens, the library holds exactly one log
\* file open while the logger is logging and none while it is not: no handle is leaked and
\* no row is written through a closed one.
OneOpenLog == handles = IF logging THEN 1 ELSE 0

\* SdLogger.h:17: the flush limits what a power loss takes.  From one tick() to the next
\* two passes may overlap; no row waits longer than the interval and those two, whatever
\* commands reopen the file in between.
LossIsBounded == waiting < FlushInterval + 2 * MaxLate

\* SdLogger.h:19: rows go to the file of their date, except for as long as the rotation
\* check may take to notice a new one.
MisfilingIsBrief == misfiled < RotateCheck + 2 * MaxLate

\* Rows are never written to the folder of another device than the one that is set.
OwnFolder == logging => path[1] = deviceId

\* However commands, midnights and failed opens follow each other, rows go through one open file,
\* that of the device that is set and, but for a short while, of the date.
FilesInOrder == OneOpenLog /\ OwnFolder /\ MisfilingIsBrief
=============================================================================
