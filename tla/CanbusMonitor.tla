---------------------------- MODULE CanbusMonitor ----------------------------
(***************************************************************************)
(* The CanbusMonitor (src/CanbusMonitor/src/main.cpp): start-up, and the   *)
(* parts of loop() in their order, one action each: encoder, push button,  *)
(* one received frame, the bus timeout, one serial command, the display.   *)
(* Frames reach the chip, and time passes, between any two parts.          *)
(*                                                                         *)
(* Time is counted in ticks; the values of the two clock setup screens,    *)
(* the alert thresholds and the text of the screen are left out.           *)
(***************************************************************************)
EXTENDS CanStartup, CanMessageStore

CONSTANTS QnhMin, QnhMax, QnhDefault,   \* QNH_MIN_HPA, QNH_MAX_HPA, QNH_DEFAULT_HPA
          BusTimeout,      \* BUS_TIMEOUT_MS, in ticks
          DisplayRefresh,  \* DISPLAY_REFRESH_MS
          HoldTime,        \* the 5 s that make a press a reset
          RxBuffers,       \* frames the chip can hold
          MaxLate,         \* bound: ticks that one pass of loop() may take
          Steps, Levels,   \* what the encoder and the button may report
          Commands,        \* the serial commands the host sends
          Clocks           \* the clock chips the board may be fitted with

ASSUME MonitorAssumption ==
  /\ {QnhMin, QnhMax, QnhDefault, BusTimeout, DisplayRefresh, HoldTime} \subseteq Nat
  /\ QnhMin <= QnhDefault /\ QnhDefault <= QnhMax
  /\ RxBuffers \in Nat \ {0} /\ MaxLate \in Nat \ {0}
  /\ Steps \subseteq {-1, 0, 1} /\ Levels \subseteq BOOLEAN
  /\ Clocks \subseteq {"absent", "unset", "set"}

VARIABLES pc,            \* the part of setup() or loop() that runs next
          busError, busActive,
          silence,       \* ticks since lastMessageMs
          rx,            \* frames waiting in the chip
          selectedIndex, setupMode, setupField, setupQnh, receivedQnh, lcdBacklightOn,
          rtc,           \* the clock chip: absent, found but never set, or running
          key, held,     \* the button's stable level; ticks since its press, or NotHeld
          displayAge,    \* ticks since lastDisplayMs
          screen,        \* what line 1 says
          late,          \* ticks this pass has taken
          heard, sentQnh \* history: a frame was received this boot; the last QNH sent

busVars  == <<busError, busActive, silence, rx, heard>>
uiVars   == <<selectedIndex, setupMode, setupField, setupQnh, receivedQnh, lcdBacklightOn, sentQnh>>
timeVars == <<displayAge, screen, late>>
monVars  == <<canVars, storeVars, pc, busVars, uiVars, rtc, key, held, timeVars>>

ALT == 388
ALT_SETTING == 400
CONFIG  == 2016

NotHeld == -1
rtcSet  == rtc = "set"
SilenceCap == BusTimeout + MaxLate + 1

totalItems == count + IF rtcSet THEN 2 ELSE 0

selectedIsAlt  == selectedIndex < count /\ slots[selectedIndex + 1].id = ALT
selectedIsTime == rtcSet /\ selectedIndex = count
selectedIsDate == rtcSet /\ selectedIndex = count + 1

\* Any send may fail, and every caller ignores the result.
Send == Transmit("DATA") \/ UNCHANGED wire

sendQnhUpdate(q) == Send /\ sentQnh' = q

\* Defect: the clamp is off by one, so the last item cannot stay selected.
FaultyClampedIndex == IF selectedIndex + 1 >= totalItems THEN 0 ELSE selectedIndex

ClampedIndex == IF totalItems = 0 THEN 0
                ELSE IF selectedIndex >= totalItems THEN totalItems - 1 ELSE selectedIndex

\* updateDisplay: the selection is clamped first, then line 1 is chosen.
updateDisplay(failed) ==
  /\ selectedIndex' = ClampedIndex
  /\ screen' = CASE setupMode # "none"     -> "SETUP"
                 [] setupMode = "none" /\ failed -> "BUS ERROR"
                 [] setupMode = "none" /\ ~failed /\ busActive -> "ACT"
                 [] setupMode = "none" /\ ~failed /\ ~busActive /\ count > 0 -> "TMO"
                 [] OTHER                  -> "WAITING"
  /\ displayAge' = 0

----------------------------------------------------------------------------
\* The globals as C start-up code leaves them; a history variable starts afresh too.
RamInit == /\ busError = FALSE /\ busActive = FALSE /\ silence = 0 /\ rx = <<>> /\ heard = FALSE
           /\ selectedIndex = 0 /\ setupMode = "none" /\ setupField = 0
           /\ setupQnh = QnhDefault /\ receivedQnh = 0 /\ lcdBacklightOn = TRUE /\ sentQnh = 0
           /\ held = NotHeld /\ displayAge = 0 /\ screen = "BOOT" /\ late = 0 /\ pc = "setup"

MonInit == /\ CanInit /\ StoreInit /\ RamInit
           /\ rtc \in Clocks /\ key \in Levels

\* A jump to address 0, from the button or from RESET: all RAM starts again, the chips
\* keep what they hold, and rotary.begin() reads the level of the button.
Restart == /\ CanReset /\ slots' = Zeroed /\ count' = 0
           /\ busError' = FALSE /\ busActive' = FALSE /\ silence' = 0 /\ rx' = <<>> /\ heard' = FALSE
           /\ selectedIndex' = 0 /\ setupMode' = "none" /\ setupField' = 0
           /\ setupQnh' = QnhDefault /\ receivedQnh' = 0 /\ lcdBacklightOn' = TRUE /\ sentQnh' = 0
           /\ held' = NotHeld /\ displayAge' = 0 /\ screen' = "BOOT" /\ late' = 0 /\ pc' = "setup"
           /\ key' \in Levels /\ UNCHANGED rtc

runCanStartup == /\ pc = "setup" /\ StartupStep
                 /\ UNCHANGED <<storeVars, pc, busVars, uiVars, rtc, key, held, timeVars>>

EndSetup == /\ pc = "setup" /\ boot \in {"ok", "failed"}
            /\ busError' = (boot = "failed")
            /\ updateDisplay(boot = "failed")
            /\ pc' = "encoder"
            /\ UNCHANGED <<canVars, storeVars, busActive, silence, rx, heard, setupMode, setupField,
                           setupQnh, receivedQnh, lcdBacklightOn, sentQnh, rtc, key, held, late>>

----------------------------------------------------------------------------
Wrapped(i) == IF i < 0 THEN totalItems - 1 ELSE IF i >= totalItems THEN 0 ELSE i

\* Defect: the upper limit is forgotten.
FaultyClamped(q) == IF q < QnhMin THEN QnhMin ELSE q
Clamped(q) == IF q < QnhMin THEN QnhMin ELSE IF q > QnhMax THEN QnhMax ELSE q

\* rotary.poll() and the branch on its step.
Turn(step) ==
  \/ /\ step # 0 /\ setupMode = "alt"
     /\ setupQnh' = Clamped(setupQnh + step)
     /\ sendQnhUpdate(Clamped(setupQnh + step))
     /\ UNCHANGED selectedIndex
  \/ /\ step # 0 /\ setupMode = "none" /\ totalItems > 0
     /\ selectedIndex' = Wrapped(selectedIndex + step)
     /\ UNCHANGED <<setupQnh, sentQnh, wire>>
  \/ /\ step = 0 \/ setupMode \in {"time", "date"} \/ (setupMode = "none" /\ totalItems = 0)
     /\ UNCHANGED <<selectedIndex, setupQnh, sentQnh, wire>>

Encoder == /\ pc = "encoder" /\ pc' = "key"
           /\ \E step \in Steps : Turn(step)
           /\ UNCHANGED <<initialized, mode, boot, verified, storeVars, busVars, setupMode, setupField,
                          receivedQnh, lcdBacklightOn, rtc, key, held, timeVars>>

\* A press on ALT: the last valid QNH heard becomes the one to edit, and it is sent.
EnterAlt ==
  /\ setupMode = "none" /\ selectedIsAlt
  /\ setupQnh' = (IF QnhMin <= receivedQnh /\ receivedQnh <= QnhMax THEN receivedQnh ELSE setupQnh)
  /\ sendQnhUpdate(setupQnh')
  /\ setupMode' = "alt" /\ UNCHANGED <<setupField, lcdBacklightOn, rtc>>

EnterClock ==
  /\ setupMode = "none" /\ (selectedIsTime \/ selectedIsDate)
  /\ setupMode' = IF selectedIsTime THEN "time" ELSE "date"
  /\ setupField' = 0
  /\ UNCHANGED <<setupQnh, sentQnh, wire, lcdBacklightOn, rtc>>

LastField == IF setupMode = "time" THEN 1 ELSE 2

NextField ==
  /\ setupMode \in {"time", "date"} /\ setupField < LastField
  /\ setupField' = setupField + 1
  /\ UNCHANGED <<setupMode, setupQnh, sentQnh, wire, lcdBacklightOn, rtc>>

\* The last field of a clock setup commits: setFromComponents, on a clock that is found.
LeaveSetup ==
  /\ setupMode = "alt" \/ (setupMode \in {"time", "date"} /\ setupField >= LastField)
  /\ setupMode' = "none"
  /\ rtc' = IF setupMode # "alt" /\ rtc # "absent" THEN "set" ELSE rtc
  /\ UNCHANGED <<setupField, setupQnh, sentQnh, wire, lcdBacklightOn>>

ToggleBacklight ==
  /\ setupMode = "none" /\ ~selectedIsAlt /\ ~selectedIsTime /\ ~selectedIsDate
  /\ lcdBacklightOn' = ~lcdBacklightOn
  /\ UNCHANGED <<setupMode, setupField, setupQnh, sentQnh, wire, rtc>>

shortPress == EnterAlt \/ EnterClock \/ NextField \/ LeaveSetup \/ ToggleBacklight

HeldAt(level) == IF level /\ ~key THEN 0 ELSE held

\* The button: held long enough it resets, even if the release is seen in the same pass.
HoldReset == /\ pc = "key" /\ \E level \in Levels : HeldAt(level) >= HoldTime
             /\ Restart

Key == /\ pc = "key" /\ pc' = "receive"
       /\ \E level \in Levels :
            /\ HeldAt(level) < HoldTime /\ key' = level
            /\ \/ /\ HeldAt(level) = NotHeld \/ level
                  /\ held' = HeldAt(level)
                  /\ UNCHANGED <<setupMode, setupField, setupQnh, sentQnh, wire, lcdBacklightOn, rtc>>
               \/ /\ HeldAt(level) # NotHeld /\ ~level
                  /\ held' = NotHeld /\ shortPress
       /\ UNCHANGED <<initialized, mode, boot, verified, storeVars, busVars, selectedIndex,
                      receivedQnh, timeVars>>

----------------------------------------------------------------------------
\* uint16_t
Words == 0 .. 256 * 256 - 1

QnhOf(m) == m.data[1] + 256 * m.data[2]
IsQnh(m) == m.id = ALT_SETTING /\ Len(m.data) >= 2

\* What becomes of a frame: a QNH is noted, a data frame stored, a command ignored.
Take(m) ==
  \/ /\ IsQnh(m) /\ receivedQnh' = QnhOf(m) /\ UNCHANGED storeVars
  \/ /\ ~IsQnh(m) /\ m.id < CONFIG /\ update(m) /\ UNCHANGED receivedQnh
  \/ /\ ~IsQnh(m) /\ m.id >= CONFIG /\ UNCHANGED <<storeVars, receivedQnh>>

\* Defect: lastMessageMs is set whether or not a frame was there.
FaultyReceive ==
  /\ pc = "receive" /\ pc' = "timeout" /\ silence' = 0
  /\ \/ /\ ~busError /\ rx # <<>>
        /\ Take(Head(rx)) /\ rx' = Tail(rx)
        /\ busActive' = TRUE /\ heard' = TRUE
     \/ /\ busError \/ rx = <<>>
        /\ UNCHANGED <<storeVars, receivedQnh, rx, busActive, heard>>
  /\ UNCHANGED <<canVars, busError, selectedIndex, setupMode, setupField, setupQnh,
                 lcdBacklightOn, sentQnh, rtc, key, held, timeVars>>

Receive ==
  /\ pc = "receive" /\ pc' = "timeout"
  /\ \/ /\ ~busError /\ rx # <<>>
        /\ Take(Head(rx)) /\ rx' = Tail(rx)
        /\ silence' = 0 /\ busActive' = TRUE /\ heard' = TRUE
     \/ /\ busError \/ rx = <<>>
        /\ UNCHANGED <<storeVars, receivedQnh, rx, silence, busActive, heard>>
  /\ UNCHANGED <<canVars, busError, selectedIndex, setupMode, setupField, setupQnh,
                 lcdBacklightOn, sentQnh, rtc, key, held, timeVars>>

\* Defect: the timeout is tested only while the chip holds a frame.
FaultyTimedOut == ~busError /\ busActive /\ silence > BusTimeout /\ rx # <<>>

TimedOut == ~busError /\ busActive /\ silence > BusTimeout

Timeout == /\ pc = "timeout" /\ pc' = "serial"
           /\ busActive' = (busActive /\ ~TimedOut)
           /\ UNCHANGED <<canVars, storeVars, busError, silence, rx, heard, uiVars, rtc, key, held,
                          timeVars>>

\* Defect: CLEAR forgets the selection.
FaultyClearStore == clear /\ busActive' = FALSE /\ UNCHANGED selectedIndex

ClearStore == clear /\ busActive' = FALSE /\ selectedIndex' = 0

\* processSerial.  SYSRESET and SET transmit without asking whether the bus is in error.
Serial(cmd) ==
  \/ cmd = "CLEAR" /\ ClearStore /\ UNCHANGED <<wire, rtc>>
  \/ /\ cmd \in {"SYSRESET", "SET"} /\ Send
     /\ UNCHANGED <<storeVars, busActive, selectedIndex, rtc>>
  \/ /\ cmd = "TIME" /\ rtc' = IF rtc = "absent" THEN "absent" ELSE "set"
     /\ UNCHANGED <<storeVars, busActive, selectedIndex, wire>>
  \/ cmd = "NONE" /\ UNCHANGED <<storeVars, busActive, selectedIndex, wire, rtc>>

processSerial ==
  /\ pc = "serial" /\ pc' = "display"
  /\ \E cmd \in Commands \ {"RESET"} : Serial(cmd)
  /\ UNCHANGED <<initialized, mode, boot, verified, busError, silence, rx, heard, setupMode,
                 setupField, setupQnh, receivedQnh, lcdBacklightOn, sentQnh, key, held, timeVars>>

SerialReset == pc = "serial" /\ "RESET" \in Commands /\ Restart

Display ==
  /\ pc = "display" /\ pc' = "encoder" /\ late' = 0
  /\ \/ displayAge >= DisplayRefresh /\ updateDisplay(busError)
     \/ displayAge < DisplayRefresh /\ UNCHANGED <<selectedIndex, screen, displayAge>>
  /\ UNCHANGED <<canVars, storeVars, busVars, setupMode, setupField, setupQnh, receivedQnh,
                 lcdBacklightOn, sentQnh, rtc, key, held>>

Loop == Encoder \/ HoldReset \/ Key \/ Receive \/ Timeout \/ processSerial \/ SerialReset \/ Display

----------------------------------------------------------------------------
\* A frame reaches the chip; one that finds its buffers full is lost unseen.
Arrive(m) == /\ pc # "setup" /\ boot = "ok" /\ mode = "normal" /\ Len(rx) < RxBuffers
             /\ rx' = Append(rx, m)
             /\ UNCHANGED <<canVars, storeVars, pc, busError, busActive, silence, heard, uiVars, rtc,
                            key, held, timeVars>>

Capped(n, cap) == IF n < cap THEN n + 1 ELSE n

Tick == /\ pc # "setup" /\ late < MaxLate /\ late' = late + 1
        /\ silence' = Capped(silence, SilenceCap)
        /\ displayAge' = Capped(displayAge, DisplayRefresh)
        /\ held' = IF held = NotHeld THEN NotHeld ELSE Capped(held, HoldTime)
        /\ UNCHANGED <<canVars, storeVars, pc, busError, busActive, rx, heard, uiVars, rtc, key, screen>>

Arrival == \E m \in Frames : Arrive(m)
Processor == runCanStartup \/ EndSetup \/ Loop

MonNext == Processor \/ Arrival \/ Tick

\* The processor never stops and neither does time; nothing is assumed of the bus.
MonSpec == MonInit /\ [][MonNext]_monVars /\ WF_monVars(Processor) /\ WF_monVars(Tick)
----------------------------------------------------------------------------
MonTypeOK ==
  /\ CanTypeOK /\ StoreTypeOK
  /\ pc \in {"setup", "encoder", "key", "receive", "timeout", "serial", "display"}
  /\ {busError, busActive, heard, lcdBacklightOn, key} \subseteq BOOLEAN
  /\ rx \in Seq(Frames) /\ Len(rx) <= RxBuffers
  /\ selectedIndex \in Nat /\ setupQnh \in Nat /\ receivedQnh \in Words /\ sentQnh \in Nat
  /\ setupMode \in {"none", "alt", "time", "date"} /\ setupField \in 0 .. 2
  /\ rtc \in {"absent", "unset", "set"} /\ held \in {NotHeld} \union 0 .. HoldTime
  /\ silence \in 0 .. SilenceCap /\ displayAge \in 0 .. DisplayRefresh /\ late \in 0 .. MaxLate
  /\ screen \in {"BOOT", "SETUP", "BUS ERROR", "ACT", "TMO", "WAITING"}

\* However frames, presses, TIME and CLEAR interleave, the selection points at an item
\* that exists: loop() uses it as an index long before updateDisplay() clamps it.
SelectionInRange == selectedIndex = 0 \/ selectedIndex < totalItems

\* A selected CAN identifier stays selected until the encoder, CLEAR or a restart: frames
\* of new identifiers and a clock being set must not put another item under the button.
Selected == IF selectedIndex < count THEN {slots[selectedIndex + 1].id} ELSE {}
SelectionStays ==
  [][Selected # {} /\ pc # "encoder" /\ count' # 0 => Selected' = Selected]_monVars

\* Whatever value was heard from the bus, the monitor broadcasts a QNH only within the
\* limits the altimeter setup is clamped to.
SentQnhInRange == sentQnh # 0 => QnhMin <= sentQnh /\ sentQnh <= QnhMax

\* The status the screen changes to is true when it is drawn: ACT needs a frame within the
\* timeout and the length of one pass, TMO a silence longer than the timeout.
StatusTruthful ==
  [][pc = "display" /\ pc' # "display" /\ displayAge >= DisplayRefresh =>
       /\ screen' = "ACT" => heard /\ silence <= BusTimeout + MaxLate
       /\ screen' = "TMO" => silence > BusTimeout]_monVars

\* If the bus falls silent for good, the monitor notices.
SilenceIsNoticed == <>[][~Arrival]_monVars => <>[](~busActive)

\* To the rest of the bus the monitor is a QnhPanel, whatever its loop, its display, its clock
\* setup and its store are doing.
Panel == INSTANCE QnhPanel WITH editing <- (setupMode = "alt")
ImplementsQnhPanel == Panel!PanelSpec
=============================================================================
