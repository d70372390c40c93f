# n2-arduino: TLA+ models and proofs

This directory models the aircraft instruments of this repository in TLA+: the modules are
translated from the C++ sources, TLC checks them on small instances, and TLAPS proves the most
important invariants for every value of the constants. Line numbers refer to the sources at the
commit these modules were written for; `PROJECT.json` maps each definition to its lines, and
lists the runs, the mutants, the hazards and the theorems.

    tlc -config MCRpmSensor.cfg RpmSensor          # model-check
    tlapm RpmSensor_proofs.tla                     # prove

## The system

Several boards (ATmega328 with an MCP2515 CAN controller) share one CAN bus. Each runs one
`setup()` and one `loop()`, without an operating system: concurrency comes from interrupts, from
the CAN chip that receives while `loop()` is elsewhere, from the clock, the user and the host on
the serial port, and from the other boards.

| Component | State it keeps | Operations | Modelled by |
|---|---|---|---|
| Tachometer, sensor (`RpmSensor.h`) | pulse counter shared with the interrupt handler | `begin`, `pulseIsr`, `readRpm` | RpmSensor, RpmMath, PulseCounter |
| Tachometer, CAN driver and start-up (`CanBusMCP2515.h`, `runCanStartup`) | `_initialized`; the chip's mode | `begin`, `setMode`, `sendMessage`, self-test, SYSTEM_INIT | CanStartup |
| Tachometer, settings (`loadConfig`, `EepromConfigure.h`) | EEPROM; the copy of three settings in RAM | first-boot defaults, load, SET/GET of a byte or a word | TachConfig |
| Tachometer, `loop()` (`main.cpp`, `TachLogger.h`) | speed, warning, time of last measurement | receive, measure, draw, send | Tachometer |
| Monitor, store (`CanMessageStore.h`) | array of entries, count | `update`, `clear`, `getAt` | CanMessageStore, MessageStore, LatestFrames |
| Monitor, `loop()` (`CanbusMonitor/src/main.cpp`) | bus status, selection, setup mode, QNH, clock | encoder, button, receive, timeout, serial commands, display | CanbusMonitor, QnhPanel |
| Logger, log file (`CanbusLogger/lib/sdLogger/SdLogger.h`) | open file and its date, times of last flush and check | `log`, `tick`, `onTimeSet`, `pause`, `resume`, `setDeviceId` | SdLogger |
| Logger, `loop()` (`CanbusLogger/src/main.cpp`) | device identifier, CAN error | receive, tick, serial commands | SdLogger |
| Basic flight instruments (`BasicFlightInstruments/src/main.cpp`) | altimeter setting, broadcast counter | take a setting from line or bus, broadcast it, SYSRESET | FlightInstruments, QnhSync |
| CAN mock (`CanMock/src/main.cpp`) | engine state, waves, timers | periodic frames, SYSRESET | CanMock |
| `lib/eventmanager` | two ring buffers, table of listeners | `queueEvent` (also from interrupts), `processEvent`, `processAllEvents`, adding, removing, enabling listeners | EventQueue, EventFifo, EventManager |
| `lib/controls` | debounced level; position of the knob | `Begin`, `Loop`, `Reset` of button and encoder | Controls |
| `lib/fifoQueue` | ring of bytes | `push`, `pop` | FifoQueue, MessageQueue |
| `lib/commandHandler` | line buffer | `process` | CommandHandler |
| Engine monitor (`ExampleCode/EngineMonitor`) | sensors and offsets, filter, EEPROM | configuration requests, one pass over the sensors, ENGINE_DATA_1 | EngineMonitor, OilPressure, TemperatureSensors, EngineDataPacker |
| Its receiver (`ExampleCode/NanoCanbusReceiver`) | last decoded frame | receive, decode, show | EngineMonitor, EngineDataPacker |
| CanbusBasic node (`ExampleCode/CanbusBasic`) | settings, message queue, event manager | `begin` with retries, receive, SET and GET, listeners, altitude | CanSensor |
| `lib/clock`, `lib/barometer`, `lib/systemConfig`, EMS-App, other ExampleCode | | | not modelled, see below |

Interactions. The sensor's handler and `readRpm()` share the counter. The tachometer puts RPM
frames on the bus and answers configuration requests 0x200..0x203 with 0x210 and 0x211; its
settings reach RAM only through the next boot. The monitor stores data frames, keeps the QNH
frame 0x190 apart, ignores identifiers from 0x7E0 on, and broadcasts the QNH its user edits; the
flight instruments take it and tell everybody, at once and every tenth second. A host drives
monitor and logger with lines on the serial port. The logger only listens. The engine monitor
serves the same configuration protocol and sends one packed frame a second, which the receiver
shows. Button and encoder report through an event manager of their own, whose events the
application hands out. A CanbusBasic node puts chip, message queue, event queue and listener in a
row, each with its own limit.

What is hard. Interrupts between two statements of `readRpm()` or of `popEvent()`; listeners that
change the table they are called from; power loss between two EEPROM writes or with rows in a
buffer; a CAN chip any call of which may fail, under a driver that never takes back that it is
ready; frames lost for want of a buffer; a selection by index into a list that grows while it is
shown; ages compared at some other time than they are used, or read twice; one loop that serves
everything in turn. What makes each component correct is listed with its run below, and line by
line under "hazards" in `PROJECT.json`.

## Modules and code

Names of the code are kept where TLA+ allows it. An operator called `Faulty...` is a plausible
defect of the definition that follows it, used only to show that a property would notice it.
Variables marked "history" in a module are not in the program; an action is guarded by one only
where a bound of a run limits edges, pulses, requests or characters.

* **RpmSensor** has one action per statement of `readRpm()`, the handler, and the pin's interrupt
  flag. `Edge` raises the flag, `pulseIsr` runs when interrupts are enabled. The counter wraps at
  `CountMod` (2^16 in the code) and `Rpm` (RpmMath) is the arithmetic of the last two lines of
  `readRpm()`, in two truncations. **PulseCounter** is the abstract specification: a counter with
  an atomic increment and an atomic read-and-clear.
* **CanStartup** is the driver with `runCanStartup`, one action per call that may fail. A failed
  mode request may still take effect, and a failed `begin` leaves the chip in configuration mode
  or the mode asked for; the mode survives a reset of the processor until `initCAN`. With
  `Reinit` the second `begin()` of the monitor is part of it.
* **TachConfig** extends it by EEPROM and settings. `load` counts through `loadConfig()`: the test
  of the magic byte, one action per byte of defaults, the load with its range checks. A request
  is handled in up to three steps (first byte, second byte, response), so `PowerLoss` fits
  between any two writes. Addresses wrap at the size of the device. A byte has `ByteMod` values.
* **Tachometer** adds `loop()`: `ReceivePart`, the steps of a request, `NotYetDue` or `Measure`,
  `SendRpm`. It takes the sensor as the atomic counter that RpmSensor is proved to implement.
* **CanMessageStore** is the array of the monitor's store with its stale bytes; **MessageStore**
  runs it on its own; **LatestFrames** is the comment of the class as a specification: a function
  from tracked identifiers to latest frames, at most `Capacity` of them.
* **CanbusMonitor** has one action per part of `loop()` in the order of the code, with `Arrive`
  and `Tick` between any two. `Restart` is the jump to address 0 of RESET and of the 5 s press.
  Commands, encoder steps and levels of the button are nondeterministic. **QnhPanel** is what the
  other nodes see of it, an altimeter panel; CanbusMonitor refines it.
* **FlightInstruments** is the part of the flight instruments that keeps the altimeter setting.
  **QnhSync** composes it with QnhPanel over a bus that loses any frame, with a user, a host, and
  a node that sends settings unknown to both. As the monitor implements QnhPanel, what holds here
  holds of the monitor. Received frames are two sequences, one per chip.
* **CanMock** is the scripted engine: its states, timers and two triangle waves in the 16 bits of
  the code, with time in ticks of half a second, and every frame it sends with its payload word.
* **SdLogger** is the logger board: `log`, `tick`, `processSerial` in order; `Restart` is power
  loss or RESET. Instead of rows the model keeps how long the oldest row that is not durable has
  waited, and for how long the open file has had yesterday's date.
* **EventQueue** is one ring of the event manager as operators on the record of its members.
  **EventManager** has the listener table and the two dispatching functions, one action per
  stretch that no interrupt divides: `popEvent()` is its unprotected test and its atomic block.
  A listener may queue, add, remove, enable and disable, while the loop over the table that
  called it goes on from its index. `EMNext` are the steps of manager and interrupts alone.
  **EventFifo** is the promise of a queue, a bounded FIFO.
* **Controls** is button and encoder on top of it. `Loop()` of the button reads the clock twice,
  and the clock (which wraps at `ClockMod`) may tick in between; contacts bounce, the knob has
  four phases per detent, and a queue may refuse an event. The clock does not tick while events
  are handed out, as nothing reads it then. `lastKey` is the last key event queued; `Reset()`
  queues none, so it leaves `lastKey` alone. `ControlsSpec` is button, encoder,
  manager, interrupts and application together; the run divides it to be small.
* **FifoQueue** is the ring of messages with its comparison of items with bytes, **MessageQueue**
  runs it between a writer and a reader (`QueueSpec`), **CommandHandler** takes characters one by
  one (`CommandSpec`).
* **CanSensor** is a CanbusBasic node: library, main program and the events between them. A SET
  or GET acts at any address, modulo `MemorySize`, as `EEPROM.put` and `get` do; what a short
  command leaves out, of its address too, is chosen from `Stray`. A word is written byte by byte,
  and power may fail between the two.
* **OilPressure** and **TemperatureSensors** are the sensors of the engine monitor with the
  filter, the offsets and the states of error (fixed-point numbers for the floats of the code),
  **EngineDataPacker** the eight bytes of a frame in both directions, and **EngineMonitor** the
  loop, the configuration requests one write at a time, the receiver and power loss. The history
  `truth` is what the sensors answered (`Measured`), taken from converters and samples and not
  from the program's flags: measured, failed, or, of an open or shorted oil sender, nothing new.
* `MC...` modules give small instances for TLC, `..._proofs` modules hold the theorems.

## Runs

| Run | What it asks | Distinct states |
|---|---|---|
| `rpm_sensor` | refinement of PulseCounter: each edge is counted once and the reading is atomic; every pulse is reported in the end | 4 433 |
| `tach_config` | nothing on the wire before the self-test; the running settings are in range whatever the EEPROM holds; an erased board runs with the defaults wherever power failed; a response states what the EEPROM holds | 263 431 |
| `tachometer` | frame, speed, warning and threshold agree; the warning is exact; a stopped engine reads zero in the end; configuration traffic does not starve the measurement | 183 560 |
| `message_store` | refinement of LatestFrames, stale bytes and all | 6 534 |
| `monitor_bus` | start-up with its second `begin()`: operational means tested; the status drawn is true; silence is noticed | 226 116 |
| `monitor_controls` | the selection is valid and stays on its identifier while frames arrive and the clock is set; refinement of QnhPanel | 2 673 584 |
| `sd_logger` | what power loss takes is bounded; rows go through one open file of the right device and, but for a bounded time after a midnight, of the date | 9 852 |
| `engine` | what the receiver shows is what the sensors said in one pass; a confirmed word is stored; the offsets in use are those of the last start; average and warning are those of the samples taken | 299 050 |
| `events` | each queue refines EventFifo while interrupts add to it; high priority first; no listener passed over; presses are debounced, unless the clock ticks between the two readings; a held key is reported; events tell the state of the button, unless an error code or a `Reset()` stands between, and the position of the knob | 306 654 |
| `debounce_race` | shows that the exception of the debouncing is real, see below | |
| `canbus_basic` | the altitude shown is the newest read, byte order as it is; every byte of the settings is that of the last command that covered it, but for what power cut off; the message queue keeps order as long as it keeps anything; a failed start is reported; a line runs the first option that accepts it, or is refused as a whole | 295 193 |
| `bus_nodes` | monitor and flight instruments agree on the altimeter setting unless a frame was lost, and in the end in any case; opening the setup screen changes nothing; the range of the instruments rests on unknown senders only; the mock's speeds name no setting of the tachometer | 136 312 |

The bounds, and why they suffice:

* `rpm_sensor`: `CountMod = 3` and six edges, so the counter wraps twice and edges still fall
  into every gap of two readings; a divisor of 0 is among the inputs of `begin`.
* `tach_config`, `tachometer`: bytes of two bits and an EEPROM of eight bytes. All seven bytes of
  the settings are there, the relation of limits to erased bytes is that of the code (an erased
  divisor, threshold and identifier are out of range), one address wraps to the magic byte and
  one word starts in the last cell. Images: erased, zeros, and leftovers under a valid magic byte.
* `tachometer`: one pulse per reading up to an overflow of the 16-bit result, a reading up to one
  tick late, and a host that rewrites the identifier, on a board whose settings are valid. The
  invalid images are the subject of `tach_config`.
* `message_store`: two entries and three identifiers fill and overflow the array; frames that are
  empty, short, full and too long; the identifier 0 of an unused entry is one of them.
* `monitor_...`: a store of two entries and one receive buffer are enough to fill both. A pass of
  `loop()` may take one tick (`MaxLate`), comparable to the timeouts; a longer pass only makes
  the bounds, which depend on it, larger. Each run takes the inputs its question needs; all of
  them together exceed what TLC can finish in minutes. In `monitor_controls` a monitor with a
  clock hears two instruments and one without hears settings, valid and invalid: the clock adds
  the items TIME and DATE to the list, the settings do not.
* `sd_logger`: flush every 2 ticks, check every 3, a pass of up to 2, dates 1 and 2 with
  "not set". Both bounds are reached: the invariants fail with one tick less, so the theorems
  below state the best bounds. With a pass of two ticks every command can fall before, between
  and after them.
* `engine`: a filter of two samples, so it is half full, full and wrapped within three passes; six
  configured sensors of which three, the ambient one among them, answer or fail from scene to scene;
  an oil sender that is well, low, open, or read in vain; an offset that makes a valid reading
  exactly -999; two requests, so one can overwrite another; the scenes change freely without
  requests and stay calm with them, and one request is enough when a receiver listens, because
  neither reads what the other does.
* `events`: queues of two events and a table of two listeners are filled, emptied and wrapped. A
  clock modulo 4 with a debounce time of 1 wraps within a press. The encoder turns one detent beyond
  its start in either direction; the knob waits for the poll that counts its phase, as the library
  polls faster than a hand turns. With button and encoder together the application empties the queue
  before it polls.
* `canbus_basic`: chip and message queue hold two frames and fill up; three failed attempts end
  the start; a memory of four cells with two settings, commands for either, one byte off, wrapping
  to the start, for another node, and short with 1 for the bytes nobody initialised; the frames
  include remote requests, foreign ones, empty and short ones. Commands come one at a time, as a
  waiting one changes nothing. Lines of up to six characters over two
  letters overflow a buffer of four.
* `bus_nodes`: three settings the panel can dial, one it cannot, one from the serial line outside
  each limit, one frame in each chip (with two, the run takes longer than minutes; the theorems
  hold for every number of buffers). The mock's waves have eight steps instead of two hundred and
  its timers the ratios of the code.

## Fairness

* RpmSensor: weak fairness of `readRpm`, because `loop()` never blocks for good; strong fairness
  of `pulseIsr`, because the AVR serves a pending interrupt before the next instruction whenever
  interrupts are enabled, and they are enabled again and again.
* Tachometer, CanbusMonitor (`monitor_bus`): weak fairness of the processor's next step and of
  the clock. Nothing is assumed of pulses, frames, users or hosts, and power may fail at any time.
  The liveness properties allow for it: a pending effect is excused when power is lost.
* `events`: the code between two polls runs on (weak), the application empties its queue (weak)
  and polls again and again, and the clock ticks (both strong, as dispatching suspends them). This
  is the use `controls.h:63` prescribes; nothing is assumed of key, knob and interrupts.
* `canbus_basic`: weak fairness of the node's next step.
* `bus_nodes`: weak fairness of the instruments' loop and of the monitor taking a received frame;
  strong fairness of "a second has passed" and of a broadcast arriving: a bus on which every
  repetition is lost agrees on nothing.
* SdLogger and EngineMonitor promise safety only, and assume no fairness.

## Proofs

Every safety property of the runs is a theorem, and so is every refinement; what rests with TLC
is named at the end. The theorems hold for every value of the constants that satisfies the ASSUME
of the modules. These say that sizes, intervals and bounds are natural numbers, not zero where
the code has a non-zero literal, that limits are in order and that inputs have their types.
Beyond that: `ConfigAssumption` and `ErasedAssumption` hold the defaults of the code and that an
erased word is out of range; `ReadingsAssumption` allows one sensor fewer than the buffer holds
(see `main.cpp:97` below); `SceneAssumption` and `MeasurementAssumption` bound what converters can
deliver; `SyncAssumption` says that what the panel dials passes the range check of the
instruments, `MockAssumption` that settings lie in the lower half of the EEPROM.

* **RpmSensor_proofs**: `TypeCorrect`, `Masked`, `Conservation`, `Refinement`. The masking
  invariant is inductive with the type invariant, and is what makes the other two so: between copy
  and reset `count = pulseCount`, so clearing the counter takes exactly what was copied.
  `Refinement` maps each step of the handler and of `readRpm()` to an atomic step or a stutter.
* **Tachometer_proofs**, first the settings (module TachConfig): `TypeCorrect`, `StartupSafe`,
  `ConfigValid`, `TruthfulReplies`, `DefaultsSurvive`. The start-up needs the order of its phases
  (`CanInv`, `OrderInv`): which phase implies which mode, and that nothing is served before the
  configurator exists. `DefaultsSurvive` needs that on a board that came erased every byte of the
  settings is either erased or its default, and that a word half of which is erased is out of
  range. Then the loop: `TachTypeCorrect`, `FramesConsistent`, `DataOnlyFromTested`, `TachSafe`,
  `OverSpeedIsExact`. Steps of the loop that leave the configuration alone and steps of the
  configuration are separated first (`StepsOfConfig`), so that the invariants carry over; `LoopInv`
  adds that a running board measures with the settings it loaded. The warning is exact because
  truncation cannot change a comparison with a whole number as long as the rate fits the result
  (`RpmExceeds`).
* **CanbusMonitor_proofs**, first the store: lemmas on `update` and `clear`, `StoreCorrect` (types
  and `TrackedOnce`) and `Implementation`, the refinement of LatestFrames: adding, refreshing,
  dropping and clearing each map to one step of it. Then the monitor: `MonTypeCorrect`,
  `SelectionValid`, `SelectionSteady`, `StatusIsTrue`, `SettingsInRange`, `MonitorTested`,
  `MonitorTracksOnce`, `MonitorIsPanel`. One invariant, `MonParts`, is the conjunction of parts
  that the actions disturb separately (driver, store, buffers, ages, setting, selection, bus). The
  selection is inductive because the list only shrinks through CLEAR, which resets the index, and
  through the clock, which is only ever set; it stays on its identifier because no step moves a
  used entry (`UpdateStep`). `BusPart` carries the status: a bus found active by the timeout test
  of this pass is silent for no longer than timeout and pass when the display is drawn, and an
  inactive one with frames in the store has been silent since it was found so.
* **QnhSync_proofs**: `Agreement`, `OpeningIsHarmless`, `RangeRestsOnSenders`. `AgreeInv` says
  that the setting the monitor will know once it has emptied its chip is the one in force, unless
  a frame was missed or one still waits at the instruments; `RangeInv` that every frame under way
  came from a panel or a checked line, unless another node sent one. Of the mock:
  `SpeedsSpareSettings`, `WavesKeepToScale`.
* **SdLogger_proofs**: `Invariance`, from it `TypeCorrect`, `OneLog`, `BoundedLoss`,
  `BriefMisfiling`, `RightFolder` and `RightFile`. The bounds are not inductive: a row is no older
  than the last flush (`FlushRecent`), whose age depends on the part of the loop that runs next -
  less than the interval when `tick` has just looked, plus the ticks of this pass and of the one
  before it (`SinceLook`). `DatesInOrder` says that an open file's date is never ahead of the
  clock, so that file and clock can agree again only through an open, which resets the age of the
  disagreement.
* **Controls_proofs**, of event manager and controls together: `ControlsInvariant`, `HighGoesFirst`,
  `AllAreTold`, `ListenersKnowTheKey`, `CountIsOfKnob`, `PressIsSteady`, `QueuesKeepOrder`.
  `ManagerInv` says that a queue found not empty by the unprotected test of `popEvent()` is still so
  in its atomic block (`PopFindsEvent`: an interrupt only adds), how many high events a pass has
  left to see (`HighCounted`), and which listeners the loop over the table still has to reach
  (`OwedAreDue`), as long as no removal has moved entries behind its index. `ControlInv` says for
  how long the contact has been steady (`DebounceIsSteady`), that the count is that of the phases
  polled (`CountIsOfSeen`), and what the last event told (`KeyTold`). The refinement maps the ring
  to the sequence of its events, for every size of the queue.
* **EngineMonitor_proofs**: `ConfirmedWritesAreStored`, `MonitorRunsTheSensor`,
  `SensorFollowsSamples`, `FilterIsOfSamples`, `AmplifiersRunWithStoredOffsets`,
  `DisplayIsWhatSensorsSaid`. The oil sensor alone is a specification (`OilSpec`) that the engine
  monitor implements, so its filter is proved once: the ring holds the most recent samples
  (`RingHoldsRecent`) and the running sum is theirs (`RingAddsUp`). What the recursive sum `Total`
  does when one sample changes or the window moves on (`TotalReplaced`, `TotalTail`) is proved by
  induction over a set of numbers: `ReachesAll` derives it from the well-foundedness of the finite
  sets of numbers. `ConfigInv` says that a confirmed word is in the EEPROM although its bytes are
  written one at a time; `TableInv` follows the offsets from EEPROM to amplifier through the loop
  over the table; `FramesAreOfPasses` follows every field from reading to packed byte, to the frame
  under way, to the display. The conversions are bounded field by field, each to within the rounding
  and the step of its byte; `OilReadingIs` says when the oil sensor's flags agree with what its
  sender answered.
* **CanSensor_proofs**: `AltitudeIsTheNewest`, `SettingsStayOrdered` of the node, `MessagesKeepOrder`
  of the queue, `LinesRunWhatTheyMean` of the command handler. `NodeInv` follows one message from
  chip to queue, event and listener, and shows that there is never a second one on the way: the
  events are handled before the chip is asked again, so the limits of both queues are never
  reached and DATA_LOST is never raised. `SettingsInv` says which bytes of the word ordered are
  still to be written, that every other cell is as ordered, and that of a word the power cut the
  second byte is never the only one in place. `QueueInv` says that the ring
  holds what was pushed, in its order, until an item is overwritten, and that an overflow is
  reported only after that. `CommandInv` says that the buffer is the line as long as it has room;
  that `process` then looks for options as `LineRunsWhatItMeans` does is `FindsIsFits`.

Where the proofs changed the models. An attempt to prove what the display shows failed, rightly: a
failed ambient thermocouple shows -2 degrees and not the low end of its scale; the property now
says so and the run contains the case. `StatusTruthful` was true only because the run's refresh
interval is not zero; it now speaks of the display's own step. The rule that a foreign frame is
dropped silently and an empty one reported (`CanSensor.cpp:258`, `:310`) had been modelled the wrong way
round.

Type invariants, `EdgesConserved`, `MaskedWhileCopying`, `DataOnlyWhenTested`, `TrackedOnce`,
`SentQnhInRange` and the three parts of `FilesInOrder` are stated and proved; the runs leave them
to the stronger properties that rest on them.

Only model-checked: the liveness properties (`PulsesAreReported`, `StoppedEngineReadsZero`,
`KeepsMeasuring`, `SilenceIsNoticed`, `HeldKeyIsReported`, `FailureIsReported`,
`DisagreementEnds`), as fairness and ENABLED are out of reach of the prover.

## Where code and documents differ

Shown by a run, with its counterexample:

* `debounce_race`: `ButtonControl::Loop` stores a second `millis()` as the time of the change
  (`button.cpp:59`) and subtracts it from the first (`:55`). A tick between the two makes the
  difference the largest unsigned number, and the first contact of a bounce is reported as a
  press; `controls.h:111` promises "reliable button input with automatic debouncing".

Noted while modelling, tachometer:

* `loadConfig()` writes the magic byte before the defaults, so it does not confirm "that EEPROM
  was initialised with valid defaults" (`TachMemoryMap.h:6`). The range checks of the same
  function repair it at every boot; that is `DefaultsSurvivePowerLoss`.
* A confirmed identifier is used after the next boot only; the instrument's README (line 127) has
  it in use "from then on".
* The driver stays ready after a failed self-test and `loop()` transmits every second; ADR 00006
  line 40 demands to "skip all further CAN operations".
* The RPM field is not limited to 9999 as `TachDataPacker.h:7` says: `readRpm()` cuts to 16 bits.

Monitor:

* After a frame of one byte the word that alerts and display take from an entry mixes two frames;
  the class comment promises the most recent one.
* SYSRESET, CONFIG and QNH frames are sent also in `busError` (`main.cpp:471`, ADR 00006 line 40),
  and it operates in `MODE_NORMAL` (`main.cpp:608`) where ADR 00006 line 46 and its readme line
  149 say listen-only. The model takes the mode of the code; `FinalMode` is a constant.
* `WAITING` is drawn whenever the bus is quiet and the store empty, also after CLEAR or after QNH
  and command frames only; the readme (line 51) says "No frames received since boot".
* The store holds 8 identifiers, the readme (line 245) says 12.
* Day and month of the DATE setup are edited independently, and the setup writes back the time of
  day at which it was opened. The first frame of a new instrument moves TIME and DATE one place on
  (`main.cpp:303`) under an index that stays. `readBytesUntil` (`:391`) may wait a second for the
  rest of a line, longer than two receive buffers last.

Logger:

* Neither self-test nor SYSTEM_INIT (its `main.cpp:49`), although the repository's README line 19
  describes the sequence as every system's.
* TIME and DEVID end a PAUSE; a log file that cannot be opened is not tried again before the next
  command or boot; a header is only buffered (`SdLogger.h:232`).

Altimeter setting and mock:

* A setting from the bus is applied without the range check of the serial line
  (`BasicFlightInstruments/src/main.cpp:136`). The panel dials 940 to 1050 hPa, the instruments
  take 800 to 1100: opening the setup screen replaces a setting outside the panel's range by the
  panel's own, and drops the quarter hectopascal of the default 1013.25. SYSRESET silently
  returns the instruments to 1013.25. As they rebroadcast whatever they take, two such instruments
  on one bus would answer each other without end.
* ADR 00008 (SYSRESET, CONFIG) is implemented by mock and flight instruments in part and by
  tachometer and logger not at all. The RPM identifier 0x200 of the mock (`CanMock/src/main.cpp:14`)
  is also the tachometer's request to write a byte; it does no harm only because none of the three
  speeds, read as an address, names a setting.

Libraries:

* Event manager: `popEvent()` tests for emptiness outside its atomic block (`EventManager.cpp:638`),
  harmless as long as nobody pops from an interrupt. "High priority first" (`EventManager.h:75`)
  holds of the events that wait when a pass begins. `removeListener` removes the first match only
  (`.h:158`, `:283`); a removal during dispatch moves the entries behind it (`.cpp:452`).
  `processAllEvents()` need not return while interrupts keep adding.
* Controls: an event refused by a full queue is lost, as the state has changed already
  (`button.cpp:63`, `:73`; `controls.h:162` and `:182` say otherwise). The error codes 1 and 2 mean a
  lost press and a lost release, not the invalid pin and failed initialization of `controls.h:185`.
  `Reset()` (`button.cpp:34`) clears code and state and queues nothing: after a lost release and a
  `Reset()` the listeners hold the key for pressed, `ButtonState()` says released and no code
  stands, although `controls.h:190` calls it useful for error recovery. `EventsTellState` allows
  exactly that. `Begin` of the encoder
  stores the inverted level (`rotary.cpp:47`), so the first `Loop()` may count one step nobody
  made; a refused step is counted again (`:93`). Its `Loop()` waits for the debounce time of its
  button (`:77`), and pin 127 means "no pin" to one of them and a pin to the other (`:18`).
* Queue: `push` compares items with bytes (`Queue.cpp:23`), so messages are overwritten long before
  overflow is reported.
* Command handler: the rest of an overlong line is counted until its end (`CommandHandler.cpp:56`);
  a line so long that the pointer difference wraps is outside the bound of the model.

CanbusBasic and engine monitor:

* A start that succeeds in its eleventh attempt counts as failed (`CanSensor.cpp:53`), and the event
  of a failed start is queued before the listener exists (`:68`), reported nevertheless. A short SET
  stores uninitialised bytes (`:283`), and one without an address writes wherever the stack says;
  the address is not checked (`:337`), so a SET one byte off replaces half of each of two settings.
  A word torn by power loss, its low byte new, is used (`:339`). The reader
  takes the high byte last (`:23`) while the sender puts it first, and the example sends its altitude
  as a float (`main.cpp:118`) to a receiver of integers. A remote request is noted (`main.cpp:113`)
  and never answered. An empty frame is reported as one without data (`:310`); an extended one, and
  one with the node's own identifier, are dropped in silence (`:258`). DATA_LOST (`:304`) cannot occur,
  as the queue is emptied before the next frame is read.
* The engine monitor stores thresholds it never reads. A sensor that fails shows the low end of its
  scale, the ambient temperature -2 degrees, with `success` true and no SENSOR_FAILURE alert. An
  open or shorted oil sender (`OilPressureSensor.h:257` to `:267`) is neither an error nor a sample:
  the mean of earlier passes goes on being sent as a success, and without the warning it may
  deserve. The library's README (line 122) lists both as errors, `oil-pressure-sensor.md` has the
  reading stuck at 0 or 10 bar (lines 453, 454) and "shows ERR rather than false readings" (line
  464); `ShownIsWhatSensorsSaid` says what the code does. A valid reading of exactly -999 degrees,
  the mark of no reading (`TemperatureManager.h:159`), is dropped as a failure. The comment of the
  packer (`EngineData1Packer.h:50`) ends the scales at 762, 306 and 728 degrees, its bytes at 760,
  305 and 715. A sensor that fails in `begin` is not tried again. Two `EEPROM.update` calls store a
  calibration word (`EepromConfigure.h:141`, `OilPressureSensor.h:257`, `TemperatureManager.h:125`),
  and power loss between them leaves a mixed one. With eight thermocouples the loop writes beyond
  its eight readings (`main.cpp:97`); `ReadingsAssumption` excludes it. Requests are served as long
  as any wait, so a flood of them keeps it from sensing.

## Not modelled, and why

* Formatting, the OLED and LCD, PING and STATUS texts and CSV contents are I/O without a property
  about them. The monitor's `warnTable` and `hasAlert`, the values dialled in its clock setups and
  the parsing of SET decide what is drawn, not what happens; its `loadConfig` has the shape of the
  tachometer's, which is modelled. `RotaryControl.poll` repeats in one function what Controls
  models. The flashing of fields is a timer for the display.
* Barometer and the temperature frames of the flight instruments are floating point or straight-line
  arithmetic. `RtcClock` and `lib/clock` read registers of a clock chip.
* The desktop application (C#) relays lines between a serial port and HTTP. The other sketches of
  `ExampleCode` hold earlier copies of the modelled libraries, or one sensor each; the unit test
  in `test` exercises a function that no longer exists. `CanbusMonitor/lib/sdLogger` is a copy
  that no file includes.
* Three conversions without an effect are left out: the store's cast of an identifier to 16 bits
  (a standard identifier has 11); a failing `receiveMessage()` after `messageAvailable()`, which
  leaves the frame to the next look, so a pass that meets one is a pass in which the frame comes
  later; and fractions of a tenth of a degree.
* Third-party Arduino libraries appear as their effects: the MCP2515's modes and buffers, an SD
  open that fails or not, a clock with a date, amplifiers that answer with a state.

## Plan

In order of importance. All four groups are done.

1. RpmSensor, CanStartup, TachConfig, Tachometer; message store and monitor; SdLogger; their proofs.
2. QnhPanel, FlightInstruments and QnhSync with their proofs; the proofs of Tachometer and
   CanbusMonitor.
3. EventQueue, EventFifo, EventManager, Controls; FifoQueue, CommandHandler, CanSensor.
4. EngineMonitor with its sensors and receiver; CanMock.

What would come next: the monitor's alerts and the values of its clock setups, `loadConfig` of
monitor and logger, and two pairs of flight instruments on one bus.
