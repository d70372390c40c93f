----------------------------- MODULE Tachometer -----------------------------
(***************************************************************************)
(* The whole TachometerInstrument: setup() as in TachConfig, then loop(),  *)
(* which in each turn handles at most one received frame and, once the     *)
(* measuring interval has passed, reads the sensor, redraws the display    *)
(* and transmits the RPM frame.  The sensor is the atomic counter that     *)
(* RpmSensor is shown to implement.                                        *)
(***************************************************************************)
EXTENDS TachConfig, RpmMath

CONSTANTS Interval,   \* MEASURE_INTERVAL_MS, in ticks of the model's clock
          MaxLate,    \* bound: ticks the loop may be late beyond the interval
          PulseBound  \* bound: pulses between two readings

ASSUME TachAssumption ==
  /\ Interval \in Nat \ {0} /\ MaxLate \in Nat /\ PulseBound \in Nat
  /\ CountMod = ByteMod * ByteMod

VARIABLES waiting,     \* pulseCount of the sensor
          engineOn,    \* the engine turns; once off it stays off
          sinceMs,     \* millis() - lastMeasureMs
          turn,        \* the part of loop() that runs next
          currentRpm, overSpeed,
          display,     \* what the last updateDisplay() drew
          frame        \* the last RPM frame delivered to the bus

sensorVars == <<waiting, engineOn, sinceMs>>
loopVars   == <<turn, currentRpm, overSpeed, display, frame>>
tachVars   == <<vars, sensorVars, loopVars>>

NoFrame == [id |-> 0, b0 |-> 0, b1 |-> 0, flags |-> 0]
Blank   == [rpm |-> 0, banner |-> FALSE]

\* TachDataPacker
TACH_FLAG_OVER_SPEED == 1
TACH_FLAG_ACTIVE     == 2

\* Defect: only the low byte of the speed is sent.
FaultyPack(id, rpm, over) ==
  [id |-> id, b0 |-> Low(rpm), b1 |-> 0,
   flags |-> TACH_FLAG_ACTIVE + (IF over THEN TACH_FLAG_OVER_SPEED ELSE 0)]

pack(id, rpm, over) ==
  [id |-> id, b0 |-> Low(rpm), b1 |-> High(rpm),
   flags |-> TACH_FLAG_ACTIVE + (IF over THEN TACH_FLAG_OVER_SPEED ELSE 0)]

unpackRpm(f)       == WordOf(f.b0, f.b1)
unpackOverSpeed(f) == f.flags % 2 = 1

----------------------------------------------------------------------------
LoopInit == /\ waiting = 0 /\ sinceMs = 0
            /\ turn = "receive" /\ currentRpm = 0 /\ overSpeed = FALSE
            /\ display = Blank /\ frame = NoFrame

TachInit == Init /\ LoopInit /\ engineOn = TRUE

\* setup() is over: the configurator exists, or the start-up failed.
Running == Loaded /\ (configurator \/ boot = "failed")

SetupStep ==
  /\ \/ LoadStep
     \/ Loaded /\ StartupStep /\ UNCHANGED configVars
     \/ CreateConfigurator
  /\ UNCHANGED <<sensorVars, loopVars>>

\* The pulse handler is attached before the CAN start-up.
Pulse == /\ Loaded /\ engineOn /\ waiting < PulseBound
         /\ waiting' = (waiting + 1) % CountMod
         /\ UNCHANGED <<vars, engineOn, sinceMs, loopVars>>

StopEngine == /\ engineOn /\ engineOn' = FALSE
              /\ UNCHANGED <<vars, waiting, sinceMs, loopVars>>

Tick == /\ Loaded /\ sinceMs < Interval + MaxLate
        /\ sinceMs' = sinceMs + 1
        /\ UNCHANGED <<vars, waiting, engineOn, loopVars>>

\* No frame, or one the configurator handles, or one it ignores.
ReceivePart == /\ Running /\ turn = "receive" /\ turn' = "measure"
               /\ HandleFrame \/ UNCHANGED vars
               /\ UNCHANGED <<sensorVars, currentRpm, overSpeed, display, frame>>

\* Defect: the loop never comes to its second half while a request is being served.
FaultyFinishRequest == WriteHigh /\ UNCHANGED <<sensorVars, loopVars>>

FinishRequest == (WriteHigh \/ SendReply) /\ UNCHANGED <<sensorVars, loopVars>>

NotYetDue == /\ Running /\ turn = "measure" /\ task.step = "idle" /\ sinceMs < Interval
             /\ turn' = "receive"
             /\ UNCHANGED <<vars, sensorVars, currentRpm, overSpeed, display, frame>>

\* Defect: an interval without pulses is skipped instead of being reported as zero.
FaultyMeasure ==
  /\ Running /\ turn = "measure" /\ task.step = "idle" /\ sinceMs >= Interval /\ waiting > 0
  /\ sinceMs' = 0 /\ waiting' = 0
  /\ currentRpm' = Rpm(waiting, pulsesPerRev, sinceMs)
  /\ overSpeed' = (currentRpm' > maxRpm)
  /\ display' = [rpm |-> currentRpm', banner |-> overSpeed']
  /\ turn' = "send"
  /\ UNCHANGED <<vars, engineOn, frame>>

Measure ==
  /\ Running /\ turn = "measure" /\ task.step = "idle" /\ sinceMs >= Interval
  /\ sinceMs' = 0 /\ waiting' = 0
  /\ currentRpm' = Rpm(waiting, pulsesPerRev, sinceMs)
  /\ overSpeed' = (currentRpm' > maxRpm)
  /\ display' = [rpm |-> currentRpm', banner |-> overSpeed']
  /\ turn' = "send"
  /\ UNCHANGED <<vars, engineOn, frame>>

\* tachLogger.isReady() is the driver's _initialized; a failed transmission is ignored.
SendRpm ==
  /\ Running /\ turn = "send" /\ turn' = "receive"
  /\ \/ /\ isReady /\ mode = "normal" /\ Transmit("DATA")
        /\ frame' = pack(canId, currentRpm, overSpeed)
     \/ UNCHANGED <<wire, frame>>
  /\ UNCHANGED <<initialized, mode, boot, verified, configVars, sensorVars, currentRpm,
                 overSpeed, display>>

PowerOff == /\ PowerLoss
            /\ waiting' = 0 /\ sinceMs' = 0 /\ turn' = "receive"
            /\ currentRpm' = 0 /\ overSpeed' = FALSE
            /\ display' = Blank /\ frame' = NoFrame
            /\ UNCHANGED engineOn

Processor == SetupStep \/ ReceivePart \/ FinishRequest \/ NotYetDue \/ Measure \/ SendRpm

TachNext == Processor \/ Pulse \/ StopEngine \/ Tick \/ PowerOff

\* The processor executes its program and its clock runs.
TachSpec == TachInit /\ [][TachNext]_tachVars /\ WF_tachVars(Processor) /\ WF_tachVars(Tick)

----------------------------------------------------------------------------
TachTypeOK ==
  /\ TypeOK
  /\ waiting \in 0 .. CountMod - 1 /\ engineOn \in BOOLEAN /\ sinceMs \in Nat
  /\ turn \in {"receive", "measure", "send"}
  /\ currentRpm \in 0 .. CountMod - 1 /\ overSpeed \in BOOLEAN

\* Every RPM frame of a boot carries the identifier the boot loaded and announced, and
\* its decoded warning bit agrees with its decoded speed and the threshold in force.
FrameConsistent ==
  frame # NoFrame =>
    /\ frame.id = canId
    /\ unpackOverSpeed(frame) <=> unpackRpm(frame) > maxRpm

\* The warning is raised exactly when the pulses of the interval exceed the threshold,
\* as long as the rate fits the 16-bit result: neither the order of multiplication and
\* division nor a late reading can raise or hide it.
OverSpeedExact ==
  [][turn = "measure" /\ turn' = "send" /\
       waiting * MsPerMinute < CountMod * pulsesPerRev * sinceMs
     => /\ overSpeed' <=> waiting * MsPerMinute >= (maxRpm + 1) * pulsesPerRev * sinceMs
        /\ display'.banner = overSpeed']_tachVars

\* RPM data reaches the bus only from a node that passed its loopback test.
DataOnlyWhenTested == "DATA" \in wire => verified

\* A stopped engine reads zero in the end and a warning does not outlive it.
StoppedEngineReadsZero == ~engineOn ~> currentRpm = 0 /\ ~overSpeed /\ waiting = 0

\* Configuration traffic cannot starve the measurement: a running instrument always
\* gets to its next RPM frame.
KeepsMeasuring == Running ~> turn = "send" \/ ~Loaded
=============================================================================
