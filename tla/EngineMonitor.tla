-------------------------------- MODULE EngineMonitor --------------------------------
(* EngineMonitor and NanoCanbusReceiver on one bus: the loop that serves EEPROM requests,   *)
(* senses, packs and sends; the requests of a remote tool; a receiver slower than the bus;  *)
(* and loss of power in any step. A frame carries, as history, the pass it was made of.     *)
EXTENDS EngineDataPacker, OilPressure, TemperatureSensors

CONSTANTS Scenes,        \* what a pass may find: [chip, oil]
          Requests,      \* the frames a remote tool may send
          MaxRequests,   \* bound on their number
          RxBuffers      \* frames a CAN controller holds
ASSUME RequestAssumption ==
  /\ MaxRequests \in Nat /\ RxBuffers \in Nat \ {0}
  /\ Requests \subseteq [id : STRING, len : Nat, addr : Nat, lo : 0..255, hi : 0..255]
  /\ \A f \in Requests : f.id # "ENGINE_DATA_1"   \* nobody else sends the monitor's frame
\* The 14 bits of an amplifier, a quarter of a degree each, as tenths: with any offset a reading in
\* degrees stays within its int16_t.
ChipTemps == -20480 .. 20477
\* loop() has room for eight readings; the oil pressure takes the one after the temperatures.
ASSUME ReadingsAssumption == Len(sensorConfigs) < MAX_SENSORS
\* Every sensor in the frame has its amplifier, every amplifier a place for its offset; a pass
\* finds a state of each and of the INA226.
ASSUME SceneAssumption ==
  /\ \A i \in DOMAIN sensorConfigs : getCalibrationAddress(sensorConfigs[i].id) # 0
  /\ {"AMB", "EGT_1", "CHT_1", "OIL"} \subseteq {sensorConfigs[i].id : i \in DOMAIN sensorConfigs}
  /\ \A scene \in Scenes : /\ scene.oil \in Measurements
                           /\ \A i \in DOMAIN sensorConfigs :
                                scene.chip[sensorConfigs[i].pin] \in [status : Nat, temp : ChipTemps]

VARIABLES pc, canReady, eeprom, task, rx, requested, data, truth,
          confirmed,     \* history: the last confirmed write that nothing has overwritten
          dirty,         \* history: an EEPROM byte was written since the offsets were read
          recvReady, rxRecv, shown, showing
configVars == <<eeprom, task, rx, requested, confirmed, dirty>>
recvVars   == <<recvReady, rxRecv, shown, showing>>
vars == <<oilVars, tempVars, configVars, recvVars, pc, canReady, data, truth>>

CalibrationCells == 337..350
Cell(a)   == a % 1024
WordAt(a) == eeprom[Cell(a)] + 256 * eeprom[Cell(a + 1)]
NoTask    == [step |-> "idle"]
NoWrite   == [addr |-> 0]
NoTruth   == [f \in {} |-> 0]
Nothing   == [id |-> "nothing"]
ClearedData == [value |-> [f \in Fields |-> 0], warning |-> {}]

FieldOf(id) == CASE id = "EGT_1" -> "egt1" [] id = "CHT_1" -> "cht1" [] id = "AMB" -> "ambient"
                 [] id = "OIL" -> "oilTemp" [] id = "PRESSURE_OIL" -> "oilPressure"
                 [] OTHER -> "unknown"

ReceiverBegin == recvReady \in BOOLEAN
Init == /\ OilInit /\ TempInit
        /\ pc = "boot" /\ canReady = FALSE /\ data = ClearedData /\ truth = NoTruth
        /\ eeprom = [c \in CalibrationCells |-> 255] /\ task = NoTask /\ rx = <<>>
        /\ requested = 0 /\ confirmed = NoWrite /\ dirty = FALSE
        /\ ReceiverBegin /\ rxRecv = <<>> /\ shown = Nothing /\ showing = FALSE

\* CanBusMCP2515: begin works or fails for good; a receive buffer is full; a frame goes out or not.
CanBegin == canReady' \in BOOLEAN
messageAvailable == canReady /\ rx # <<>>
\* The receiver's controller takes a frame while one of its buffers is free.
Deliver(f) == rxRecv' = IF recvReady /\ Len(rxRecv) < RxBuffers THEN Append(rxRecv, f) ELSE rxRecv
sendMessage(f, sent) == IF sent THEN canReady /\ Deliver(f) ELSE UNCHANGED rxRecv
-----------------------------------------------------------------------------------------
\* setup(): the thermocouples one by one, the oil pressure, then the bus; the configuration service
\* exists only when the bus works.
SetupSensor(scene) ==
  /\ pc = "boot" /\ initialize(eeprom, scene.chip) /\ dirty' = (dirty /\ configured > 0)
  /\ UNCHANGED <<oilVars, pc, canReady, eeprom, task, rx, requested, confirmed, data, truth, recvVars>>
SetupDone ==
  /\ pc = "boot" /\ configured = Len(sensorConfigs) /\ OilBegin
  /\ CanBegin /\ pc' = "config"
  /\ UNCHANGED <<tempVars, configVars, data, truth, recvVars>>

\* processCanMessages(): while a frame waits, take it and let the service handle it.
Take(f) == /\ pc = "config" /\ messageAvailable /\ task = NoTask
           /\ f = Head(rx) /\ rx' = Tail(rx)
MinLength == [SET_BYTE |-> 3, SET_WORD |-> 4, GET_BYTE |-> 2, GET_WORD |-> 2]
Accepts(f) == f.id \in DOMAIN MinLength /\ f.len >= MinLength[f.id]
LoopVars == <<oilVars, tempVars, pc, canReady, data, truth, requested>>

Ignore == /\ rx # <<>> /\ Take(Head(rx)) /\ ~Accepts(Head(rx))
          /\ UNCHANGED <<LoopVars, eeprom, task, confirmed, dirty, recvVars>>

Write(a, v) == eeprom' = [c \in DOMAIN eeprom |-> IF c = Cell(a) THEN v ELSE eeprom[c]]

\* setByte and the first half of setWord; the second byte is an EEPROM cycle later.
handleSetByte(f) ==
  /\ Take(f) /\ f.id = "SET_BYTE" /\ Accepts(f) /\ Write(f.addr, f.lo)
  /\ task' = [step |-> "confirm", id |-> "BYTE_VALUE", addr |-> f.addr, lo |-> f.lo, hi |-> 0]
  /\ confirmed' = NoWrite /\ dirty' = TRUE /\ UNCHANGED <<LoopVars, recvVars>>

\* Defect: the confirmation is due after the first byte.
FaultyHandleSetWord(f) ==
  /\ Take(f) /\ f.id = "SET_WORD" /\ Accepts(f) /\ Write(f.addr, f.lo)
  /\ task' = [step |-> "confirm", id |-> "WORD_VALUE", addr |-> f.addr, lo |-> f.lo, hi |-> f.hi]
  /\ confirmed' = NoWrite /\ dirty' = TRUE /\ UNCHANGED <<LoopVars, recvVars>>
handleSetWord(f) ==
  /\ Take(f) /\ f.id = "SET_WORD" /\ Accepts(f) /\ Write(f.addr, f.lo)
  /\ task' = [step |-> "high", id |-> "WORD_VALUE", addr |-> f.addr, lo |-> f.lo, hi |-> f.hi]
  /\ confirmed' = NoWrite /\ dirty' = TRUE /\ UNCHANGED <<LoopVars, recvVars>>
WriteHigh == /\ task.step = "high" /\ Write(task.addr + 1, task.hi)
             /\ task' = [task EXCEPT !.step = "confirm"] /\ confirmed' = NoWrite /\ dirty' = TRUE
             /\ UNCHANGED <<LoopVars, rx, recvVars>>

handleGetByte(f) ==
  /\ Take(f) /\ f.id = "GET_BYTE" /\ Accepts(f)
  /\ task' = [step |-> "answer", id |-> "BYTE_VALUE", addr |-> f.addr,
              lo |-> eeprom[Cell(f.addr)], hi |-> 0]
  /\ UNCHANGED <<LoopVars, eeprom, confirmed, dirty, recvVars>>
handleGetWord(f) ==
  /\ Take(f) /\ f.id = "GET_WORD" /\ Accepts(f)
  /\ task' = [step |-> "answer", id |-> "WORD_VALUE", addr |-> f.addr,
              lo |-> eeprom[Cell(f.addr)], hi |-> eeprom[Cell(f.addr + 1)]]
  /\ UNCHANGED <<LoopVars, eeprom, confirmed, dirty, recvVars>>

\* sendByteValue, sendWordValue: a failed transmission is not repeated.
SendReply ==
  /\ task.step \in {"confirm", "answer"} /\ task' = NoTask
  /\ \E sent \in BOOLEAN :
       /\ sendMessage([id |-> task.id, addr |-> task.addr, lo |-> task.lo, hi |-> task.hi], sent)
       /\ confirmed' = IF sent /\ task.step = "confirm"
                       THEN [addr |-> task.addr, word |-> task.id = "WORD_VALUE",
                             lo |-> task.lo, hi |-> task.hi]
                       ELSE confirmed
  /\ UNCHANGED <<LoopVars, rx, eeprom, dirty, recvReady, shown, showing>>

ConfigDone == /\ pc = "config" /\ task = NoTask /\ ~messageAvailable /\ pc' = "sense"
              /\ UNCHANGED <<oilVars, tempVars, canReady, data, truth, configVars, recvVars>>
-----------------------------------------------------------------------------------------
\* What the setter of a field stores of a reading: only the ambient temperature is passed on
\* without its warning.
Setter(f, r) == [value |-> r.value, warning |-> r.warning /\ f # "ambient"]

\* The data of a pass: each successful reading of a known sensor, over what was there before.
Succeeded(all, f) == {i \in DOMAIN all : all[i].success /\ FieldOf(all[i].id) = f}
DataOf(all, before) ==
  LET set(f) == Setter(f, all[CHOOSE i \in Succeeded(all, f) : TRUE])
  IN  [value   |-> [f \in Fields |-> IF Succeeded(all, f) = {} THEN before.value[f] ELSE set(f).value],
       warning |-> {f \in Fields : IF Succeeded(all, f) = {} THEN f \in before.warning
                                   ELSE set(f).warning}]

\* History: how a sensor answered in this pass, whatever the program made of it: "measured",
\* "failed", or, of an oil sender whose circuit is open or shorted, "kept", no sample added.
OilAnswer(m) == IF ~oilInit \/ CircuitFault(m) = "ERROR" THEN "failed"
                ELSE IF CircuitFault(m) = "OK" THEN "measured" ELSE "kept"
ChipAnswer(status, t) == IF status = 0 /\ t # INVALID_TEMPERATURE THEN "measured" ELSE "failed"

MeanOf(samples) == LET n == Len(samples) IN IF n = 0 THEN 0 ELSE Total(samples, 1, n) \div n
TooLow(samples) == Total(samples, 1, Len(samples)) < PRESSURE_WARNING * Len(samples)

\* History: the answer, the tenths it stands for and whether they call for an alarm. Those of the
\* oil pressure are the mean of the samples accepted, those of a temperature are of this pass.
Measured(scene, f) ==
  IF f = "oilPressure"
  THEN [answer |-> OilAnswer(scene.oil), tenths |-> MeanOf(recent'), alarm |-> TooLow(recent')]
  ELSE LET c == CHOOSE k \in {sensorConfigs[i] : i \in DOMAIN sensorConfigs} : FieldOf(k.id) = f
           s == sensors'[findSensor(sensors', c.pin)]
           t == scene.chip[c.pin].temp + s.offset
       IN  [answer |-> ChipAnswer(scene.chip[c.pin].status, t), tenths |-> t,
            alarm  |-> f # "ambient" /\ t > OVER_TEMPERATURE]

AllReadings(temps, oil) ==
  Append(temps, [id |-> "PRESSURE_OIL", value |-> oil.value, warning |-> oil.warning,
                 success |-> oil.success])

\* Defect: clearData is not called, so a field keeps what an earlier pass put there.
FaultySense(scene) ==
  /\ pc = "sense" /\ readAll(scene.chip, MAX_SENSORS) /\ OilRead(scene.oil)
  /\ \E all \in {AllReadings(readings', oilReading')} : data' = DataOf(all, data)
  /\ truth' = [f \in Fields |-> Measured(scene, f)] /\ pc' = "send"
  /\ UNCHANGED <<canReady, configVars, recvVars>>
\* One pass: readAll, the oil pressure, clearData and the setters.
Sense(scene) ==
  /\ pc = "sense" /\ readAll(scene.chip, MAX_SENSORS) /\ OilRead(scene.oil)
  /\ \E all \in {AllReadings(readings', oilReading')} : data' = DataOf(all, ClearedData)
  /\ truth' = [f \in Fields |-> Measured(scene, f)] /\ pc' = "send"
  /\ UNCHANGED <<canReady, configVars, recvVars>>

\* sendFrame(), when the bus was found at start-up; then the pause of a second.
Send == /\ pc = "send" /\ pc' = "config" /\ truth' = NoTruth
        /\ \E sent \in BOOLEAN :
             sendMessage([id |-> "ENGINE_DATA_1", frame |-> pack(data), truth |-> truth], sent)
        /\ UNCHANGED <<oilVars, tempVars, configVars, canReady, data, recvReady, shown, showing>>

\* A remote tool sends a request; every controller on the bus sees it.
Request(f) == /\ requested < MaxRequests /\ requested' = requested + 1
              /\ rx' = IF canReady /\ Len(rx) < RxBuffers THEN Append(rx, f) ELSE rx
              /\ Deliver(f)
              /\ UNCHANGED <<oilVars, tempVars, pc, canReady, eeprom, task, data, truth,
                             confirmed, dirty, recvReady, shown, showing>>

PowerLoss == /\ OilPowerLoss /\ TempPowerLoss /\ pc # "boot" /\ pc' = "boot"
             /\ canReady' = FALSE /\ data' = ClearedData /\ truth' = NoTruth
             /\ task' = NoTask /\ rx' = <<>>
             /\ UNCHANGED <<eeprom, requested, confirmed, dirty, recvVars>>
-----------------------------------------------------------------------------------------
engineVars == <<oilVars, tempVars, configVars, pc, canReady, data, truth>>

\* The receiver decodes ENGINE_DATA_1 into five readings; of other frames it shows the type.
receiverAvailable == recvReady /\ rxRecv # <<>>
decodeEngineData1(f) == [id |-> f.id, readings |-> unpack(f.frame), truth |-> f.truth]
receiveMessage ==
  /\ receiverAvailable /\ ~showing /\ rxRecv' = Tail(rxRecv)
  /\ LET f == Head(rxRecv)
     IN  IF f.id = "ENGINE_DATA_1" THEN shown' = decodeEngineData1(f) /\ showing' = TRUE
                                   ELSE shown' = [id |-> f.id] /\ showing' = FALSE
  /\ UNCHANGED <<engineVars, recvReady>>
\* Half a second on the display for each of the five readings, and no look at the bus meanwhile.
Shown == /\ showing /\ showing' = FALSE
         /\ UNCHANGED <<engineVars, recvReady, rxRecv, shown>>

Handle == \/ Ignore \/ WriteHigh \/ SendReply
          \/ \E f \in Requests : handleSetByte(f) \/ handleSetWord(f) \/ handleGetByte(f)
                                   \/ handleGetWord(f)
Loop == \/ Handle \/ SetupDone \/ ConfigDone \/ Send
        \/ \E scene \in Scenes : SetupSensor(scene) \/ Sense(scene)
Receiver == receiveMessage \/ Shown
Next == Loop \/ PowerLoss \/ Receiver \/ \E f \in Requests : Request(f)

Spec == Init /\ [][Next]_vars
-----------------------------------------------------------------------------------------
\* What the receiver shows is what the sensors said in one pass, never a mix of passes, however many
\* frames were lost. A sensor that measured is shown within the rounding and the step of its byte,
\* with a warning exactly when the measurement calls for one; a sensor that failed, or an amplifier
\* that reads exactly the library's mark of no reading, as a zero without a warning (a cold day, for
\* the ambient temperature). An open or shorted oil sender is the exception the code makes to its own
\* documents (OilPressureSensor.h:257-267): the mean of earlier passes stays on the display, and
\* without a warning even when that mean is too low.
ShownIsWhatSensorsSaid ==
  shown.id = "ENGINE_DATA_1" =>
    \A f \in Fields :
      LET t == shown.truth[f]
          v == shown.readings.value[f]
      IN  /\ (f \in shown.readings.warning) = (t.answer = "measured" /\ t.alarm)
          /\ IF t.answer = "failed" THEN CloseTo(f, v, 0)
             ELSE \E c \in ((t.tenths - 9) \div 10)..((t.tenths + 9) \div 10) : CloseTo(f, v, c)

\* A confirmation on the bus says that the EEPROM holds the value: both bytes of a word are in
\* place when it is sent, and stay so through power cycles until the next request to write.
ConfirmedIsStored ==
  confirmed # NoWrite =>
    /\ Cell(confirmed.addr) \in CalibrationCells => eeprom[Cell(confirmed.addr)] = confirmed.lo
    /\ confirmed.word /\ Cell(confirmed.addr + 1) \in CalibrationCells =>
         eeprom[Cell(confirmed.addr + 1)] = confirmed.hi

\* Each amplifier runs with the offset stored for its own sensor at the last start: the stored one
\* again after the next restart, however a write was interrupted.
OffsetsAreOfBoot ==
  pc # "boot" /\ ~dirty =>
    \A i \in DOMAIN sensorConfigs :
      LET c == sensorConfigs[i]
      IN  \E s \in {sensors[k] : k \in DOMAIN sensors} :
            /\ s.pin = c.pin
            /\ s.instance = Int16(WordAt(getCalibrationAddress(c.id)))
=======================================================================================
