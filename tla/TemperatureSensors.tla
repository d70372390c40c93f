----------------------------- MODULE TemperatureSensors -----------------------------
(* The thermocouples of EngineMonitor: the table of configured MAX31855 amplifiers and the  *)
(* manager that configures them from EEPROM and reads them all. Temperatures are tenths of  *)
(* a degree, as the calibration words are.                                                   *)
EXTENDS Integers, Sequences

CONSTANTS MAX_SENSORS,     \* 8 in the code, the size of the table
          sensorConfigs    \* the six sensors of the manager, [id, pin]

ASSUME TableAssumption ==
  /\ MAX_SENSORS \in Nat \ {0} /\ sensorConfigs \in Seq([id : STRING, pin : Nat])
  /\ \A i, j \in DOMAIN sensorConfigs :
       i # j => sensorConfigs[i].id # sensorConfigs[j].id /\ sensorConfigs[i].pin # sensorConfigs[j].pin

VARIABLES sensors,         \* Internal::sensors, the used part of the table
          configured,      \* how many of sensorConfigs initialize has gone through
          readings         \* the SensorReadings of the last readAll
tempVars == <<sensors, configured, readings>>

OVER_TEMPERATURE    == 1000    \* the default threshold of begin: 100 degrees for every sensor
INVALID_TEMPERATURE == -9990   \* the library's mark of no reading: -999 degrees

\* Where TemperatureManager looks for the calibration offset of a sensor.
getCalibrationAddress(id) ==
  CASE id = "AMB"   -> 337 [] id = "EGT_1" -> 339 [] id = "CHT_1" -> 341 [] id = "CHT_2" -> 343
    [] id = "CHT_3" -> 345 [] id = "CHT_4" -> 347 [] id = "OIL"   -> 349 [] OTHER -> 0

Int16(w) == IF w >= 32768 THEN w - 65536 ELSE w
\* Defect: the word is taken as unsigned.
FaultyReadOffset(eeprom, id) ==
  LET a == getCalibrationAddress(id) IN IF a = 0 THEN 0 ELSE eeprom[a] + 256 * eeprom[a + 1]
readOffsetFromEeprom(eeprom, id) ==
  LET a == getCalibrationAddress(id)
  IN  IF a = 0 THEN 0 ELSE Int16(eeprom[a] + 256 * eeprom[a + 1])

\* The place of a pin in the table, 0 when it has none.
findSensor(table, pin) ==
  IF \E i \in DOMAIN table : table[i].pin = pin
  THEN CHOOSE i \in DOMAIN table : table[i].pin = pin /\ \A j \in 1..(i - 1) : table[j].pin # pin
  ELSE 0

\* A known pin gets a new offset which its amplifier never learns; a full table refuses.
begin(table, pin, offset, status) ==
  LET i == findSensor(table, pin)
  IN  IF i # 0 THEN [table EXCEPT ![i].offset = offset]
      ELSE IF Len(table) >= MAX_SENSORS THEN table
      ELSE Append(table, [pin |-> pin, offset |-> offset, instance |-> offset,
                          overTempWarning |-> OVER_TEMPERATURE, status |-> status,
                          lastValue |-> 0])

TempInit == sensors = <<>> /\ configured = 0 /\ readings = <<>>

\* One turn of TemperatureManager::initialize: begin with the offset read from the EEPROM.
initialize(eeprom, chip) ==
  /\ configured < Len(sensorConfigs) /\ configured' = configured + 1
  /\ LET c == sensorConfigs[configured + 1]
     IN  sensors' = begin(sensors, c.pin, readOffsetFromEeprom(eeprom, c.id), chip[c.pin].status)
  /\ UNCHANGED readings

Round(t) == IF t >= 0 THEN (t + 5) \div 10 ELSE -((5 - t) \div 10)

\* What one amplifier leaves in the table when it is read.
readTemperature(s, chip) == [s EXCEPT !.status = chip[s.pin].status,
                                      !.lastValue = chip[s.pin].temp + s.instance]
hasFault(s)     == s.status # 0
isOverheated(s) == s.lastValue > s.overTempWarning

\* The reading of configuration c, s being what its amplifier left in the table.
ReadingOf(c, s) == [id |-> c.id, value |-> Round(s.lastValue), warning |-> isOverheated(s),
                    success |-> ~hasFault(s) /\ s.lastValue # INVALID_TEMPERATURE]

\* TemperatureManager::readAll, one reading per configured sensor as far as the array goes.
readAll(chip, maxReadings) ==
  /\ sensors' = [i \in DOMAIN sensors |-> readTemperature(sensors[i], chip)]
  /\ readings' = [i \in {k \in DOMAIN sensorConfigs : k <= maxReadings} |->
       ReadingOf(sensorConfigs[i], sensors'[findSensor(sensors', sensorConfigs[i].pin)])]
  /\ UNCHANGED configured

TempPowerLoss == sensors' = <<>> /\ configured' = 0 /\ readings' = <<>>
=====================================================================================
