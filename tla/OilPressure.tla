-------------------------------- MODULE OilPressure --------------------------------
(* The oil pressure sensor of EngineMonitor: a VDO sender read through an INA226 current    *)
(* monitor, a moving average over the last FILTER_SAMPLES pressures, and the reading the    *)
(* manager hands to the loop. Pressures are centibar, currents mA, voltages V.              *)
EXTENDS Integers, Sequences

CONSTANTS FILTER_SAMPLES,   \* 8 in the code
          Measurements      \* what the INA226 may answer
ASSUME FilterAssumption == FILTER_SAMPLES \in Nat \ {0}
ASSUME MeasurementAssumption ==
  Measurements \subseteq [fault : {"none", "overflow", "nan"}, current : Nat, voltage : Nat]

VARIABLES oilInit,        \* Internal::initialized of sensor and manager
          oilStatus, average, buffer, bufferIndex, bufferFilled,
          oilReading,     \* the SensorReading of the last read
          recent          \* history: the last FILTER_SAMPLES pressures accepted, oldest first
oilVars == <<oilInit, oilStatus, average, buffer, bufferIndex, bufferFilled, oilReading, recent>>

CURRENT_MIN_VALID == 30
CURRENT_MAX_VALID == 120
PRESSURE_WARNING  == 150
PRESSURE_CRITICAL == 80
PRESSURE_MAX      == 1000
Statuses == {"OK", "WARNING", "CRITICAL", "ERROR", "NOT_INIT", "OPEN", "SHORT"}
Slots    == 0..(FILTER_SAMPLES - 1)
NoReading == [value |-> 0, status |-> "OK", warning |-> FALSE, success |-> FALSE]
NotInit   == [value |-> 0, status |-> "NOT_INIT", warning |-> FALSE, success |-> FALSE]

OilClear(status) ==
  /\ oilStatus' = status /\ average' = [sum |-> 0, n |-> 1]
  /\ buffer' = [i \in Slots |-> 0] /\ bufferIndex' = 0 /\ bufferFilled' = FALSE
  /\ oilReading' = NoReading /\ recent' = <<>>

OilInit == /\ oilInit = FALSE /\ oilStatus = "NOT_INIT" /\ average = [sum |-> 0, n |-> 1]
           /\ buffer = [i \in Slots |-> 0] /\ bufferIndex = 0 /\ bufferFilled = FALSE
           /\ oilReading = NoReading /\ recent = <<>>

\* begin: the INA226 answers and initialises, or the sensor stays unusable until a restart.
OilBegin == \E ok \in BOOLEAN : oilInit' = ok /\ OilClear(IF ok THEN "OK" ELSE "ERROR")

\* Ohm's law in tenths of an ohm, the sender clamped to 10..184 ohm and mapped to 0..10 bar.
currentToPressure(current, voltage) ==
  LET sensor == (10000 * voltage) \div current - 1001
      r == IF sensor < 100 THEN 100 ELSE IF sensor > 1840 THEN 1840 ELSE sensor
  IN  ((r - 100) * PRESSURE_MAX) \div 1740

CircuitFault(m) ==
  IF m.fault # "none" THEN "ERROR"
  ELSE IF m.current < CURRENT_MIN_VALID THEN "OPEN"
  ELSE IF m.current > CURRENT_MAX_VALID THEN "SHORT" ELSE "OK"

\* The sum of n values from the place first on, added one by one.
Total(f, first, n) ==
  LET sum[k \in 0..n] == IF k = 0 THEN 0 ELSE sum[k - 1] + f[first + k - 1]
  IN  sum[n]

\* The average of the slots in use after a push, as a sum and a count.
RingSum(ring, n) == Total(ring, 0, n)

StatusOf(avg) == IF avg.sum < PRESSURE_CRITICAL * avg.n THEN "CRITICAL"
                 ELSE IF avg.sum < PRESSURE_WARNING * avg.n THEN "WARNING" ELSE "OK"

\* Defect: the average is taken over the whole buffer before it has been filled.
FaultyApplyFilter(p) ==
  /\ buffer' = [buffer EXCEPT ![bufferIndex] = p]
  /\ bufferIndex' = (bufferIndex + 1) % FILTER_SAMPLES
  /\ bufferFilled' = (bufferFilled \/ bufferIndex' = 0)
  /\ average' = [sum |-> RingSum(buffer', FILTER_SAMPLES), n |-> FILTER_SAMPLES]
applyFilter(p) ==
  /\ buffer' = [buffer EXCEPT ![bufferIndex] = p]
  /\ bufferIndex' = (bufferIndex + 1) % FILTER_SAMPLES
  /\ bufferFilled' = (bufferFilled \/ bufferIndex' = 0)
  /\ LET n == IF bufferFilled' THEN FILTER_SAMPLES ELSE bufferIndex'
     IN  average' = [sum |-> RingSum(buffer', n), n |-> n]

Remember(p) == recent' = IF Len(recent) < FILTER_SAMPLES THEN Append(recent, p)
                         ELSE Append(Tail(recent), p)

isUnderPressure(s) == s \in {"WARNING", "CRITICAL"}
hasError(s)        == s \in {"ERROR", "NOT_INIT"}
getAveragePressureX10(s, avg) ==
  IF hasError(s) THEN 0
  ELSE LET x == avg.sum \div (10 * avg.n) IN IF x > 127 THEN 127 ELSE x

Populate(s, avg) ==
  oilReading' = [value |-> getAveragePressureX10(s, avg), status |-> s,
                 warning |-> isUnderPressure(s), success |-> ~hasError(s)]

\* The three ways a read of the manager goes.
ReadUninitialised == /\ ~oilInit
                     /\ oilReading' = NotInit
                     /\ UNCHANGED <<oilInit, oilStatus, average, buffer, bufferIndex,
                                    bufferFilled, recent>>
ReadFault(m) == /\ oilInit /\ CircuitFault(m) # "OK"
                /\ oilStatus' = CircuitFault(m)
                /\ Populate(oilStatus', average)
                /\ UNCHANGED <<oilInit, average, buffer, bufferIndex, bufferFilled, recent>>
ReadPressure(m) == /\ oilInit /\ CircuitFault(m) = "OK"
                   /\ LET p == currentToPressure(m.current, m.voltage)
                      IN  applyFilter(p) /\ Remember(p)
                   /\ oilStatus' = StatusOf(average')
                   /\ Populate(oilStatus', average')
                   /\ UNCHANGED oilInit
OilRead(m) == ReadUninitialised \/ ReadFault(m) \/ ReadPressure(m)

\* A power cycle clears the RAM.
OilPowerLoss == oilInit' = FALSE /\ OilClear("NOT_INIT")

OilNext == OilBegin \/ OilPowerLoss \/ \E m \in Measurements : OilRead(m)
OilSpec == OilInit /\ [][OilNext]_oilVars
-----------------------------------------------------------------------------------------
\* The slots in use.
InUse == IF bufferFilled THEN FILTER_SAMPLES ELSE bufferIndex

\* OilPressureSensor::applyFilter keeps in its ring exactly the last accepted pressures: the slot k
\* places behind the index holds the k-th latest one, before the ring has wrapped and after.
RingHoldsRecent ==
  /\ Len(recent) = InUse
  /\ \A k \in 1..Len(recent) : buffer[(bufferIndex - k) % FILTER_SAMPLES]
                                 = recent[Len(recent) + 1 - k]

\* The average the status and the frame are taken from is the mean of the pressures accepted
\* since the start or, of those, the last FILTER_SAMPLES: no slot that was never written and no
\* slot that was overwritten is in it.
AverageIsOfSamples ==
  recent # <<>> => average = [sum |-> Total(recent, 1, Len(recent)), n |-> Len(recent)]

\* The warning handed to the frame is about the samples themselves: when all of them are low the
\* reading warns, and when it warns at least one of them is low, with no pass of delay.
WarningIsOfSamples ==
  oilReading.status \in {"OK", "WARNING", "CRITICAL"} /\ oilReading # NoReading =>
    /\ (\A k \in DOMAIN recent : recent[k] < PRESSURE_WARNING) => oilReading.warning
    /\ oilReading.warning => \E k \in DOMAIN recent : recent[k] < PRESSURE_WARNING

\* OilPressureSensor.h:88: before and after the ring has wrapped, and after a restart, ring, average
\* and warning are those of the pressures accepted.
FilterFollowsSamples == RingHoldsRecent /\ AverageIsOfSamples /\ WarningIsOfSamples
=========================================================================================
