------------------------------ MODULE RpmSensor ------------------------------
(***************************************************************************)
(* The interrupt-driven sensor of RpmSensor.h, at the grain at which the   *)
(* interrupt handler and the main thread really interleave: the edge sets  *)
(* the processor's interrupt flag, the handler runs when interrupts are    *)
(* enabled, and readRpm() copies and clears the counter between            *)
(* noInterrupts() and interrupts().                                        *)
(***************************************************************************)
EXTENDS RpmMath

CONSTANTS PulseConfigs, \* the pulsesPerRev values begin() may be given
          Elapsed,      \* the elapsed times readRpm() may be given
          MaxEdges      \* bound: edges in one behaviour

ASSUME SensorAssumption ==
  /\ MaxEdges \in Nat /\ PulseConfigs \subseteq Nat /\ Elapsed \subseteq Nat

VARIABLES attached,     \* begin() has installed the handler
          pulsesPerRev, \* Internal::pulsesPerRev
          pulseCount,   \* Internal::pulseCount
          enabled,      \* the global interrupt enable bit
          flag,         \* the pin's interrupt flag: one edge awaits its handler
          pc,           \* readRpm(): which statement comes next
          count,        \* its local copy of the counter
          elapsedMs,    \* its argument
          rpm,          \* the last result
          edges,        \* history: edges on the pin
          counted,      \* history: sum of all counts taken by readRpm
          missed,       \* history: edges that found the flag still set
          wrapped       \* history: pulses forgotten when pulseCount overflowed

history == <<edges, counted, missed, wrapped>>
vars == <<attached, pulsesPerRev, pulseCount, enabled, flag, pc, count, elapsedMs, rpm,
          history>>

Init == /\ attached = FALSE /\ pulsesPerRev = 1 /\ pulseCount = 0
        /\ enabled = TRUE /\ flag = FALSE
        /\ pc = "idle" /\ count = 0 /\ elapsedMs = 0 /\ rpm = 0
        /\ edges = 0 /\ counted = 0 /\ missed = 0 /\ wrapped = 0

begin == /\ ~attached /\ attached' = TRUE
         /\ \E p \in PulseConfigs : pulsesPerRev' = IF p = 0 THEN 1 ELSE p
         /\ UNCHANGED <<pulseCount, enabled, flag, pc, count, elapsedMs, rpm, history>>

\* A falling edge.  One more edge before the handler has run leaves no trace.
Edge == /\ attached /\ edges < MaxEdges
        /\ edges' = edges + 1
        /\ flag' = TRUE
        /\ missed' = IF flag THEN missed + 1 ELSE missed
        /\ UNCHANGED <<attached, pulsesPerRev, pulseCount, enabled, pc, count, elapsedMs,
                       rpm, counted, wrapped>>

pulseIsr == /\ flag /\ enabled /\ flag' = FALSE
            /\ pulseCount' = (pulseCount + 1) % CountMod
            /\ wrapped' = IF pulseCount + 1 = CountMod THEN wrapped + CountMod ELSE wrapped
            /\ UNCHANGED <<attached, pulsesPerRev, enabled, pc, count, elapsedMs, rpm,
                           edges, counted, missed>>

\* Defects: the handler is unmasked between the copy and the reset; it stays masked.
FaultyCopyCount ==
  /\ pc = "copy" /\ pc' = "clear" /\ enabled' = TRUE
  /\ count' = pulseCount /\ counted' = counted + pulseCount
  /\ UNCHANGED <<attached, pulsesPerRev, pulseCount, flag, elapsedMs, rpm, edges, missed, wrapped>>
FaultyInterrupts ==
  /\ pc = "enable" /\ pc' = "compute"
  /\ UNCHANGED <<attached, pulsesPerRev, pulseCount, enabled, flag, count, elapsedMs, rpm, history>>

\* readRpm(elapsedMs), one action per statement.
noInterrupts == /\ attached /\ pc = "idle" /\ pc' = "copy" /\ enabled' = FALSE
                /\ elapsedMs' \in Elapsed
                /\ UNCHANGED <<attached, pulsesPerRev, pulseCount, flag, count, rpm, history>>

CopyCount == /\ pc = "copy" /\ pc' = "clear"
             /\ count' = pulseCount /\ counted' = counted + pulseCount
             /\ UNCHANGED <<attached, pulsesPerRev, pulseCount, enabled, flag, elapsedMs,
                            rpm, edges, missed, wrapped>>

ClearCount == /\ pc = "clear" /\ pc' = "enable" /\ pulseCount' = 0
              /\ UNCHANGED <<attached, pulsesPerRev, enabled, flag, count, elapsedMs, rpm,
                             history>>

interrupts == /\ pc = "enable" /\ pc' = "compute" /\ enabled' = TRUE
              /\ UNCHANGED <<attached, pulsesPerRev, pulseCount, flag, count, elapsedMs,
                             rpm, history>>

ReturnRpm == /\ pc = "compute" /\ pc' = "idle"
             /\ rpm' = Rpm(count, pulsesPerRev, elapsedMs)
             /\ UNCHANGED <<attached, pulsesPerRev, pulseCount, enabled, flag, count,
                            elapsedMs, history>>

readRpm == noInterrupts \/ CopyCount \/ ClearCount \/ interrupts \/ ReturnRpm

Next == begin \/ Edge \/ pulseIsr \/ readRpm

\* loop() keeps calling readRpm().  The processor serves a raised flag before the next
\* instruction whenever interrupts are on, so a handler enabled again and again runs.
Spec == Init /\ [][Next]_vars /\ SF_vars(pulseIsr) /\ WF_vars(readRpm)

----------------------------------------------------------------------------
TypeOK == /\ attached \in BOOLEAN /\ pulsesPerRev \in Nat \ {0}
          /\ pulseCount \in 0 .. CountMod - 1 /\ count \in 0 .. CountMod - 1
          /\ enabled \in BOOLEAN /\ flag \in BOOLEAN
          /\ pc \in {"idle", "copy", "clear", "enable", "compute"}
          /\ elapsedMs \in Nat /\ rpm \in Nat
          /\ edges \in Nat /\ counted \in Nat /\ missed \in Nat /\ wrapped \in Nat

\* Pulses in the counter that no reading has claimed yet.
Unread == IF pc = "clear" THEN 0 ELSE pulseCount

\* Every edge is accounted for exactly once - reported, waiting in the counter, waiting
\* for its handler, merged into a flag already up, or part of an overflow - whatever the
\* handler interrupts.
EdgesConserved ==
  edges = counted + Unread + (IF flag THEN 1 ELSE 0) + missed + wrapped

\* The counter is cleared only while the handler cannot run: the pulses cleared are the
\* pulses copied.
MaskedWhileCopying ==
  /\ enabled <=> pc \notin {"copy", "clear", "enable"}
  /\ pc = "clear" => count = pulseCount
  /\ pc = "enable" => pulseCount = 0

\* Every pulse the handler took is eventually part of a reading.
PulsesAreReported == \A n \in 1 .. MaxEdges : edges - missed >= n ~> counted + wrapped >= n

\* readRpm() is an atomic read-and-clear of an atomically incremented counter.
Taken == edges - missed - (IF flag THEN 1 ELSE 0)

Abstract == INSTANCE PulseCounter WITH taken <- Taken, waiting <- Unread, reading <- count

ImplementsPulseCounter == Abstract!PCSpec
=============================================================================
