------------------------------ MODULE RpmMath ------------------------------
(***************************************************************************)
(* The arithmetic at the end of readRpm() in RpmSensor.h.                  *)
(***************************************************************************)
EXTENDS Integers

CONSTANTS CountMod,    \* 2^16, the range of pulseCount and of the result
          MsPerMinute  \* 60000

ASSUME RpmAssumption == CountMod \in Nat \ {0} /\ MsPerMinute \in Nat

\* Defect: the division comes first.
FaultyRpmOrder(n, ppr, ms) ==
  IF n = 0 \/ ms = 0 THEN 0 ELSE (n * (MsPerMinute \div (ppr * ms))) % CountMod

\* The 32-bit quotient is returned as a uint16_t.
Rpm(n, ppr, ms) ==
  IF n = 0 \/ ms = 0 THEN 0 ELSE ((n * MsPerMinute) \div (ppr * ms)) % CountMod
=============================================================================
