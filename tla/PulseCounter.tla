---------------------------- MODULE PulseCounter ----------------------------
(***************************************************************************)
(* What the RPM sensor promises its caller: a counter of CountMod values,  *)
(* taking pulses one at a time, and a reading that returns the pulses taken *)
(* since the reading before it, in one indivisible step.                   *)
(***************************************************************************)
EXTENDS Naturals

CONSTANT CountMod

VARIABLES taken,   \* pulses taken since the start
          waiting, \* pulses taken and not yet reported
          reading  \* the pulses the last reading reported

PCInit == taken = 0 /\ waiting = 0 /\ reading = 0

TakePulse == /\ taken' = taken + 1
             /\ waiting' = (waiting + 1) % CountMod /\ UNCHANGED reading

Read == reading' = waiting /\ waiting' = 0 /\ UNCHANGED taken

PCSpec == PCInit /\ [][TakePulse \/ Read]_<<taken, waiting, reading>>
=============================================================================
