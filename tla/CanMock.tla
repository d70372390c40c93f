------------------------------- MODULE CanMock -------------------------------
(***************************************************************************)
(* The CAN mock: a schedule of engine speeds and two triangle waves for    *)
(* the temperatures, each sent at its own interval, in ticks of half a     *)
(* second.  SYSRESET starts it again; CONFIG is only printed.              *)
(***************************************************************************)
EXTENDS Integers, Sequences

CONSTANTS RPM_DURATION,              \* by state, in ticks
          RPM_SEND, TEMP_SEND,       \* in ticks
          Half,                      \* 100: steps from one end of a wave to the other
          MaxLate,                   \* bound: ticks between two passes of loop()
          SettingCells               \* EEPROM cells the tachometer and the engine monitor read settings from

States == {"idle", "cruise", "overspeed"}

\* The memory maps of both nodes keep to the lower half of the EEPROM.
ASSUME MockAssumption ==
  /\ RPM_DURATION \in [States -> Nat \ {0}]
  /\ {RPM_SEND, TEMP_SEND, Half, MaxLate} \subseteq Nat \ {0}
  /\ SettingCells \subseteq 0 .. 511

VARIABLES running,       \* the chip started: canReady
          rpmState,
          stateAge, rpmAge, egtAge, chtAge,   \* ticks since rpmStateMs, lastRpmMs, lastEgtMs, lastChtMs
          egtStep, chtStep,
          egt, cht,      \* the last values sent, those of step 0 before the first
          rpm,           \* the speed sent in this pass, or NotSent
          late           \* ticks since the last pass

mockVars == <<running, rpmState, stateAge, rpmAge, egtAge, chtAge, egtStep, chtStep, egt, cht, rpm, late>>

NotSent == -1

\* Defect: the engine idles a little faster.
FaultyRPM_VALUE == [idle |-> 1280, cruise |-> 1700, overspeed |-> 2700]
RPM_VALUE == [idle |-> 700, cruise |-> 1700, overspeed |-> 2700]
Following == [idle |-> "cruise", cruise |-> "overspeed", overspeed |-> "idle"]

triangleVal(s, low, high) ==
  LET up == IF s <= Half THEN s ELSE 2 * Half - s IN low + (up * (high - low)) \div Half

EgtOf(s) == triangleVal(s, 800, 1800)
ChtOf(s) == triangleVal(s, 700, 1200)

MockInit ==
  /\ running \in BOOLEAN /\ rpmState = "idle"
  /\ stateAge = 0 /\ rpmAge = 0 /\ egtAge = 0 /\ chtAge = 0 /\ egtStep = 0 /\ chtStep = 0
  /\ egt = 800 /\ cht = 700 /\ rpm = NotSent /\ late = 0

\* checkIncoming() with a SYSRESET: setup() again.
Reset ==
  /\ running /\ running' \in BOOLEAN /\ rpmState' = "idle"
  /\ stateAge' = 0 /\ rpmAge' = 0 /\ egtAge' = 0 /\ chtAge' = 0 /\ egtStep' = 0 /\ chtStep' = 0
  /\ egt' = 800 /\ cht' = 700 /\ rpm' = NotSent /\ late' = 0

RpmDue == rpmAge >= RPM_SEND

\* loop(): the state first, then what is due; a frame that is not sent is not repeated.
Pass ==
  /\ running /\ late' = 0
  /\ LET advance == stateAge >= RPM_DURATION[rpmState]
         now     == IF advance THEN Following[rpmState] ELSE rpmState
     IN /\ rpmState' = now
        /\ stateAge' = IF advance THEN 0 ELSE stateAge
        /\ rpm' = IF RpmDue THEN RPM_VALUE[now] ELSE NotSent
  /\ rpmAge' = IF RpmDue THEN 0 ELSE rpmAge
  /\ IF egtAge >= TEMP_SEND
     THEN egtAge' = 0 /\ egtStep' = (egtStep + 1) % (2 * Half) /\ egt' = EgtOf(egtStep')
     ELSE UNCHANGED <<egtAge, egtStep, egt>>
  /\ IF chtAge >= TEMP_SEND
     THEN chtAge' = 0 /\ chtStep' = (chtStep + 1) % (2 * Half) /\ cht' = ChtOf(chtStep')
     ELSE UNCHANGED <<chtAge, chtStep, cht>>
  /\ UNCHANGED running

MockTick ==
  /\ running /\ late < MaxLate /\ late' = late + 1
  /\ stateAge' = stateAge + 1 /\ rpmAge' = rpmAge + 1 /\ egtAge' = egtAge + 1 /\ chtAge' = chtAge + 1
  /\ UNCHANGED <<running, rpmState, egtStep, chtStep, egt, cht, rpm>>

MockNext == Reset \/ Pass \/ MockTick

MockSpec == MockInit /\ [][MockNext]_mockVars

----------------------------------------------------------------------------
\* main.cpp:14 against EepromConfigure.h:16: on a bus with a tachometer or an engine monitor every
\* speed frame is a request to write a zero byte, to the cell the speed names.
MockSparesSettings == rpm # NotSent => rpm % 1024 \notin SettingCells
=============================================================================
