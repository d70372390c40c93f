----------------------------- MODULE TachConfig -----------------------------
(***************************************************************************)
(* Configuration of a TachometerInstrument: the EEPROM image, loadConfig() *)
(* at boot, the CAN start-up and the EepromConfigure protocol with which a *)
(* host reads and writes the EEPROM over the bus.  Power may be lost       *)
(* between any two EEPROM byte writes.                                     *)
(***************************************************************************)
EXTENDS CanStartup, Integers

CONSTANTS ByteMod,     \* 256
          EepromSize,  \* 1024; the hardware ignores the higher address bits
          Base,        \* 0x100, address of the magic byte
          Magic,       \* 0xAC
          Erased,      \* 0xFF, the content of a byte never written
          MaxPulses, MaxRpmLimit, MaxCanId,  \* 10, 9999, 0x7FF
          DefaultPulses, DefaultMaxRpm, DefaultCanId,
          Frames,      \* the configuration frames hosts may send
          Images       \* the EEPROM contents a new board may come with

Byte == 0 .. ByteMod - 1

PULSES  == Base + 1
MAX_RPM == Base + 2
CAN_ID  == Base + 4

Cells == 0 .. EepromSize - 1

Kinds == {"SET_BYTE", "SET_WORD", "GET_BYTE", "GET_WORD"}

FrameType == [kind : Kinds, len : 0 .. 8, addr : Nat, lo : Byte, hi : Byte]

ASSUME ConfigAssumption ==
  /\ ByteMod \in Nat /\ Base \in Nat /\ EepromSize \in Nat
  /\ Base + 6 <= EepromSize
  /\ Magic \in Byte /\ Erased \in Byte
  /\ MaxPulses \in Nat /\ MaxRpmLimit \in Nat /\ MaxCanId \in Nat
  /\ DefaultPulses \in Byte /\ DefaultPulses \in 1 .. MaxPulses
  /\ DefaultMaxRpm \in 1 .. MaxRpmLimit /\ DefaultMaxRpm < ByteMod * ByteMod
  /\ DefaultCanId \in 1 .. MaxCanId /\ DefaultCanId < ByteMod * ByteMod
  /\ Frames \subseteq FrameType
  /\ Images \subseteq [Cells -> Byte]

\* An erased byte is out of every range loadConfig() accepts, alone or as the high
\* byte of a word.
ASSUME ErasedAssumption ==
  /\ Erased # Magic /\ Erased > MaxPulses
  /\ ByteMod * Erased > MaxRpmLimit /\ ByteMod * Erased > MaxCanId

VARIABLES eeprom,       \* [Cells -> Byte]
          load,         \* progress of loadConfig(): see LoadSteps
          pulsesPerRev, maxRpm, canId,   \* the globals of main.cpp
          configurator, \* eepromConfig # nullptr
          task,         \* the request EepromConfigure is working on
          reply,        \* the last response it sent, until the next request
          hostWrote,    \* history: a host has written to this EEPROM
          blank         \* history: the EEPROM was erased when first powered

configVars == <<eeprom, load, pulsesPerRev, maxRpm, canId, configurator, task, reply,
                hostWrote, blank>>
vars == <<canVars, configVars>>

\* 0: test the magic byte; 1..6: write default byte 1..6; 7: read; 8: loaded.
LoadSteps == 0 .. 8
Loaded    == load = 8

Low(w)  == w % ByteMod
High(w) == w \div ByteMod
WordOf(lo, hi) == lo + ByteMod * hi

\* EEPROM.read/update of an address beyond the device wraps around.
Cell(a)   == a % EepromSize
WordAt(a) == WordOf(eeprom[Cell(a)], eeprom[Cell(a + 1)])

DefaultImage ==
  [i \in 0 .. 5 |-> CASE i = 0 -> Magic               [] i = 1 -> DefaultPulses
                      [] i = 2 -> Low(DefaultMaxRpm)  [] i = 3 -> High(DefaultMaxRpm)
                      [] i = 4 -> Low(DefaultCanId)   [] i = 5 -> High(DefaultCanId)]

NoTask  == [step |-> "idle", addr |-> 0, lo |-> 0, hi |-> 0]
NoReply == [kind |-> "none", addr |-> 0, lo |-> 0, hi |-> 0]

----------------------------------------------------------------------------
RamInit == /\ load = 0 /\ pulsesPerRev = 0 /\ maxRpm = 0 /\ canId = 0
           /\ configurator = FALSE /\ task = NoTask /\ reply = NoReply

ConfigInit == /\ eeprom \in Images /\ RamInit
              /\ hostWrote = FALSE /\ blank = (eeprom = [c \in Cells |-> Erased])

Init == CanInit /\ ConfigInit

----------------------------------------------------------------------------
\* loadConfig().  The magic byte is the first of the six to be written.
TestMagic ==
  /\ load = 0
  /\ load' = IF eeprom[Base] = Magic THEN 7 ELSE 1
  /\ UNCHANGED <<eeprom, pulsesPerRev, maxRpm, canId, configurator, task, reply,
                 hostWrote, blank>>

WriteDefault ==
  /\ load \in 1 .. 6
  /\ eeprom' = [eeprom EXCEPT ![Base + load - 1] = DefaultImage[load - 1]]
  /\ load' = load + 1
  /\ UNCHANGED <<pulsesPerRev, maxRpm, canId, configurator, task, reply, hostWrote, blank>>

\* Defects: the upper limit is forgotten; a value beyond it is clamped.
FaultySanitisedOpen(v, limit, default) == IF v = 0 THEN default ELSE v
FaultySanitisedClamp(v, limit, default) == IF v = 0 THEN default ELSE IF v > limit THEN limit ELSE v

\* A value out of range is replaced in RAM only; the EEPROM keeps it.
Sanitised(v, limit, default) == IF v = 0 \/ v > limit THEN default ELSE v

ReadConfig ==
  /\ load = 7 /\ load' = 8
  /\ pulsesPerRev' = Sanitised(eeprom[PULSES], MaxPulses, DefaultPulses)
  /\ maxRpm' = Sanitised(WordAt(MAX_RPM), MaxRpmLimit, DefaultMaxRpm)
  /\ canId' = Sanitised(WordAt(CAN_ID), MaxCanId, DefaultCanId)
  /\ UNCHANGED <<eeprom, configurator, task, reply, hostWrote, blank>>

\* The tail of setup(): the configuration service exists only if the start-up succeeded.
CreateConfigurator ==
  /\ boot = "ok" /\ ~configurator /\ configurator' = TRUE
  /\ UNCHANGED <<canVars, eeprom, load, pulsesPerRev, maxRpm, canId, task, reply,
                 hostWrote, blank>>

----------------------------------------------------------------------------
\* loop(): a frame has arrived; processMessage() dispatches on the identifier.
Accepts(f, minLength) == /\ isReady /\ configurator /\ task.step = "idle"
                         /\ f.len >= minLength

SetByte(f) ==
  /\ f.kind = "SET_BYTE" /\ Accepts(f, 3)
  /\ eeprom' = [eeprom EXCEPT ![Cell(f.addr)] = f.lo]
  /\ task' = [step |-> "replyByte", addr |-> f.addr, lo |-> f.lo, hi |-> 0]
  /\ hostWrote' = TRUE /\ reply' = NoReply
  /\ UNCHANGED <<canVars, load, pulsesPerRev, maxRpm, canId, configurator, blank>>

\* Defect: the value is confirmed after the first byte.
FaultySetWord(f) ==
  /\ f.kind = "SET_WORD" /\ Accepts(f, 4)
  /\ eeprom' = [eeprom EXCEPT ![Cell(f.addr)] = f.lo]
  /\ task' = [step |-> "replyWord", addr |-> f.addr, lo |-> f.lo, hi |-> f.hi]
  /\ hostWrote' = TRUE /\ reply' = NoReply
  /\ UNCHANGED <<canVars, load, pulsesPerRev, maxRpm, canId, configurator, blank>>

\* setWord() updates the low byte first; WriteHigh is the second EEPROM.update.
SetWord(f) ==
  /\ f.kind = "SET_WORD" /\ Accepts(f, 4)
  /\ eeprom' = [eeprom EXCEPT ![Cell(f.addr)] = f.lo]
  /\ task' = [step |-> "high", addr |-> f.addr, lo |-> f.lo, hi |-> f.hi]
  /\ hostWrote' = TRUE /\ reply' = NoReply
  /\ UNCHANGED <<canVars, load, pulsesPerRev, maxRpm, canId, configurator, blank>>

WriteHigh ==
  /\ task.step = "high"
  /\ eeprom' = [eeprom EXCEPT ![Cell(task.addr + 1)] = task.hi]
  /\ task' = [task EXCEPT !.step = "replyWord"]
  /\ UNCHANGED <<canVars, load, pulsesPerRev, maxRpm, canId, configurator, reply,
                 hostWrote, blank>>

GetByte(f) ==
  /\ f.kind = "GET_BYTE" /\ Accepts(f, 2)
  /\ task' = [step |-> "replyByte", addr |-> f.addr, lo |-> eeprom[Cell(f.addr)], hi |-> 0]
  /\ reply' = NoReply
  /\ UNCHANGED <<canVars, eeprom, load, pulsesPerRev, maxRpm, canId, configurator,
                 hostWrote, blank>>

GetWord(f) ==
  /\ f.kind = "GET_WORD" /\ Accepts(f, 2)
  /\ task' = [step |-> "replyWord", addr |-> f.addr,
              lo |-> eeprom[Cell(f.addr)], hi |-> eeprom[Cell(f.addr + 1)]]
  /\ reply' = NoReply
  /\ UNCHANGED <<canVars, eeprom, load, pulsesPerRev, maxRpm, canId, configurator,
                 hostWrote, blank>>

\* sendByteValue()/sendWordValue(); the result of the transmission is not acted on.
SendReply ==
  /\ task.step \in {"replyByte", "replyWord"}
  /\ \/ /\ Transmit("DATA")
        /\ reply' = [kind |-> IF task.step = "replyByte" THEN "BYTE_VALUE" ELSE "WORD_VALUE",
                     addr |-> task.addr, lo |-> task.lo, hi |-> task.hi]
     \/ UNCHANGED <<wire, reply>>
  /\ task' = NoTask
  /\ UNCHANGED <<initialized, mode, boot, verified, eeprom, load, pulsesPerRev, maxRpm,
                 canId, configurator, hostWrote, blank>>

PowerLoss ==
  /\ CanReset
  /\ load' = 0 /\ pulsesPerRev' = 0 /\ maxRpm' = 0 /\ canId' = 0
  /\ configurator' = FALSE /\ task' = NoTask /\ reply' = NoReply
  /\ UNCHANGED <<eeprom, hostWrote, blank>>

----------------------------------------------------------------------------
LoadStep == (TestMagic \/ WriteDefault \/ ReadConfig) /\ UNCHANGED canVars

HandleFrame == \E f \in Frames : SetByte(f) \/ SetWord(f) \/ GetByte(f) \/ GetWord(f)

Next == \/ LoadStep
        \/ Loaded /\ StartupStep /\ UNCHANGED configVars
        \/ CreateConfigurator
        \/ HandleFrame \/ WriteHigh \/ SendReply
        \/ PowerLoss

Spec == Init /\ [][Next]_vars

----------------------------------------------------------------------------
TaskType  == [step : {"idle", "high", "replyByte", "replyWord"}, addr : Nat,
              lo : Byte, hi : Byte]
ReplyType == [kind : {"none", "BYTE_VALUE", "WORD_VALUE"}, addr : Nat, lo : Byte, hi : Byte]

TypeOK == /\ CanTypeOK
          /\ eeprom \in [Cells -> Byte] /\ load \in LoadSteps
          /\ pulsesPerRev \in Nat /\ maxRpm \in Nat /\ canId \in Nat
          /\ configurator \in BOOLEAN /\ task \in TaskType /\ reply \in ReplyType
          /\ hostWrote \in BOOLEAN /\ blank \in BOOLEAN

\* Whatever the EEPROM holds - garbage, a torn first boot, values a host wrote - the
\* tachometer runs with a pulse divisor of at least one (readRpm divides by it), a
\* threshold in range and an identifier that fits a standard frame.
RunningConfigValid ==
  Loaded => /\ pulsesPerRev \in 1 .. MaxPulses
            /\ maxRpm \in 1 .. MaxRpmLimit
            /\ canId \in 1 .. MaxCanId

\* A board that came erased and that no host wrote to runs with exactly the defaults,
\* however often power failed in the middle of writing them.
DefaultsSurvivePowerLoss ==
  blank /\ ~hostWrote /\ Loaded =>
    /\ pulsesPerRev = DefaultPulses /\ maxRpm = DefaultMaxRpm /\ canId = DefaultCanId

\* A response on the bus states what the EEPROM really holds: both bytes of a word are
\* written before WORD_VALUE confirms them.
ReplyTellsTruth ==
  /\ reply.kind # "none" => eeprom[Cell(reply.addr)] = reply.lo
  /\ reply.kind = "WORD_VALUE" => eeprom[Cell(reply.addr + 1)] = reply.hi
=============================================================================
