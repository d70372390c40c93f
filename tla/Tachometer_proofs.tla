-------------------------- MODULE Tachometer_proofs --------------------------
(***************************************************************************)
(* For every byte width, EEPROM size, set of frames and initial content of *)
(* the EEPROM, and for every interval, counter width, rate of pulses and   *)
(* delay: the safety properties of the tachometer.  The first part is      *)
(* about TachConfig: start-up, loading and the configuration service.      *)
(* The second is about the whole node: every step but the transmission of  *)
(* the RPM frame is a step of TachConfig, so its invariants carry over;    *)
(* the frame agrees with the identifier and the threshold because the      *)
(* settings of a boot never change.                                        *)
(***************************************************************************)
EXTENDS Tachometer, TLAPS

\* The start-up sequence: which facts each phase may rely on.
CanInv ==
  /\ boot \in {"off", "begin"} => ~initialized /\ ~verified
  /\ boot \in {"send", "verify", "switch"} => initialized /\ mode = "loopback"
  /\ boot \in {"announce", "reinit"} => initialized /\ mode = "normal"
  /\ boot \in {"switch", "announce", "reinit", "ok"} => verified
  /\ boot = "reinit" => Reinit
  /\ OperationalMeansTested
  /\ ~verified => wire = {} /\ ~(initialized /\ mode = "normal")
  /\ "TEST" \notin wire

\* Loading comes before the start-up, the service after it; a request in progress has
\* the EEPROM to itself.
OrderInv ==
  /\ ~Loaded => boot = "off" /\ ~configurator /\ reply = NoReply
  /\ configurator => boot = "ok"
  /\ task.step # "idle" => configurator /\ reply = NoReply
  /\ task.step = "high" => hostWrote

\* What a request has written, or read, so far is in the EEPROM.
TaskInv ==
  /\ task.step # "idle" => eeprom[Cell(task.addr)] = task.lo
  /\ task.step = "replyWord" => eeprom[Cell(task.addr + 1)] = task.hi

\* On a board that came erased, default bytes are written low byte first, and each byte
\* is still erased or has its default.
FirstBootInv ==
  blank /\ ~hostWrote =>
    /\ \A i \in 1 .. 5 : eeprom[Base + i] \in {Erased, DefaultImage[i]}
    /\ load \in 1 .. 6 => \A i \in 0 .. load - 2 : eeprom[Base + i] = DefaultImage[i]
    /\ eeprom[Base + 3] # Erased => eeprom[Base + 2] = DefaultImage[2]
    /\ eeprom[Base + 5] # Erased => eeprom[Base + 4] = DefaultImage[4]

----------------------------------------------------------------------------
(***************************************************************************)
(* Arithmetic of bytes, words and addresses.                               *)
(***************************************************************************)
LEMMA ByteFacts == ByteMod \in Nat /\ ByteMod > 0 /\ 0 \in Byte /\ Byte \subseteq Nat
  BY ConfigAssumption DEF ConfigAssumption, Byte

LEMMA CellRange == ASSUME NEW a \in Nat PROVE Cell(a) \in Cells
  BY ConfigAssumption DEF ConfigAssumption, Cell, Cells

\* The two bytes of a word never share a cell.
LEMMA NextCell == ASSUME NEW a \in Nat PROVE Cell(a + 1) # Cell(a)
<1> DEFINE n == EepromSize
<1>1. n \in Nat /\ n >= 6
  BY ConfigAssumption DEF ConfigAssumption
<1>2. a = n * (a \div n) + (a % n) /\ a \div n \in Nat
  BY <1>1
<1>3. a + 1 = n * ((a + 1) \div n) + ((a + 1) % n) /\ (a + 1) \div n \in Nat
  BY <1>1
<1>4. ASSUME NEW q \in Int, n * q = 1 PROVE FALSE
  BY <1>1, <1>4
<1>5. SUFFICES ASSUME (a + 1) % n = a % n PROVE FALSE
  BY DEF Cell
<1>6. n * (((a + 1) \div n) - (a \div n)) = 1
  BY <1>1, <1>2, <1>3, <1>5
<1>7. QED
  BY <1>2, <1>3, <1>4, <1>6

\* The addresses of the settings are cells of their own.
LEMMA SettingCells ==
  ASSUME NEW i \in 0 .. 5
  PROVE  Base + i \in Nat /\ Base + i \in Cells /\ Cell(Base + i) = Base + i
  BY ConfigAssumption DEF ConfigAssumption, Cell, Cells

LEMMA WordSplit ==
  ASSUME NEW w \in Nat, w < ByteMod * ByteMod
  PROVE  Low(w) \in Byte /\ High(w) \in Byte /\ WordOf(Low(w), High(w)) = w
<1> DEFINE h == w \div ByteMod
<1>1. w = ByteMod * h + (w % ByteMod) /\ h \in Nat /\ w % ByteMod \in 0 .. ByteMod - 1
  BY ByteFacts
<1>2. h < ByteMod
  <2>1. SUFFICES ASSUME h >= ByteMod PROVE FALSE
    BY <1>1, ByteFacts
  <2>2. ByteMod * h >= ByteMod * ByteMod
    BY <1>1, <2>1, ByteFacts
  <2>3. QED
    BY <1>1, <2>2, ByteFacts
<1>3. QED
  BY <1>1, <1>2, ByteFacts DEF Low, High, WordOf, Byte

LEMMA DefaultImageType == DefaultImage \in [0 .. 5 -> Byte]
<1>1. DefaultMaxRpm \in Nat /\ DefaultCanId \in Nat
  BY ConfigAssumption DEF ConfigAssumption
<1>2. /\ Low(DefaultMaxRpm) \in Byte /\ High(DefaultMaxRpm) \in Byte
      /\ Low(DefaultCanId) \in Byte /\ High(DefaultCanId) \in Byte
  BY <1>1, WordSplit, ConfigAssumption DEF ConfigAssumption
<1>3. QED
  BY <1>2, ConfigAssumption DEF ConfigAssumption, DefaultImage

\* Whatever is read, the sanitised value is in range.
LEMMA SanitisedRange ==
  ASSUME NEW v \in Nat, NEW limit \in Nat, NEW default \in 1 .. limit
  PROVE  Sanitised(v, limit, default) \in 1 .. limit
  BY DEF Sanitised

LEMMA WordType == ASSUME NEW lo \in Byte, NEW hi \in Byte PROVE WordOf(lo, hi) \in Nat
<1>1. ByteMod * hi \in Nat
  BY ByteFacts
<1>2. QED
  BY <1>1, ByteFacts DEF WordOf

----------------------------------------------------------------------------
(***************************************************************************)
(* Type correctness.                                                       *)
(***************************************************************************)
LEMMA CanTypeStep ==
  ASSUME CanTypeOK, StartupStep
  PROVE  CanTypeOK'
<1> USE StartupAssumption DEF StartupAssumption, CanTypeOK, Modes, BootPhases
<1>1. CASE EnterStartup
  BY <1>1 DEF EnterStartup
<1>2. CASE BeginLoopback
  BY <1>2 DEF BeginLoopback, BeginOK, BeginFails
<1>3. CASE SendTest
  BY <1>3 DEF SendTest, Transmit
<1>4. CASE VerifyTest
  BY <1>4 DEF VerifyTest
<1>5. CASE SwitchToNormal
  BY <1>5 DEF SwitchToNormal, SetModeFails
<1>6. CASE Announce
  BY <1>6 DEF Announce, Transmit
<1>7. CASE BeginFinal
  BY <1>7 DEF BeginFinal, BeginOK, BeginFails
<1>8. QED
  BY <1>1, <1>2, <1>3, <1>4, <1>5, <1>6, <1>7 DEF StartupStep

LEMMA EepromUpdate ==
  ASSUME eeprom \in [Cells -> Byte], NEW c \in Cells, NEW b \in Byte,
         eeprom' = [eeprom EXCEPT ![c] = b]
  PROVE  eeprom' \in [Cells -> Byte]
  OBVIOUS

\* One request, its continuation or its response, keeps the types.
LEMMA ServiceType ==
  ASSUME TypeOK, HandleFrame \/ WriteHigh \/ SendReply
  PROVE  TypeOK'
<1> USE DEF TypeOK, canVars
<1>1. ASSUME NEW f \in Frames, SetByte(f) \/ SetWord(f) PROVE TypeOK'
  <2>1. f \in FrameType /\ Cell(f.addr) \in Cells
    BY CellRange, ConfigAssumption DEF ConfigAssumption, FrameType
  <2>2. eeprom' \in [Cells -> Byte]
    BY <1>1, <2>1, EepromUpdate DEF SetByte, SetWord, FrameType
  <2>3. task' \in TaskType
    BY <1>1, <2>1, ByteFacts DEF SetByte, SetWord, FrameType, TaskType
  <2>4. reply' \in ReplyType
    BY <1>1, ByteFacts DEF SetByte, SetWord, NoReply, ReplyType
  <2>5. CanTypeOK'
    BY <1>1 DEF SetByte, SetWord, CanTypeOK
  <2>6. QED
    BY <1>1, <2>2, <2>3, <2>4, <2>5 DEF SetByte, SetWord
<1>2. ASSUME NEW f \in Frames, GetByte(f) \/ GetWord(f) PROVE TypeOK'
  <2>1. f \in FrameType /\ Cell(f.addr) \in Cells /\ Cell(f.addr + 1) \in Cells
    BY CellRange, ConfigAssumption DEF ConfigAssumption, FrameType
  <2>2. task' \in TaskType
    BY <1>2, <2>1, ByteFacts DEF GetByte, GetWord, FrameType, TaskType
  <2>3. reply' \in ReplyType
    BY <1>2, ByteFacts DEF GetByte, GetWord, NoReply, ReplyType
  <2>4. CanTypeOK'
    BY <1>2 DEF GetByte, GetWord, CanTypeOK
  <2>5. QED
    BY <1>2, <2>2, <2>3, <2>4 DEF GetByte, GetWord
<1>3. CASE WriteHigh
  <2>1. Cell(task.addr + 1) \in Cells
    BY CellRange DEF TaskType
  <2>2. eeprom' \in [Cells -> Byte]
    BY <1>3, <2>1, EepromUpdate DEF WriteHigh, TaskType
  <2>3. CanTypeOK' /\ task' \in TaskType
    BY <1>3 DEF WriteHigh, CanTypeOK, TaskType
  <2>4. QED
    BY <1>3, <2>2, <2>3 DEF WriteHigh
<1>4. CASE SendReply
  <2>1. task' \in TaskType
    BY <1>4, ByteFacts DEF SendReply, NoTask, TaskType
  <2>2. reply' \in ReplyType
    BY <1>4 DEF SendReply, TaskType, ReplyType
  <2>3. CanTypeOK'
    BY <1>4 DEF SendReply, CanTypeOK, Transmit
  <2>4. QED
    BY <1>4, <2>1, <2>2, <2>3 DEF SendReply
<1>5. QED
  BY <1>1, <1>2, <1>3, <1>4 DEF HandleFrame

LEMMA LoadType ==
  ASSUME TypeOK, LoadStep
  PROVE  TypeOK'
<1> USE DEF TypeOK, canVars
<1>1. CanTypeOK'
  BY DEF LoadStep, CanTypeOK
<1>2. CASE TestMagic
  BY <1>1, <1>2 DEF TestMagic, LoadSteps
<1>3. CASE WriteDefault
  <2>1. load - 1 \in 0 .. 5 /\ Base + load - 1 = Base + (load - 1)
    BY <1>3, ConfigAssumption DEF WriteDefault, ConfigAssumption
  <2>2. Base + load - 1 \in Cells /\ DefaultImage[load - 1] \in Byte
    BY <2>1, SettingCells, DefaultImageType
  <2>3. eeprom' \in [Cells -> Byte]
    BY <1>3, <2>2, EepromUpdate DEF WriteDefault
  <2>4. load' \in LoadSteps
    BY <1>3 DEF WriteDefault, LoadSteps
  <2>5. QED
    BY <1>1, <1>3, <2>3, <2>4 DEF WriteDefault
<1>4. CASE ReadConfig
  <2>1. eeprom[PULSES] \in Nat /\ WordAt(MAX_RPM) \in Nat /\ WordAt(CAN_ID) \in Nat
    <3>1. ASSUME NEW a \in Nat PROVE WordAt(a) \in Nat
      BY CellRange, WordType DEF WordAt
    <3>2. PULSES \in Cells /\ MAX_RPM \in Nat /\ CAN_ID \in Nat
      BY SettingCells DEF PULSES, MAX_RPM, CAN_ID
    <3>3. QED
      BY <3>1, <3>2, ByteFacts
  <2>2. pulsesPerRev' \in Nat /\ maxRpm' \in Nat /\ canId' \in Nat
    BY <1>4, <2>1, ConfigAssumption DEF ReadConfig, Sanitised, ConfigAssumption
  <2>3. QED
    BY <1>1, <1>4, <2>2 DEF ReadConfig, LoadSteps
<1>5. QED
  BY <1>2, <1>3, <1>4 DEF LoadStep

\* No step of the program breaks a type.
LEMMA TypeStep ==
  ASSUME TypeOK, [Next]_vars
  PROVE  TypeOK'
<1>1. CASE LoadStep
  BY <1>1, LoadType
<1>2. CASE StartupStep /\ UNCHANGED configVars
  BY <1>2, CanTypeStep DEF TypeOK, configVars
<1>3. CASE CreateConfigurator
  BY <1>3 DEF CreateConfigurator, TypeOK, CanTypeOK, canVars
<1>4. CASE HandleFrame \/ WriteHigh \/ SendReply
  BY <1>4, ServiceType
<1>5. CASE PowerLoss
  <2>1. CanTypeOK'
    BY <1>5 DEF PowerLoss, CanReset, TypeOK, CanTypeOK, BootPhases
  <2>2. task' \in TaskType /\ reply' \in ReplyType
    BY <1>5, ByteFacts DEF PowerLoss, NoTask, NoReply, TaskType, ReplyType
  <2>3. load' \in LoadSteps /\ pulsesPerRev' \in Nat /\ maxRpm' \in Nat /\ canId' \in Nat
    BY <1>5 DEF PowerLoss, LoadSteps
  <2>4. QED
    BY <1>5, <2>1, <2>2, <2>3, Zenon DEF PowerLoss, TypeOK
<1>6. CASE UNCHANGED vars
  BY <1>6 DEF vars, canVars, configVars, TypeOK, CanTypeOK
<1>7. QED
  BY <1>1, <1>2, <1>3, <1>4, <1>5, <1>6 DEF Next

LEMMA TypeInit == Init => TypeOK
<1> SUFFICES ASSUME Init PROVE TypeOK
  OBVIOUS
<1>1. CanTypeOK
  BY DEF Init, CanInit, CanTypeOK, BootPhases
<1>2. task \in TaskType /\ reply \in ReplyType
  BY ByteFacts DEF Init, ConfigInit, RamInit, NoTask, NoReply, TaskType, ReplyType
<1>3. eeprom \in [Cells -> Byte]
  BY ConfigAssumption DEF ConfigAssumption, Init, ConfigInit
<1>4. load \in LoadSteps /\ pulsesPerRev \in Nat /\ maxRpm \in Nat /\ canId \in Nat
  BY DEF Init, ConfigInit, RamInit, LoadSteps
<1>5. configurator \in BOOLEAN /\ hostWrote \in BOOLEAN /\ blank \in BOOLEAN
  BY Zenon DEF Init, ConfigInit, RamInit
<1>6. QED
  BY <1>1, <1>2, <1>3, <1>4, <1>5 DEF TypeOK

\* TypeOK is an inductive invariant.
THEOREM TypeCorrect == Spec => []TypeOK
<1>1. QED
  BY TypeInit, TypeStep, PTL DEF Spec

----------------------------------------------------------------------------
(***************************************************************************)
(* The start-up sequence and the order of loading, start-up and service.   *)
(***************************************************************************)
LEMMA CanInvStep ==
  ASSUME CanTypeOK, CanInv, StartupStep
  PROVE  CanInv'
<1> USE StartupAssumption
    DEF StartupAssumption, CanTypeOK, CanInv, OperationalMeansTested, Modes, BootPhases
<1>1. CASE EnterStartup
  BY <1>1 DEF EnterStartup
<1>2. CASE BeginLoopback
  BY <1>2 DEF BeginLoopback, BeginOK, BeginFails
<1>3. CASE SendTest
  BY <1>3 DEF SendTest, Transmit
<1>4. CASE VerifyTest
  BY <1>4 DEF VerifyTest
<1>5. CASE SwitchToNormal
  BY <1>5 DEF SwitchToNormal, SetModeFails
<1>6. CASE Announce
  BY <1>6 DEF Announce, Transmit
<1>7. CASE BeginFinal
  BY <1>7 DEF BeginFinal, BeginOK, BeginFails
<1>8. QED
  BY <1>1, <1>2, <1>3, <1>4, <1>5, <1>6, <1>7 DEF StartupStep

LEMMA OrderStep ==
  ASSUME TypeOK, CanInv, OrderInv, [Next]_vars
  PROVE  CanInv' /\ OrderInv'
<1> USE DEF OrderInv, Loaded
<1>1. CASE LoadStep
  <2>1. CanInv'
    BY <1>1 DEF LoadStep, canVars, CanInv, OperationalMeansTested
  <2>2. OrderInv'
    BY <1>1 DEF LoadStep, canVars, TestMagic, WriteDefault, ReadConfig
  <2>3. QED
    BY <2>1, <2>2
<1>2. CASE Loaded /\ StartupStep /\ UNCHANGED configVars
  <2>1. CanInv'
    BY <1>2, CanInvStep DEF TypeOK
  <2>2. boot # "ok"
    BY <1>2 DEF StartupStep, EnterStartup, BeginLoopback, SendTest, VerifyTest,
                SwitchToNormal, Announce, BeginFinal
  <2>3. OrderInv'
    BY <1>2, <2>2 DEF configVars
  <2>4. QED
    BY <2>1, <2>3
<1>3. CASE CreateConfigurator
  <2>1. CanInv'
    BY <1>3 DEF CreateConfigurator, canVars, CanInv, OperationalMeansTested
  <2>2. OrderInv'
    BY <1>3 DEF CreateConfigurator, canVars, CanInv
  <2>3. QED
    BY <2>1, <2>2
<1>4. ASSUME NEW f \in Frames, SetByte(f) \/ SetWord(f) \/ GetByte(f) \/ GetWord(f)
      PROVE  CanInv' /\ OrderInv'
  <2>1. CanInv'
    BY <1>4 DEF SetByte, SetWord, GetByte, GetWord, canVars, CanInv, OperationalMeansTested
  <2>2. OrderInv'
    BY <1>4 DEF SetByte, SetWord, GetByte, GetWord, Accepts, canVars
  <2>3. QED
    BY <2>1, <2>2
<1>5. CASE WriteHigh
  <2>1. CanInv'
    BY <1>5 DEF WriteHigh, canVars, CanInv, OperationalMeansTested
  <2>2. OrderInv'
    BY <1>5 DEF WriteHigh, canVars, TypeOK, TaskType
  <2>3. QED
    BY <2>1, <2>2
<1>6. CASE SendReply
  <2>1. verified
    BY <1>6 DEF SendReply, CanInv
  <2>2. CanInv'
    BY <1>6, <2>1 DEF SendReply, Transmit, CanInv, OperationalMeansTested
  <2>3. OrderInv'
    BY <1>6 DEF SendReply, NoTask
  <2>4. QED
    BY <2>2, <2>3
<1>7. CASE PowerLoss
  <2>1. CanInv'
    BY <1>7 DEF PowerLoss, CanReset, CanInv, OperationalMeansTested
  <2>2. OrderInv'
    BY <1>7 DEF PowerLoss, CanReset, NoTask
  <2>3. QED
    BY <2>1, <2>2
<1>8. CASE UNCHANGED vars
  BY <1>8 DEF vars, canVars, configVars, CanInv, OperationalMeansTested
<1>9. QED
  BY <1>1, <1>2, <1>3, <1>4, <1>5, <1>6, <1>7, <1>8 DEF Next, HandleFrame

LEMMA Order == Spec => [](CanInv /\ OrderInv)
<1>1. Init => CanInv /\ OrderInv
  BY DEF Init, CanInit, ConfigInit, RamInit, CanInv, OrderInv, OperationalMeansTested,
         Loaded, NoTask
<1>2. QED
  BY <1>1, OrderStep, TypeCorrect, PTL DEF Spec

\* A node is operational only after its loopback test, and nothing it sends reaches the
\* bus before that.
THEOREM StartupSafe == Spec => [](OperationalMeansTested /\ QuietUntilTested)
<1>1. CanInv => OperationalMeansTested /\ QuietUntilTested
  BY DEF CanInv, QuietUntilTested
<1>2. QED
  BY <1>1, Order, PTL

----------------------------------------------------------------------------
(***************************************************************************)
(* The settings a tachometer runs with.                                    *)
(***************************************************************************)
LEMMA ConfigStep ==
  ASSUME TypeOK, RunningConfigValid, [Next]_vars
  PROVE  RunningConfigValid'
<1> USE DEF RunningConfigValid, Loaded
<1>1. CASE TestMagic \/ WriteDefault
  BY <1>1 DEF TestMagic, WriteDefault
<1>2. CASE ReadConfig
  <2>1. ASSUME NEW a \in Nat PROVE WordAt(a) \in Nat
    BY CellRange, WordType DEF WordAt, TypeOK
  <2>2. PULSES \in Cells /\ MAX_RPM \in Nat /\ CAN_ID \in Nat
    BY SettingCells DEF PULSES, MAX_RPM, CAN_ID
  <2>3. eeprom[PULSES] \in Nat /\ WordAt(MAX_RPM) \in Nat /\ WordAt(CAN_ID) \in Nat
    BY <2>1, <2>2, ByteFacts DEF TypeOK
  <2>4. QED
    BY <1>2, <2>3, SanitisedRange, ConfigAssumption DEF ReadConfig, ConfigAssumption
<1>3. CASE UNCHANGED configVars
  BY <1>3 DEF configVars
<1>4. CASE CreateConfigurator \/ WriteHigh \/ SendReply
  BY <1>4 DEF CreateConfigurator, WriteHigh, SendReply
<1>5. CASE HandleFrame
  BY <1>5 DEF HandleFrame, SetByte, SetWord, GetByte, GetWord
<1>6. CASE PowerLoss
  BY <1>6 DEF PowerLoss
<1>7. QED
  BY <1>1, <1>2, <1>3, <1>4, <1>5, <1>6 DEF Next, LoadStep, vars

\* Whatever the EEPROM came with, whatever hosts write and whenever power fails, the
\* running settings are in range; the pulse divisor in particular is never zero.
THEOREM ConfigValid == Spec => []RunningConfigValid
<1>1. Init => RunningConfigValid
  BY DEF Init, ConfigInit, RamInit, RunningConfigValid, Loaded
<1>2. QED
  BY <1>1, ConfigStep, TypeCorrect, PTL DEF Spec

----------------------------------------------------------------------------
(***************************************************************************)
(* Responses tell what the EEPROM holds.  While a request is in progress,  *)
(* or its response stands, nothing else writes the EEPROM (OrderInv), and  *)
(* the two bytes of a word lie in different cells (NextCell).              *)
(***************************************************************************)
TruthInv == TaskInv /\ ReplyTellsTruth

LEMMA TruthStep ==
  ASSUME TypeOK, OrderInv, TruthInv, [Next]_vars
  PROVE  TruthInv'
<1> USE DEF TruthInv, TaskInv, ReplyTellsTruth
<1>1. CASE LoadStep
  <2>1. CASE load \in 1 .. 6
    BY <1>1, <2>1 DEF OrderInv, Loaded, LoadStep, TestMagic, WriteDefault, ReadConfig,
                      canVars, NoReply, TypeOK, TaskType
  <2>2. CASE load \notin 1 .. 6
    BY <1>1, <2>2 DEF LoadStep, TestMagic, WriteDefault, ReadConfig, Cell
  <2>3. QED
    BY <2>1, <2>2
<1>2. ASSUME NEW f \in Frames, SetByte(f) \/ SetWord(f)
      PROVE  TruthInv'
  <2>1. Cell(f.addr) \in Cells
    BY CellRange, ConfigAssumption DEF ConfigAssumption, FrameType
  <2>2. QED
    BY <1>2, <2>1 DEF SetByte, SetWord, NoReply, TypeOK, Cell
<1>3. ASSUME NEW f \in Frames, GetByte(f) \/ GetWord(f)
      PROVE  TruthInv'
  BY <1>3 DEF GetByte, GetWord, NoReply, Cell
<1>4. CASE WriteHigh
  <2>1. /\ Cell(task.addr) \in Cells /\ Cell(task.addr + 1) \in Cells
        /\ Cell(task.addr + 1) # Cell(task.addr)
    BY CellRange, NextCell DEF TypeOK, TaskType
  <2>2. task'.addr = task.addr /\ task'.lo = task.lo /\ task'.hi = task.hi
    BY <1>4 DEF WriteHigh, TypeOK, TaskType
  <2>3. reply' = NoReply
    BY <1>4 DEF WriteHigh, OrderInv
  <2>4. eeprom' = [eeprom EXCEPT ![Cell(task.addr + 1)] = task.hi]
    BY <1>4 DEF WriteHigh
  <2>5. eeprom[Cell(task.addr)] = task.lo
    BY <1>4 DEF WriteHigh
  <2>6. eeprom'[Cell(task.addr)] = task.lo /\ eeprom'[Cell(task.addr + 1)] = task.hi
    BY <2>1, <2>4, <2>5 DEF TypeOK
  <2>7. QED
    BY <2>2, <2>3, <2>6 DEF NoReply, Cell
<1>5. CASE SendReply
  BY <1>5 DEF SendReply, NoTask, OrderInv, NoReply, Cell
<1>6. CASE PowerLoss
  BY <1>6 DEF PowerLoss, NoTask, NoReply
<1>7. CASE CreateConfigurator \/ UNCHANGED configVars
  BY <1>7 DEF CreateConfigurator, configVars, Cell
<1>8. QED
  BY <1>1, <1>2, <1>3, <1>4, <1>5, <1>6, <1>7 DEF Next, HandleFrame, vars

\* A response never confirms a value the EEPROM does not hold.
THEOREM TruthfulReplies == Spec => []ReplyTellsTruth
<1>1. Init => TruthInv
  BY DEF Init, ConfigInit, RamInit, NoTask, NoReply, TruthInv, TaskInv, ReplyTellsTruth
<1>2. TruthInv => ReplyTellsTruth
  BY DEF TruthInv
<1>3. QED
  BY <1>1, <1>2, TruthStep, TypeCorrect, Order, PTL DEF Spec

----------------------------------------------------------------------------
(***************************************************************************)
(* The first boot of an erased board under power loss.                     *)
(***************************************************************************)
FreshInv == FirstBootInv /\ DefaultsSurvivePowerLoss

\* A word whose high byte is erased is replaced by the default, as is one that holds it.
LEMMA FreshWord ==
  ASSUME NEW d \in Nat, NEW limit \in Nat, d \in 1 .. limit, d < ByteMod * ByteMod,
         ByteMod * Erased > limit, NEW lo \in Byte, NEW hi \in Byte,
         hi = Erased \/ (lo = Low(d) /\ hi = High(d))
  PROVE  Sanitised(WordOf(lo, hi), limit, d) = d
<1>1. CASE hi = Erased
  <2>1. ByteMod * Erased \in Nat
    BY ByteFacts, ConfigAssumption DEF ConfigAssumption
  <2>2. WordOf(lo, hi) > limit
    BY <1>1, <2>1, ByteFacts DEF WordOf
  <2>3. QED
    BY <2>2 DEF Sanitised
<1>2. CASE lo = Low(d) /\ hi = High(d)
  BY <1>2, WordSplit DEF Sanitised
<1>3. QED
  BY <1>1, <1>2

LEMMA FreshLoad ==
  ASSUME TypeOK, FreshInv, LoadStep
  PROVE  FreshInv'
<1> SUFFICES ASSUME blank', ~hostWrote'
             PROVE  FreshInv'
  BY DEF FreshInv, FirstBootInv, DefaultsSurvivePowerLoss
<1>0. blank /\ ~hostWrote
  <2>1. blank' = blank /\ hostWrote' = hostWrote
    BY DEF LoadStep, TestMagic, WriteDefault, ReadConfig
  <2>2. QED
    BY <2>1, Zenon
<1> DEFINE D(i) == DefaultImage[i]
<1>1. /\ \A i \in 1 .. 5 : eeprom[Base + i] \in {Erased, D(i)}
      /\ load \in 1 .. 6 => \A i \in 0 .. load - 2 : eeprom[Base + i] = D(i)
      /\ eeprom[Base + 3] # Erased => eeprom[Base + 2] = D(2)
      /\ eeprom[Base + 5] # Erased => eeprom[Base + 4] = D(4)
  BY <1>0 DEF FreshInv, FirstBootInv
<1>2. CASE TestMagic
  BY <1>1, <1>2 DEF TestMagic, FreshInv, FirstBootInv, DefaultsSurvivePowerLoss, Loaded
<1>3. CASE WriteDefault
  <2>1. PICK k \in 0 .. 5 : k = load - 1
    BY <1>3 DEF WriteDefault
  <2>2. Base + load - 1 = Base + k
    BY <1>3, <2>1, ConfigAssumption DEF WriteDefault, ConfigAssumption
  <2>3. eeprom' = [eeprom EXCEPT ![Base + k] = D(k)] /\ load' = load + 1 /\ load = k + 1
    BY <1>3, <2>1, <2>2 DEF WriteDefault
  <2>4. ASSUME NEW i \in 0 .. 5
        PROVE  eeprom'[Base + i] = IF i = k THEN D(k) ELSE eeprom[Base + i]
    <3>1. Base + i \in Cells /\ Base + k \in Cells /\ (Base + i = Base + k <=> i = k)
      BY SettingCells, ConfigAssumption DEF ConfigAssumption
    <3>2. QED
      BY <2>3, <3>1 DEF TypeOK
  <2>5. \A i \in 1 .. 5 : eeprom'[Base + i] \in {Erased, D(i)}
    BY <1>1, <2>4
  <2>6. \A i \in 0 .. k : eeprom'[Base + i] = D(i)
    BY <1>1, <2>3, <2>4
  <2>7. eeprom'[Base + 3] # Erased => eeprom'[Base + 2] = D(2)
    BY <1>1, <2>3, <2>4, <2>6
  <2>8. eeprom'[Base + 5] # Erased => eeprom'[Base + 4] = D(4)
    BY <1>1, <2>3, <2>4, <2>6
  <2>9. ~Loaded'
    BY <2>3 DEF Loaded
  <2>10. QED
    BY <2>3, <2>5, <2>6, <2>7, <2>8, <2>9 DEF FreshInv, FirstBootInv, DefaultsSurvivePowerLoss
<1>4. CASE ReadConfig
  <2>1. /\ WordAt(MAX_RPM) = WordOf(eeprom[Base + 2], eeprom[Base + 3])
        /\ WordAt(CAN_ID) = WordOf(eeprom[Base + 4], eeprom[Base + 5])
        /\ eeprom[PULSES] = eeprom[Base + 1]
    <3>1. (Base + 2) + 1 = Base + 3 /\ (Base + 4) + 1 = Base + 5
      BY ConfigAssumption DEF ConfigAssumption
    <3>2. QED
      BY <3>1, SettingCells DEF WordAt, MAX_RPM, CAN_ID, PULSES
  <2>2. \A i \in 1 .. 5 : eeprom[Base + i] \in Byte
    BY SettingCells DEF TypeOK
  <2>3. pulsesPerRev' = DefaultPulses
    <3>1. eeprom[Base + 1] \in {Erased, DefaultPulses}
      BY <1>1 DEF DefaultImage
    <3>2. QED
      BY <1>4, <2>1, <3>1, ConfigAssumption, ErasedAssumption, ByteFacts
         DEF ReadConfig, Sanitised, ConfigAssumption, ErasedAssumption
  <2>4. maxRpm' = DefaultMaxRpm
    <3>1. \/ eeprom[Base + 3] = Erased
          \/ eeprom[Base + 2] = Low(DefaultMaxRpm) /\ eeprom[Base + 3] = High(DefaultMaxRpm)
      BY <1>1 DEF DefaultImage
    <3>2. /\ MaxRpmLimit \in Nat /\ DefaultMaxRpm \in 1 .. MaxRpmLimit
          /\ DefaultMaxRpm \in Nat /\ DefaultMaxRpm < ByteMod * ByteMod
          /\ ByteMod * Erased > MaxRpmLimit
      BY ConfigAssumption, ErasedAssumption DEF ConfigAssumption, ErasedAssumption
    <3>3. Sanitised(WordOf(eeprom[Base + 2], eeprom[Base + 3]), MaxRpmLimit, DefaultMaxRpm) = DefaultMaxRpm
      BY <2>2, <3>1, <3>2, FreshWord
    <3>4. QED
      BY <1>4, <2>1, <3>3 DEF ReadConfig
  <2>5. canId' = DefaultCanId
    <3>1. \/ eeprom[Base + 5] = Erased
          \/ eeprom[Base + 4] = Low(DefaultCanId) /\ eeprom[Base + 5] = High(DefaultCanId)
      BY <1>1 DEF DefaultImage
    <3>2. /\ MaxCanId \in Nat /\ DefaultCanId \in 1 .. MaxCanId
          /\ DefaultCanId \in Nat /\ DefaultCanId < ByteMod * ByteMod
          /\ ByteMod * Erased > MaxCanId
      BY ConfigAssumption, ErasedAssumption DEF ConfigAssumption, ErasedAssumption
    <3>3. Sanitised(WordOf(eeprom[Base + 4], eeprom[Base + 5]), MaxCanId, DefaultCanId) = DefaultCanId
      BY <2>2, <3>1, <3>2, FreshWord
    <3>4. QED
      BY <1>4, <2>1, <3>3 DEF ReadConfig
  <2>6. FirstBootInv'
    BY <1>1, <1>4 DEF ReadConfig, FirstBootInv
  <2>7. QED
    BY <2>3, <2>4, <2>5, <2>6 DEF FreshInv, DefaultsSurvivePowerLoss
<1>5. QED
  BY <1>2, <1>3, <1>4 DEF LoadStep

\* A board that came erased runs with the defaults until a host writes to it, wherever
\* power failed during its first boots.
THEOREM DefaultsSurvive == Spec => []DefaultsSurvivePowerLoss
<1>1. Init => FreshInv
  <2> SUFFICES ASSUME Init PROVE FreshInv
    OBVIOUS
  <2>1. load = 0 /\ blank = (eeprom = [c \in Cells |-> Erased])
    BY DEF Init, ConfigInit, RamInit
  <2>2. blank => \A i \in 0 .. 5 : eeprom[Base + i] = Erased
    BY <2>1, SettingCells
  <2>3. QED
    BY <2>1, <2>2 DEF FreshInv, FirstBootInv, DefaultsSurvivePowerLoss, Loaded
<1>2. TypeOK /\ OrderInv /\ FreshInv /\ [Next]_vars => FreshInv'
  <2> SUFFICES ASSUME TypeOK, OrderInv, FreshInv, [Next]_vars PROVE FreshInv'
    OBVIOUS
  <2>1. CASE LoadStep
    BY <2>1, FreshLoad
  <2> USE DEF FreshInv, FirstBootInv, DefaultsSurvivePowerLoss, Loaded
  <2>2. CASE CreateConfigurator \/ SendReply
    BY <2>2 DEF CreateConfigurator, SendReply
  <2>3. CASE HandleFrame
    BY <2>3 DEF HandleFrame, SetByte, SetWord, GetByte, GetWord
  <2>4. CASE WriteHigh
    BY <2>4 DEF WriteHigh, OrderInv
  <2>5. CASE PowerLoss
    BY <2>5 DEF PowerLoss
  <2>6. CASE UNCHANGED configVars
    BY <2>6 DEF configVars
  <2>7. QED
    BY <2>1, <2>2, <2>3, <2>4, <2>5, <2>6 DEF Next, vars
<1>3. FreshInv => DefaultsSurvivePowerLoss
  BY DEF FreshInv
<1>4. QED
  BY <1>1, <1>2, <1>3, TypeCorrect, Order, PTL DEF Spec

----------------------------------------------------------------------------
\* What the loop knows in each of its parts.
LoopInv ==
  /\ ~Loaded => frame = NoFrame /\ turn = "receive"
  /\ turn = "send" => (overSpeed <=> currentRpm > maxRpm)

TachInv == TachTypeOK /\ CanInv /\ OrderInv /\ RunningConfigValid /\ LoopInv /\ FrameConsistent

----------------------------------------------------------------------------
(***************************************************************************)
(* The 16-bit result of readRpm() and the frame it is packed in.           *)
(***************************************************************************)
LEMMA CountModFacts ==
  /\ CountMod \in Nat /\ CountMod > 0 /\ MsPerMinute \in Nat
  /\ \A x \in Nat : x % CountMod \in 0 .. CountMod - 1
  BY RpmAssumption DEF RpmAssumption

LEMMA RpmRange ==
  ASSUME NEW n \in Nat, NEW p \in Nat \ {0}, NEW ms \in Nat
  PROVE  Rpm(n, p, ms) \in 0 .. CountMod - 1
<1>1. CASE n = 0 \/ ms = 0
  BY <1>1, CountModFacts DEF Rpm
<1>2. CASE n # 0 /\ ms # 0
  <2>1. p * ms \in Nat \ {0} /\ n * MsPerMinute \in Nat
    BY <1>2, CountModFacts
  <2>2. (n * MsPerMinute) \div (p * ms) \in Nat
    BY <2>1
  <2>3. QED
    BY <1>2, <2>2, CountModFacts DEF Rpm
<1>3. QED
  BY <1>1, <1>2

\* A quotient reaches k exactly when the dividend reaches k times the divisor.
LEMMA QuotientReaches ==
  ASSUME NEW n \in Nat, NEW d \in Nat \ {0}, NEW k \in Nat
  PROVE  n \div d >= k <=> n >= k * d
<1> DEFINE q == n \div d
<1>1. q \in Nat /\ n = d * q + (n % d) /\ n % d \in 0 .. d - 1
  OBVIOUS
<1> HIDE DEF q
<1>2. ASSUME q >= k PROVE n >= k * d
  <2>1. d * q >= k * d
    BY <1>1, <1>2
  <2>2. d * q \in Nat /\ k * d \in Nat
    BY <1>1
  <2>3. QED
    BY <1>1, <2>1, <2>2
<1>3. ASSUME q < k PROVE n < k * d
  <2>1. q + 1 <= k
    BY <1>1, <1>3
  <2>2. d * (q + 1) <= k * d
    BY <1>1, <2>1
  <2>3. d * (q + 1) = d * q + d
    BY <1>1
  <2>4. QED
    BY <1>1, <2>2, <2>3
<1>4. q >= k <=> n >= k * d
  BY <1>1, <1>2, <1>3
<1>5. QED
  BY <1>4 DEF q

\* As long as the rate fits the result, truncation cannot change the comparison.
LEMMA RpmExceeds ==
  ASSUME NEW n \in Nat, NEW p \in Nat \ {0}, NEW ms \in Nat \ {0}, NEW limit \in Nat,
         n * MsPerMinute < CountMod * p * ms
  PROVE  Rpm(n, p, ms) > limit <=> n * MsPerMinute >= (limit + 1) * p * ms
<1> DEFINE d == p * ms
           a == n * MsPerMinute
<1>1. d \in Nat \ {0} /\ a \in Nat /\ a \div d \in Nat
  BY CountModFacts
<1>2. CountMod * p * ms = CountMod * d /\ (limit + 1) * p * ms = (limit + 1) * d
  BY CountModFacts
<1>3. a \div d < CountMod
  <2>1. ~(a >= CountMod * d)
    BY <1>1, <1>2, CountModFacts
  <2>2. a \div d >= CountMod <=> a >= CountMod * d
    BY <1>1, CountModFacts, QuotientReaches
  <2>3. QED
    BY <1>1, <2>1, <2>2, CountModFacts
<1>4. a \div d >= limit + 1 <=> a >= (limit + 1) * d
  <2>1. limit + 1 \in Nat
    OBVIOUS
  <2> HIDE DEF a, d
  <2>2. QED
    BY <1>1, <2>1, QuotientReaches
<1>5. Rpm(n, p, ms) = a \div d
  <2>1. CASE n = 0
    <3>1. a = 0
      BY <2>1, CountModFacts
    <3>2. a \div d = 0
      BY <3>1, <1>1
    <3>3. QED
      BY <2>1, <3>2 DEF Rpm
  <2>2. CASE n # 0
    <3>1. (a \div d) % CountMod = a \div d
      BY <1>1, <1>3, CountModFacts
    <3>2. QED
      BY <2>2, <3>1 DEF Rpm
  <2>3. QED
    BY <2>1, <2>2
<1>6. Rpm(n, p, ms) > limit <=> a \div d >= limit + 1
  BY <1>1, <1>5
<1>7. QED
  BY <1>2, <1>4, <1>6

\* Packing loses nothing.
LEMMA PackUnpack ==
  ASSUME NEW id \in Nat, NEW rpm \in 0 .. CountMod - 1, NEW over \in BOOLEAN
  PROVE  /\ pack(id, rpm, over).id = id
         /\ unpackRpm(pack(id, rpm, over)) = rpm
         /\ unpackOverSpeed(pack(id, rpm, over)) <=> over
<1>1. rpm \in Nat /\ rpm < ByteMod * ByteMod
  BY CountModFacts, ByteFacts, TachAssumption DEF TachAssumption
<1>2. WordOf(Low(rpm), High(rpm)) = rpm
  BY <1>1, WordSplit
<1>3. CASE over
  BY <1>2, <1>3 DEF pack, unpackRpm, unpackOverSpeed, TACH_FLAG_ACTIVE, TACH_FLAG_OVER_SPEED
<1>4. CASE ~over
  BY <1>2, <1>4 DEF pack, unpackRpm, unpackOverSpeed, TACH_FLAG_ACTIVE, TACH_FLAG_OVER_SPEED
<1>5. QED
  BY <1>3, <1>4

----------------------------------------------------------------------------
(***************************************************************************)
(* The part of the state TachConfig speaks of.                             *)
(***************************************************************************)
ConfigPart == TypeOK /\ CanInv /\ OrderInv /\ RunningConfigValid

LEMMA ConfigPartStep ==
  ASSUME ConfigPart, [Next]_vars
  PROVE  ConfigPart'
  BY TypeStep, OrderStep, ConfigStep DEF ConfigPart

LEMMA InitConfigPart == Init => ConfigPart
<1>1. Init => TypeOK
  BY TypeInit
<1>2. Init => CanInv /\ OrderInv
  BY DEF Init, CanInit, ConfigInit, RamInit, CanInv, OrderInv, OperationalMeansTested,
         Loaded, NoTask
<1>3. Init => RunningConfigValid
  BY DEF Init, ConfigInit, RamInit, RunningConfigValid, Loaded
<1>4. QED
  BY <1>1, <1>2, <1>3 DEF ConfigPart

\* The transmission of an RPM frame is the one step TachConfig has no part in.
LEMMA SendKeepsConfig ==
  ASSUME ConfigPart, SendRpm
  PROVE  ConfigPart'
<1>1. TypeOK'
  BY DEF SendRpm, Transmit, configVars, ConfigPart, TypeOK, CanTypeOK
<1>2. CanInv'
  <2>1. UNCHANGED <<initialized, mode, boot, verified>>
    BY DEF SendRpm
  <2>2. wire' = wire \/ (verified /\ wire' = wire \union {"DATA"})
    BY DEF SendRpm, Transmit, isReady, ConfigPart, CanInv
  <2>3. CASE wire' = wire
    BY <2>1, <2>3 DEF ConfigPart, CanInv, OperationalMeansTested
  <2>4. CASE verified /\ wire' = wire \union {"DATA"}
    BY <2>1, <2>4 DEF ConfigPart, CanInv, OperationalMeansTested
  <2>5. QED
    BY <2>2, <2>3, <2>4
<1>3. OrderInv' /\ RunningConfigValid'
  BY DEF SendRpm, configVars, ConfigPart, OrderInv, RunningConfigValid, Loaded
<1>4. QED
  BY <1>1, <1>2, <1>3 DEF ConfigPart

LEMMA StepsOfConfig ==
  ASSUME [TachNext]_tachVars, ~SendRpm
  PROVE  [Next]_vars
  BY DEF TachNext, Processor, SetupStep, ReceivePart, FinishRequest, NotYetDue, Measure,
         Pulse, StopEngine, Tick, PowerOff, tachVars, vars, Next

----------------------------------------------------------------------------
(***************************************************************************)
(* The loop.                                                               *)
(***************************************************************************)
LoopTypeOK ==
  /\ waiting \in 0 .. CountMod - 1 /\ engineOn \in BOOLEAN /\ sinceMs \in Nat
  /\ turn \in {"receive", "measure", "send"}
  /\ currentRpm \in 0 .. CountMod - 1 /\ overSpeed \in BOOLEAN

LEMMA TachTypeParts == TachTypeOK <=> TypeOK /\ LoopTypeOK
  BY DEF TachTypeOK, LoopTypeOK

LEMMA PulseType ==
  ASSUME LoopTypeOK, Pulse
  PROVE  waiting' \in 0 .. CountMod - 1
<1>1. waiting + 1 \in Nat
  BY CountModFacts DEF LoopTypeOK
<1>2. QED
  BY <1>1, CountModFacts DEF Pulse

LEMMA LoopTypeStep ==
  ASSUME ConfigPart, LoopTypeOK, [TachNext]_tachVars
  PROVE  LoopTypeOK'
<1>1. CASE Measure
  <2>1. pulsesPerRev \in Nat \ {0} /\ waiting \in Nat /\ sinceMs \in Nat
    BY <1>1, CountModFacts, ConfigAssumption
       DEF Measure, Running, ConfigPart, RunningConfigValid, LoopTypeOK, ConfigAssumption
  <2>2. currentRpm' \in 0 .. CountMod - 1
    BY <1>1, <2>1, RpmRange DEF Measure
  <2>3. overSpeed' \in BOOLEAN
    BY <1>1 DEF Measure
  <2>4. waiting' \in 0 .. CountMod - 1
    BY <1>1, CountModFacts DEF Measure
  <2>5. QED
    BY <1>1, <2>2, <2>3, <2>4 DEF Measure, LoopTypeOK
<1>2. CASE Pulse
  BY <1>2, PulseType DEF Pulse, loopVars, LoopTypeOK
<1>3. CASE Tick
  BY <1>3 DEF Tick, loopVars, LoopTypeOK
<1>4. CASE StopEngine
  <2>1. engineOn' \in BOOLEAN
    BY <1>4, Zenon DEF StopEngine
  <2>2. QED
    BY <1>4, <2>1, Zenon DEF StopEngine, loopVars, LoopTypeOK
<1>5. CASE SetupStep \/ ReceivePart \/ FinishRequest \/ NotYetDue \/ SendRpm
  BY <1>5 DEF SetupStep, ReceivePart, FinishRequest, NotYetDue, SendRpm, sensorVars, loopVars,
              LoopTypeOK
<1>6. CASE PowerOff
  <2>1. 0 \in 0 .. CountMod - 1 /\ 0 \in Nat
    BY CountModFacts
  <2>2. overSpeed' \in BOOLEAN
    BY <1>6, Zenon DEF PowerOff
  <2>3. QED
    BY <1>6, <2>1, <2>2, Zenon DEF PowerOff, LoopTypeOK
<1>7. CASE UNCHANGED tachVars
  BY <1>7 DEF tachVars, sensorVars, loopVars, LoopTypeOK
<1>8. QED
  BY <1>1, <1>2, <1>3, <1>4, <1>5, <1>6, <1>7 DEF TachNext, Processor

\* Steps that touch neither the settings nor what the loop knows of them.
LEMMA LoopStutter ==
  ASSUME LoopInv, FrameConsistent, UNCHANGED <<load, maxRpm, canId, currentRpm, overSpeed, frame>>,
         turn' = turn \/ (Loaded /\ turn' # "send")
  PROVE  LoopInv' /\ FrameConsistent'
  BY DEF LoopInv, FrameConsistent, Loaded, unpackOverSpeed, unpackRpm, WordOf

LEMMA LoopStep ==
  ASSUME ConfigPart, LoopTypeOK, LoopInv, FrameConsistent, [TachNext]_tachVars
  PROVE  LoopInv' /\ FrameConsistent'
<1>1. CASE SetupStep
  <2>1. CASE Loaded
    <3>1. UNCHANGED <<load, maxRpm, canId>>
      BY <1>1, <2>1 DEF SetupStep, Loaded, LoadStep, TestMagic, WriteDefault, ReadConfig,
                        CreateConfigurator, configVars
    <3>2. QED
      BY <1>1, <3>1, LoopStutter DEF SetupStep, loopVars
  <2>2. CASE ~Loaded
    BY <1>1, <2>2 DEF SetupStep, loopVars, LoopInv, FrameConsistent
  <2>3. QED
    BY <2>1, <2>2
<1>2. CASE ReceivePart
  <2>1. UNCHANGED <<load, maxRpm, canId>> /\ Loaded /\ turn' # "send"
    BY <1>2 DEF ReceivePart, Running, HandleFrame, SetByte, SetWord, GetByte, GetWord, vars, configVars
  <2>2. QED
    BY <1>2, <2>1, LoopStutter DEF ReceivePart
<1>3. CASE FinishRequest
  BY <1>3, LoopStutter DEF FinishRequest, WriteHigh, SendReply, loopVars
<1>4. CASE NotYetDue
  BY <1>4, LoopStutter DEF NotYetDue, Running, vars, configVars
<1>5. CASE Measure
  BY <1>5 DEF Measure, Running, vars, configVars, LoopInv, FrameConsistent, Loaded, unpackOverSpeed,
              unpackRpm, WordOf
<1>6. CASE SendRpm
  <2>1. UNCHANGED <<load, maxRpm, canId, currentRpm, overSpeed>> /\ Loaded /\ turn' = "receive"
        /\ turn = "send"
    BY <1>6 DEF SendRpm, Running, configVars
  <2>2. CASE frame' = frame
    BY <1>6, <2>1, <2>2, LoopStutter
  <2>3. CASE frame' = pack(canId, currentRpm, overSpeed)
    <3>1. LoopInv'
      BY <2>1 DEF LoopInv, Loaded
    <3>2. canId \in Nat /\ (overSpeed <=> currentRpm > maxRpm)
      BY <2>1 DEF LoopInv, ConfigPart, TypeOK
    <3>3. /\ frame'.id = canId /\ unpackRpm(frame') = currentRpm
          /\ unpackOverSpeed(frame') <=> overSpeed
      BY <2>3, <3>2, PackUnpack DEF LoopTypeOK
    <3>4. frame'.id = canId' /\ (unpackOverSpeed(frame') <=> unpackRpm(frame') > maxRpm')
      BY <2>1, <3>2, <3>3
    <3>5. QED
      BY <3>1, <3>4 DEF FrameConsistent
  <2>4. QED
    BY <1>6, <2>2, <2>3 DEF SendRpm
<1>7. CASE Pulse \/ StopEngine \/ Tick \/ UNCHANGED tachVars
  BY <1>7, LoopStutter DEF Pulse, StopEngine, Tick, tachVars, vars, configVars, loopVars
<1>8. CASE PowerOff
  BY <1>8 DEF PowerOff, PowerLoss, LoopInv, FrameConsistent, Loaded
<1>9. QED
  BY <1>1, <1>2, <1>3, <1>4, <1>5, <1>6, <1>7, <1>8 DEF TachNext, Processor

----------------------------------------------------------------------------
LEMMA TachInvariant == TachSpec => []TachInv
<1>1. TachInit => TachInv
  <2> SUFFICES ASSUME TachInit PROVE TachInv
    OBVIOUS
  <2>1. ConfigPart
    BY InitConfigPart DEF TachInit
  <2>2. LoopTypeOK /\ LoopInv /\ FrameConsistent
    <3>1. 0 \in 0 .. CountMod - 1 /\ 0 \in Nat
      BY CountModFacts
    <3>2. overSpeed \in BOOLEAN /\ engineOn \in BOOLEAN
      BY Zenon DEF TachInit, LoopInit
    <3>3. LoopTypeOK
      BY <3>1, <3>2, Zenon DEF TachInit, LoopInit, LoopTypeOK
    <3>4. LoopInv /\ FrameConsistent
      BY DEF TachInit, LoopInit, LoopInv, FrameConsistent
    <3>5. QED
      BY <3>3, <3>4
  <2>3. QED
    BY <2>1, <2>2, TachTypeParts DEF TachInv, ConfigPart
<1>2. TachInv /\ [TachNext]_tachVars => TachInv'
  <2> SUFFICES ASSUME TachInv, [TachNext]_tachVars PROVE TachInv'
    OBVIOUS
  <2>1. ConfigPart /\ LoopTypeOK /\ LoopInv /\ FrameConsistent
    BY TachTypeParts DEF TachInv, ConfigPart
  <2>2. ConfigPart'
    BY <2>1, SendKeepsConfig, StepsOfConfig, ConfigPartStep
  <2>3. LoopTypeOK' /\ LoopInv' /\ FrameConsistent'
    BY <2>1, LoopTypeStep, LoopStep
  <2>4. TachTypeOK'
    BY <2>2, <2>3 DEF TachTypeOK, LoopTypeOK, ConfigPart
  <2>5. QED
    BY <2>2, <2>3, <2>4 DEF TachInv, ConfigPart
<1>3. QED
  BY <1>1, <1>2, PTL DEF TachSpec

\* Type correctness of the whole instrument: in particular neither the pulse counter nor
\* the speed computed from it leaves its 16 bits.
THEOREM TachTypeCorrect == TachSpec => []TachTypeOK
<1>1. TachInv => TachTypeOK
  BY DEF TachInv
<1>2. QED
  BY <1>1, TachInvariant, PTL

\* The warning bit of every frame agrees with its speed and the threshold in force, and
\* the frame carries the identifier its boot loaded.
THEOREM FramesConsistent == TachSpec => []FrameConsistent
<1>1. TachInv => FrameConsistent
  BY DEF TachInv
<1>2. QED
  BY <1>1, TachInvariant, PTL

\* No RPM frame before the loopback test has passed, whatever the configuration service
\* and the loop are doing, across power losses.
THEOREM DataOnlyFromTested == TachSpec => []DataOnlyWhenTested
<1>1. TachInv => DataOnlyWhenTested
  BY DEF TachInv, CanInv, DataOnlyWhenTested
<1>2. QED
  BY <1>1, TachInvariant, PTL

\* No step of the loop, pulses and clock included, breaks the rules of the start-up and of
\* the settings: they hold of the instrument as they do of its setup alone.
THEOREM TachSafe == TachSpec => [](OperationalMeansTested /\ QuietUntilTested /\ RunningConfigValid)
<1>1. TachInv => OperationalMeansTested /\ QuietUntilTested /\ RunningConfigValid
  BY DEF TachInv, CanInv, QuietUntilTested
<1>2. QED
  BY <1>1, TachInvariant, PTL

\* The warning is raised exactly when the pulses of the interval exceed the threshold, for
\* every counter width and threshold, as long as the rate fits the result of readRpm().
THEOREM OverSpeedIsExact == TachSpec => OverSpeedExact
<1> DEFINE A == turn = "measure" /\ turn' = "send" /\
                  waiting * MsPerMinute < CountMod * pulsesPerRev * sinceMs
                => /\ overSpeed' <=> waiting * MsPerMinute >= (maxRpm + 1) * pulsesPerRev * sinceMs
                   /\ display'.banner = overSpeed'
<1>1. TachInv /\ [TachNext]_tachVars => [A]_tachVars
  <2> SUFFICES ASSUME TachInv, TachNext, turn = "measure", turn' = "send",
                      waiting * MsPerMinute < CountMod * pulsesPerRev * sinceMs
               PROVE  /\ overSpeed' <=> waiting * MsPerMinute >= (maxRpm + 1) * pulsesPerRev * sinceMs
                      /\ display'.banner = overSpeed'
    OBVIOUS
  <2>1. Measure
    BY DEF TachNext, Processor, SetupStep, ReceivePart, FinishRequest, NotYetDue, SendRpm, Pulse,
           StopEngine, Tick, PowerOff, loopVars
  <2>2. /\ pulsesPerRev \in Nat \ {0} /\ maxRpm \in Nat /\ waiting \in Nat
        /\ sinceMs \in Nat \ {0}
    BY <2>1, TachAssumption, ConfigAssumption
       DEF TachInv, TachTypeOK, RunningConfigValid, Measure, Running, TachAssumption, ConfigAssumption
  <2>3. Rpm(waiting, pulsesPerRev, sinceMs) > maxRpm
          <=> waiting * MsPerMinute >= (maxRpm + 1) * pulsesPerRev * sinceMs
    BY <2>2, RpmExceeds
  <2>4. /\ currentRpm' = Rpm(waiting, pulsesPerRev, sinceMs)
        /\ overSpeed' = (currentRpm' > maxRpm)
        /\ display' = [rpm |-> currentRpm', banner |-> overSpeed']
    BY <2>1 DEF Measure
  <2>5. overSpeed' <=> Rpm(waiting, pulsesPerRev, sinceMs) > maxRpm
    BY <2>4
  <2>6. display'.banner = overSpeed'
    BY <2>4
  <2>7. QED
    BY <2>3, <2>5, <2>6
<1>2. QED
  BY <1>1, TachInvariant, PTL DEF TachSpec, OverSpeedExact
=============================================================================
