----------------------------- MODULE CanSensor -----------------------------
(***************************************************************************)
(* A node of the CanbusBasic example: the CanSensor library, which sorts   *)
(* the frames of the CAN chip into events, messages and commands, and the  *)
(* main program, whose loop processes the events, takes one frame and      *)
(* sends its altitude.  The library has an event manager of its own.       *)
(***************************************************************************)
EXTENDS EventManager, FifoQueue, FiniteSets

CONSTANTS Bus,         \* the frames other nodes may send: records, see FrameOf
          MemorySize,  \* 1024: an EEPROM address counts modulo this
          Stray,       \* the bytes an uninitialised array may hold
          RxBuffers,   \* 2: the receive buffers of the chip
          MaxRetries   \* 10

Byte == 0 .. 255

VARIABLES step,        \* where setup() and loop() are
          retryCount, initFailed,
          chip,        \* the frames in the receive buffers
          fifo,        \* messages for the application
          eeprom, put, \* its bytes, and those EEPROM.put() has still to write
          sent,        \* the frame sent last in this pass of loop()
          altimeter, temperature,
          newest,      \* history: the altitude a node sent in the last message taken
          ordered,     \* history: for each cell the last command that covered it
          cut,         \* history: the cells the power went before their byte was written
          reported     \* history: canError() was told of a failed start

nodeVars == <<step, retryCount, initFailed, chip, fifo, eeprom, put, sent,
              altimeter, temperature, newest, ordered, cut, reported>>

RequestData == 237
DataReceived == 238
DataError == 239
INVALID_COMMAND == 1
DATA_LOST == 2
ZERO_LENGTH == 3
INIT_FAILED == 4

SENSOR_ALTIMETER == 1
Temperatures == 16 .. 36

GET_SETTING_VALUE == 48
SET_SETTING_VALUE == 49
Self == 2

\* kind: "data", "remote", or "foreign" for an extended frame or one with the own identifier.
FrameOf(kind, data) == [kind |-> kind, data |-> data]

----------------------------------------------------------------------------
(* The frames of the library.  Of an integer the high byte goes first.      *)

sendSensorInteger(type, v) == <<"I", type, v \div 256, v % 256>>
sendSensorFloat(type, v) == <<"F", type, v>>
sendMemValue(address, v) == <<"M", address, v \div 256, v % 256>>
sendCommand(node, data) == <<"C", node>> \o data

Int16(w) == IF w < 32768 THEN w ELSE w - 65536

\* The receiver takes the low byte first.
ToInt(b0, b1) == Int16(b0 + 256 * b1)

Memory == 0 .. MemorySize - 1
Cell(address) == address % MemorySize
Following(c) == Cell(c + 1)

Word(memory, a) == memory[Cell(a)] + 256 * memory[Cell(a + 1)]

IsAltitude(m)    == m[1] = "I" /\ m[2] = SENSOR_ALTIMETER
IsTemperature(m) == m[1] = "F" /\ m[2] \in Temperatures

IsMessage(f) == f.kind = "data" /\ f.data # <<>> /\ f.data[1] # "C"
IsCommand(f) == f.kind = "data" /\ f.data # <<>> /\ f.data[1] = "C"

\* What travels in a frame or lies on a stack is bytes.
ASSUME NodeAssumption ==
  /\ RxBuffers \in Nat /\ MaxRetries \in Nat /\ Stray \subseteq Byte
  /\ MemorySize \in Nat \ {0, 1}
  /\ \A f \in Bus : f.kind = "data" /\ f.data # <<>> =>
       /\ Len(f.data) \in Nat
       /\ IsCommand(f) => \A k \in 2 .. Len(f.data) : f.data[k] \in Byte
       /\ IsAltitude(f.data) => f.data[3] \in Byte /\ f.data[4] \in Byte

\* A word ordered for two cells.
Order(c, word) == [address |-> c, word |-> word]

----------------------------------------------------------------------------
Listeners == << [callback |-> "remoteRequest", eventCode |-> RequestData,  enabled |-> TRUE],
                [callback |-> "dataReceived",  eventCode |-> DataReceived, enabled |-> TRUE],
                [callback |-> "canError",      eventCode |-> DataError,    enabled |-> TRUE] >>

NodeInit ==
  /\ queues = [p \in Priorities |-> EmptyQueue] /\ mListeners = <<>>
  /\ mDefaultCallback = NoCallback /\ mDefaultCallbackEnabled = FALSE
  /\ call = InApp /\ turn = NoTurn /\ highDue = 0
  /\ step = "begin" /\ retryCount = 0 /\ initFailed = FALSE
  /\ chip = <<>> /\ fifo = EmptyFifo /\ put = <<>> /\ sent = <<>>
  /\ altimeter = 0 /\ temperature = 0
  /\ newest = 0 /\ reported = FALSE /\ cut = {}
  /\ eeprom = [c \in Memory |-> 255] /\ ordered = [c \in Memory |-> Order(c, 65535)]

\* Events are queued with low priority; whether there was room is ignored.
Raise(event) == queues' = [queues EXCEPT !["low"] = queueEvent(@, event)]
RaiseBoth(first, second) ==
  queues' = [queues EXCEPT !["low"] = queueEvent(queueEvent(@, first), second)]
RaiseNone == UNCHANGED queues

Event(code, param) == [code |-> code, param |-> param]

StartFailed(again) == ~again /\ retryCount >= MaxRetries

\* Defect: a failed start is not an event.
FaultyStartEvent(failed) == RaiseNone
StartEvent(failed) == IF failed THEN Raise(Event(DataError, INIT_FAILED)) ELSE RaiseNone

\* setup(): begin() tries the chip once more than it counts, and goes by the count; the
\* listeners are added after it.  The interval it reads is not used for anything.
TryBegin(ok) ==
  /\ step = "begin"
  /\ LET again  == ~ok /\ retryCount < MaxRetries
         failed == StartFailed(again)
     IN /\ retryCount' = IF again THEN retryCount + 1 ELSE 0
        /\ step' = IF again THEN step ELSE "handle"
        /\ mListeners' = IF again THEN mListeners ELSE Listeners
        /\ initFailed' = failed
        /\ StartEvent(failed)
        /\ sent' = IF again \/ failed THEN sent ELSE <<"HELO">>
  /\ UNCHANGED <<mDefaultCallback, mDefaultCallbackEnabled, call, highDue, turn, chip, fifo, eeprom,
                 put, altimeter, temperature, newest, ordered, cut, reported>>

----------------------------------------------------------------------------
(* loop(): handleEvents(), raiseEvents(), and every second the altitude.    *)

HandleEvents ==
  /\ step = "handle" /\ step' = "handling" /\ Process(TRUE) /\ sent' = <<>>
  /\ UNCHANGED <<retryCount, initFailed, chip, fifo, eeprom, put, altimeter, temperature,
                 newest, ordered, cut, reported>>

Handling == step = "handling" /\ (Test \/ Pop \/ Invoke \/ Sent) /\ UNCHANGED nodeVars

Running(callback) ==
  step = "handling" /\ call.pc = "callback" /\ mListeners[call.at].callback = callback /\ Return

RemoteRequest == Running("remoteRequest") /\ UNCHANGED nodeVars

CanError ==
  /\ Running("canError") /\ reported' = (reported \/ call.event.param = INIT_FAILED)
  /\ UNCHANGED <<step, retryCount, initFailed, chip, fifo, eeprom, put, sent, altimeter,
                 temperature, newest, ordered, cut>>

\* dataReceived() reads as many messages as its event counted, or as there are; of each kind
\* the last one stays.
DataReceivedHandler ==
  LET read == Messages(fifo, call.event.param)
      alt  == SelectLastInSeq(read, IsAltitude)
      tmp  == SelectLastInSeq(read, IsTemperature)
  IN
  /\ Running("dataReceived") /\ fifo' = Popped(fifo, call.event.param)
  /\ altimeter' = IF alt = 0 THEN altimeter ELSE ToInt(read[alt][3], read[alt][4])
  /\ temperature' = IF tmp = 0 THEN temperature ELSE read[tmp][3]
  /\ UNCHANGED <<step, retryCount, initFailed, chip, eeprom, put, sent, newest,
                 ordered, cut, reported>>

EventsHandled ==
  /\ step = "handling" /\ call.pc = "app" /\ step' = "raise"
  /\ UNCHANGED <<managerVars, retryCount, initFailed, chip, fifo, eeprom, put, sent,
                 altimeter, temperature, newest, ordered, cut, reported>>

\* raiseEvents() finds nothing to take: the start failed, the time has not come, or no frame is there.
NothingTaken ==
  /\ step = "raise" /\ step' = "output"
  /\ UNCHANGED <<managerVars, retryCount, initFailed, chip, fifo, eeprom, put, sent,
                 altimeter, temperature, newest, ordered, cut, reported>>

\* The frame at the head of the chip is taken, with what follows from it.
Take == /\ step = "raise" /\ ~initFailed /\ chip # <<>> /\ chip' = Tail(chip)
        /\ UNCHANGED <<listVars, call, highDue, turn, retryCount, initFailed, eeprom,
                       altimeter, temperature, reported>>

IsForSelf(f) == IsCommand(f) /\ Len(f.data) > 1 /\ f.data[2] % 16 = Self

TakeOther ==
  /\ Take /\ ~IsMessage(Head(chip)) /\ ~IsForSelf(Head(chip)) /\ step' = "output"
  /\ LET f == Head(chip) IN
     CASE f.kind = "remote"                   -> Raise(Event(RequestData, 0))
       [] f.kind = "data" /\ f.data = <<>>    -> Raise(Event(DataError, ZERO_LENGTH))
       [] IsCommand(f) /\ Len(f.data) = 1     -> Raise(Event(DataError, INVALID_COMMAND))
       [] OTHER                               -> RaiseNone
  /\ UNCHANGED <<fifo, put, sent, newest, ordered, cut>>

TakeMessage ==
  /\ Take /\ IsMessage(Head(chip)) /\ step' = "output"
  /\ LET m     == Head(chip).data
         after == push(fifo, m)
     IN /\ fifo' = after
        /\ IF after.overFlow THEN RaiseBoth(Event(DataReceived, after.num), Event(DataError, DATA_LOST))
           ELSE Raise(Event(DataReceived, after.num))
        /\ newest' = IF IsAltitude(m) THEN 256 * m[3] + m[4] ELSE newest
  /\ UNCHANGED <<put, sent, ordered, cut>>

\* EEPROM.put() writes the low byte of the word first.
\* Defect: the high byte goes first.
FaultyBytesOf(c, word) == << <<Following(c), word \div 256>>, <<c, word % 256>> >>
BytesOf(c, word) == << <<c, word % 256>>, <<Following(c), word \div 256>> >>

\* handleCommand(): any address will do, and what a short command leaves out, of the address
\* too, is what the stack held.
TakeCommand ==
  /\ Take /\ IsForSelf(Head(chip))
  /\ \E stray \in [1 .. 5 -> Stray] :
       LET data    == Head(chip).data
           byte(k) == IF k + 2 <= Len(data) THEN data[k + 2] ELSE stray[k]
           address == 256 * byte(2) + byte(3)
           word    == 256 * byte(4) + byte(5)
           cell    == Cell(address)
           covered == {cell, Following(cell)}
           set     == byte(1) = SET_SETTING_VALUE
           get     == byte(1) = GET_SETTING_VALUE
       IN /\ put' = IF set THEN BytesOf(cell, word) ELSE <<>>
          /\ sent' = IF get THEN sendMemValue(address, Word(eeprom, address)) ELSE sent
          /\ ordered' = [c \in Memory |-> IF set /\ c \in covered THEN Order(cell, word) ELSE ordered[c]]
          /\ cut' = IF set THEN cut \ covered ELSE cut
          /\ step' = IF set THEN "put" ELSE "output"
  /\ RaiseNone /\ UNCHANGED <<fifo, newest>>

\* The cells whose byte is still to be written.
Unwritten == {put[i][1] : i \in DOMAIN put}

\* EEPROM.put(), a byte at a time.
PutByte ==
  /\ step = "put" /\ put # <<>>
  /\ eeprom' = [eeprom EXCEPT ![put[1][1]] = put[1][2]] /\ put' = Tail(put)
  /\ step' = IF Len(put) = 1 THEN "output" ELSE step
  /\ UNCHANGED <<managerVars, retryCount, initFailed, chip, fifo, sent, altimeter,
                 temperature, newest, ordered, cut, reported>>

Output(due) ==
  /\ step = "output" /\ step' = "handle"
  /\ sent' = IF due THEN sendSensorFloat(SENSOR_ALTIMETER, 7) ELSE sent
  /\ UNCHANGED <<managerVars, retryCount, initFailed, chip, fifo, eeprom, put, altimeter,
                 temperature, newest, ordered, cut, reported>>

----------------------------------------------------------------------------
\* The chip keeps two frames; one more is lost.  As the node looks at the chip in one step of
\* its loop only, the frames may wait for that step to come in.
Receive(f) ==
  /\ step = "raise" /\ Len(chip) < RxBuffers /\ chip' = Append(chip, f)
  /\ UNCHANGED <<managerVars, step, retryCount, initFailed, fifo, eeprom, put, sent,
                 altimeter, temperature, newest, ordered, cut, reported>>

\* The RAM is lost, the EEPROM keeps the bytes written so far.
PowerLoss ==
  /\ queues' = [p \in Priorities |-> EmptyQueue] /\ mListeners' = <<>>
  /\ call' = InApp /\ turn' = NoTurn /\ highDue' = 0
  /\ step' = "begin" /\ retryCount' = 0 /\ initFailed' = FALSE
  /\ chip' = <<>> /\ fifo' = EmptyFifo /\ put' = <<>> /\ sent' = <<>>
  /\ altimeter' = 0 /\ temperature' = 0
  /\ newest' = 0 /\ reported' = FALSE
  /\ cut' = cut \union Unwritten
  /\ UNCHANGED <<mDefaultCallback, mDefaultCallbackEnabled, eeprom, ordered>>

NodeStep ==
  \/ \E ok \in BOOLEAN : TryBegin(ok)
  \/ HandleEvents \/ Handling \/ RemoteRequest \/ CanError \/ DataReceivedHandler \/ EventsHandled
  \/ NothingTaken \/ TakeOther \/ TakeMessage \/ TakeCommand \/ PutByte
  \/ \E due \in BOOLEAN : Output(due)

\* The node on a bus that carries these frames.
NodeNext(frames) == NodeStep \/ PowerLoss \/ \E f \in frames : Receive(f)

NodeSpec == NodeInit /\ [][NodeNext(Bus)]_<<managerVars, nodeVars>>

----------------------------------------------------------------------------
\* main.cpp:44 against CanSensor.cpp:23: from the frame in the chip through queue, event and
\* listener, the altitude is that of the last message, with its bytes in the other order.
AltitudeIsNewestSwapped ==
  step = "raise" => altimeter = ToInt(newest \div 256, newest % 256)

\* What an order says of a cell it covers.
ByteFor(order, c) == IF c = order.address THEN order.word % 256 ELSE order.word \div 256

\* CanSensor.cpp:328: every byte of the EEPROM is that of the last command that covered it, be
\* it one a byte off its setting or a short one that found its address on the stack, unless it
\* is still to be written or the power went before; and a word cut by the power has its low
\* byte new and its high byte old or both old, never the other way round.
SettingsAreOrdered ==
  /\ \A c \in Memory \ (cut \union Unwritten) : eeprom[c] = ByteFor(ordered[c], c)
  /\ \A c \in cut : ordered[c].address = c /\ ordered[Following(c)] = ordered[c]
                     => Following(c) \in cut

\* CanSensor.cpp:68 and main.cpp:94: the failed start is queued before there is a listener,
\* and told to it all the same.
FailureIsReported == initFailed ~> (reported \/ ~initFailed)
=============================================================================
