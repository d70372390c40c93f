------------------------------ MODULE Controls ------------------------------
(***************************************************************************)
(* The controls library: a rotary encoder with a push button, which polls  *)
(* its pins in Loop() and queues events in an event manager of its own.    *)
(* The knob goes through four phases from one rest to the next; the        *)
(* clock is millis(), which wraps.                                         *)
(***************************************************************************)
EXTENDS EventManager

CONSTANTS ClockMod,       \* millis() counts modulo this: 2^32
          debounceDelay,
          MaxIdle,        \* Loop() runs at least once in so many milliseconds
          MaxPhase,       \* bound on the turns of the knob
          MaxCounter      \* bound on rotaryCounter: Loop() is not called beyond it

VARIABLES now, idle,      \* the clock, and the time since Loop() was called
          keyDown,        \* the key pin is low
          phase,          \* position of the knob, in quarters of a cycle
          wiring,         \* "button": no encoder pins; "encoder": no key pin; "both"
          begun,          \* Begin() was called
          lastDebounceTime, lastState, buttonState, errorCode,
          lastRotaryState, rotaryCounter, lastRotaryCounter,
          lastKey,        \* history: the last key event queued
          wasReset,       \* history: Reset() was called since
          steady,         \* history: time since a sample of the key differed from the last
          raced,          \* history: the clock ticked within the Loop() that saw a change
          seen, origin,   \* history: the phase last counted, and that at Begin()
          missed,         \* history: the knob turned on before its phase was counted
          refused         \* history: a queue was too full for an event

buttonVars == <<lastDebounceTime, lastState, buttonState, errorCode>>
rotaryVars == <<lastRotaryState, rotaryCounter, lastRotaryCounter>>
histories  == <<lastKey, wasReset, steady, raced, seen, origin, missed, refused>>
pinVars    == <<now, idle, keyDown, phase, wiring>>
controlVars == <<pinVars, begun, buttonVars, rotaryVars, histories>>

KeyPress == 201
KeyRelease == 202
Menu0 == 215

\* What the controls queue is among the events.
ASSUME ControlsAssumption ==
  /\ ClockMod \in Nat \ {0} /\ debounceDelay \in Nat
  /\ MaxPhase \in Nat \ {0} /\ MaxCounter \in Nat /\ MaxIdle \in Nat
  /\ \A c \in {KeyPress, KeyRelease} : [code |-> c, param |-> 0] \in Events
  /\ \A n \in -(MaxCounter + 1) .. MaxCounter + 1 : [code |-> Menu0, param |-> n] \in Events

NotSeen == MaxPhase + 1

\* A pin is low (true) while its contact is closed: A in the phases 1 and 2, B in 2 and 3.
PinA(p) == p % 4 \in {1, 2}
PinB(p) == p % 4 \in {2, 3}

HasEncoder == wiring # "button"

ControlsInit ==
  /\ now = 0 /\ idle = 0 /\ phase \in {0, 1}
  /\ wiring \in {"button", "encoder", "both"} /\ keyDown \in BOOLEAN
  /\ (wiring = "button" => phase = 0) /\ begun = FALSE
  /\ lastDebounceTime = 0 /\ lastState = FALSE /\ buttonState = FALSE /\ errorCode = 0
  /\ lastRotaryState = FALSE /\ rotaryCounter = 0 /\ lastRotaryCounter = 0
  /\ lastKey = KeyRelease /\ wasReset = FALSE /\ steady = 0 /\ raced = FALSE
  /\ seen = NotSeen /\ origin = phase /\ missed = FALSE /\ refused = FALSE

\* ButtonControl::Reset(): the key counts as released, and nobody is told.
ResetButton == /\ errorCode' = 0 /\ lastDebounceTime' = 0
               /\ lastState' = FALSE /\ buttonState' = FALSE

\* Begin() of an encoder keeps the level of pin A, high for an open contact, where Loop()
\* keeps whether the contact is closed; without a key pin it does not come to Reset().
\* Defect: the level of pin A is not read.
FaultyBegin ==
  /\ call.pc = "app" /\ ~begun /\ begun' = TRUE
  /\ rotaryCounter' = 0 /\ lastRotaryState' = FALSE
  /\ IF wiring = "encoder" THEN UNCHANGED buttonVars ELSE ResetButton
  /\ seen' = NotSeen /\ origin' = phase /\ missed' = FALSE
  /\ UNCHANGED <<managerVars, pinVars, lastRotaryCounter, lastKey, wasReset, steady, raced, refused>>
Begin ==
  /\ call.pc = "app" /\ ~begun /\ begun' = TRUE
  /\ rotaryCounter' = 0 /\ lastRotaryState' = (HasEncoder /\ ~PinA(phase))
  /\ IF wiring = "encoder" THEN UNCHANGED buttonVars ELSE ResetButton
  /\ seen' = NotSeen /\ origin' = phase /\ missed' = FALSE
  /\ UNCHANGED <<managerVars, pinVars, lastRotaryCounter, lastKey, wasReset, steady, raced, refused>>

\* Reset() "for error recovery": the application calls it when it finds an error code.
Reset ==
  /\ call.pc = "app" /\ errorCode # 0 /\ ResetButton /\ wasReset' = TRUE
  /\ UNCHANGED <<managerVars, pinVars, begun, rotaryVars, lastKey, steady, raced, seen, origin,
                 missed, refused>>

Since(time) == (time - lastDebounceTime) % ClockMod

KeyEvent == [code |-> IF keyDown THEN KeyPress ELSE KeyRelease, param |-> 0]

\* What LoopEncoder() makes of the pins, with q the queue it may add to.
Counted(q) ==
  LET closed == PinA(phase)
      count  == rotaryCounter + (IF PinB(phase) # closed THEN 1 ELSE -1)
      event  == closed /\ count # lastRotaryCounter
      lost   == event /\ isFull(q)
  IN  IF ~HasEncoder \/ Since(now) <= debounceDelay \/ closed = lastRotaryState
      THEN [q |-> q, state |-> lastRotaryState, count |-> rotaryCounter,
            last |-> lastRotaryCounter, lost |-> FALSE]
      ELSE [q |-> IF event THEN queueEvent(q, [code |-> Menu0, param |-> count]) ELSE q,
            state |-> IF lost THEN lastRotaryState ELSE closed, count |-> count,
            last |-> IF event THEN count ELSE lastRotaryCounter, lost |-> lost]
\* Defect: the pin is compared with the debounced state.
FaultyKeyChanged == keyDown # buttonState
KeyChanged == keyDown # lastState

\* The debounce time, the clock ticking t times between the two calls of millis().
\* Defect: a change does not start it anew.
FaultySteadyFor(t) == Since(now)
SteadyFor(t) == IF KeyChanged THEN (0 - t) % ClockMod ELSE Since(now)

\* Defect: the error code of a lost release is left out.
FaultyKeyError(lost) == IF lost /\ keyDown THEN 1 ELSE errorCode
KeyError(lost) == IF ~lost THEN errorCode ELSE IF keyDown THEN 1 ELSE 2

\* What ButtonControl::Loop() makes of the key pin.  A key event that finds the queue full is
\* gone: the state has changed.
Keyed(q, t) ==
  LET event == SteadyFor(t) > debounceDelay /\ keyDown # buttonState
      lost  == event /\ isFull(q)
  IN  [q |-> IF event THEN queueEvent(q, KeyEvent) ELSE q,
       state |-> IF event THEN keyDown ELSE buttonState,
       told |-> event /\ ~lost, lost |-> lost, error |-> KeyError(lost)]

WithinBound == rotaryCounter \in -MaxCounter .. MaxCounter

\* RotaryEncoder::Loop(), first half: LoopEncoder().
LoopEncoder ==
  LET low == queues["low"]
      enc == Counted(low)
  IN
  /\ call.pc = "app" /\ begun /\ HasEncoder /\ WithinBound
  /\ call' = [call EXCEPT !.pc = "key"]
  /\ queues' = [queues EXCEPT !["low"] = enc.q]
  /\ lastRotaryState' = enc.state /\ rotaryCounter' = enc.count /\ lastRotaryCounter' = enc.last
  /\ seen' = IF enc.state = PinA(phase) THEN phase ELSE seen
  /\ refused' = (refused \/ enc.lost)
  /\ UNCHANGED <<listVars, highDue, turn, pinVars, begun, buttonVars, lastKey, wasReset,
                 steady, raced, origin, missed>>

\* Second half, and all of Loop() for a button alone: ButtonControl::Loop().
ButtonLoop(t) ==
  LET low == queues["low"]
      key == Keyed(low, t)
  IN
  /\ begun /\ call.pc = IF HasEncoder THEN "key" ELSE "app"
  /\ t = 1 => KeyChanged
  /\ call' = InApp
  /\ queues' = [queues EXCEPT !["low"] = key.q]
  /\ lastState' = keyDown /\ buttonState' = key.state /\ errorCode' = key.error
  /\ lastDebounceTime' = IF KeyChanged THEN (now + t) % ClockMod ELSE lastDebounceTime
  /\ now' = (now + t) % ClockMod /\ idle' = t
  /\ lastKey' = IF key.told THEN KeyEvent.code ELSE lastKey
  /\ wasReset' = (wasReset /\ ~key.told)
  /\ steady' = IF KeyChanged THEN 0 ELSE steady
  /\ raced' = (KeyChanged /\ t = 1)
  /\ refused' = (refused \/ key.lost)
  /\ UNCHANGED <<listVars, highDue, turn, keyDown, phase, wiring, begun, rotaryVars, seen,
                 origin, missed>>

----------------------------------------------------------------------------
(* The surroundings.  While events are dispatched no pin and no clock is     *)
(* read, so both may wait for that; the clock may tick between the halves of  *)
(* Loop(), where a pin that moves has moved before or after for all to see.   *)

Tick ==
  /\ call.pc \in {"app", "key"} /\ begun /\ idle < MaxIdle
  /\ now' = (now + 1) % ClockMod /\ idle' = idle + 1
  /\ steady' = IF steady <= debounceDelay THEN steady + 1 ELSE steady
  /\ UNCHANGED <<managerVars, keyDown, phase, wiring, begun, buttonVars, rotaryVars, lastKey,
                 wasReset, raced, seen, origin, missed, refused>>

\* A stray level read for a pin that is not there does not change.
MoveKey ==
  /\ call.pc = "app" /\ wiring # "encoder" /\ keyDown' = ~keyDown
  /\ UNCHANGED <<managerVars, now, idle, phase, wiring, begun, buttonVars, rotaryVars, histories>>

Turn(d) ==
  /\ call.pc = "app" /\ HasEncoder /\ begun /\ phase + d \in 0 .. MaxPhase
  /\ phase' = phase + d /\ missed' = (missed \/ seen # phase)
  /\ UNCHANGED <<managerVars, now, idle, keyDown, wiring, begun, buttonVars, rotaryVars, lastKey,
                 wasReset, steady, raced, seen, origin, refused>>

Dispatched == Dispatch /\ UNCHANGED controlVars

\* The control, its manager, the application that uses both, and interrupts that queue events.
ControlsNext ==
  \/ EMNext /\ UNCHANGED controlVars
  \/ Begin \/ Reset \/ LoopEncoder \/ \E t \in 0 .. 1 : ButtonLoop(t)
  \/ Tick \/ MoveKey \/ \E d \in {-1, 1} : Turn(d)

ControlsSpec ==
  /\ \E table \in Seq(ListenerItem) : Len(table) <= kMaxListeners /\ EMInit(table)
  /\ ControlsInit /\ [][ControlsNext]_<<managerVars, controlVars>>

----------------------------------------------------------------------------
\* button.cpp:62 to 78 and :34: listeners that hold the key for up while ButtonState() says it
\* is down missed a press, and the error code says so, whatever was lost or reset before.  When
\* they hold it for down and it is up they missed a release, and the error code says so until
\* Reset(), which tells nobody: only then may they be wrong without a sign, until they are told
\* of the key again.
EventsTellState ==
  /\ buttonState /\ lastKey = KeyRelease => errorCode = 1
  /\ ~buttonState /\ lastKey = KeyPress => errorCode = 2 \/ wasReset

\* Closings and openings of contact A between rest and phase p, each seen with B.
Edges(p) == 2 * (p \div 4) + (CASE p % 4 = 0 -> 0 [] p % 4 = 3 -> 2 [] OTHER -> 1)

\* rotary.cpp:69: polled in every phase, and with room for its events, the encoder counts the
\* edges of contact A in the direction they were turned; Begin() adds one edge that was none.
CounterFollowsKnob ==
  HasEncoder /\ begun /\ ~missed /\ ~refused /\ seen = phase
    => rotaryCounter = Edges(phase) - Edges(origin)
                       + (IF PinB(origin) # PinA(origin) THEN 1 ELSE -1)

\* button.cpp:59: a press is reported when Loop() has sampled the key down for longer than
\* the delay, or when the clock ticked between the two calls of millis() in a Loop() that
\* saw it go down: the unsigned difference is then the largest there is.
PressIsDebouncedUnlessRaced ==
  [][buttonState' /\ ~buttonState => steady' > debounceDelay \/ raced']_controlVars

\* button.cpp:49: a key held down is reported, whatever it did before and however the clock
\* wraps, unless an error code stands.
HeldKeyIsReported ==
  <>[](begun /\ keyDown /\ errorCode = 0 /\ WithinBound) => <>[]buttonState

\* controls.h:111 promises "reliable button input with automatic debouncing": a press is only
\* reported for a key that was sampled down for longer than the delay.
PressIsDebounced == [][buttonState' /\ ~buttonState => steady' > debounceDelay]_controlVars
=============================================================================
