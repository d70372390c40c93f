-------------------------- MODULE FlightInstruments --------------------------
(***************************************************************************)
(* The basic flight instruments: the altimeter setting, taken from the     *)
(* serial line or from the bus and broadcast whenever it is set and every  *)
(* tenth second.  The frames with temperatures and altitude are left out;  *)
(* that they take buffers and time on the bus is why a frame may be lost.  *)
(***************************************************************************)
EXTENDS Integers, Sequences

CONSTANTS SerialSettings,   \* what a line QNH=... may hold, in Pa; 0 for other lines
          DefaultPa,        \* DEFAULT_QNH_PA
          BroadcastEvery,   \* 10 intervals
          RxBuffers         \* 2: the receive buffers of a CAN chip

\* What the constants must satisfy, assumed where they get their values.
InstrumentAssumption ==
  /\ SerialSettings \subseteq Nat /\ DefaultPa \in Nat
  /\ BroadcastEvery \in Nat \ {0} /\ RxBuffers \in Nat \ {0}

VARIABLES canReady, qnhPa, qnhBroadcastTick,
          step,          \* the part of loop() that runs next
          instRx,        \* frames in the chip of the instruments: settings and SYSRESET
          panelRx,       \* settings in the chip of the monitor
          missed         \* history: the monitor missed the last setting the instruments took

instVars == <<canReady, qnhPa, qnhBroadcastTick, step, instRx, panelRx, missed>>

SysReset == -1   \* among the settings of a chip, which are 0 .. 65535

\* Pascal to the nearest hectopascal, in 16 bits.
Hpa(pa) == ((pa + 50) \div 100) % (256 * 256)

\* broadcastQnh(): a frame that finds no buffer, or is not sent, is lost; nobody tries again.
broadcastQnh(ready, pa) ==
  \/ ready /\ Len(panelRx) < RxBuffers /\ panelRx' = Append(panelRx, Hpa(pa)) /\ missed' = FALSE
  \/ UNCHANGED panelRx /\ missed' = TRUE

\* Defect: a setting that came from the bus is not told again.
FaultyApplyQnh(pa) ==
  /\ qnhPa' = pa
  /\ IF step = "serial" THEN broadcastQnh(canReady, pa) ELSE UNCHANGED <<panelRx, missed>>
applyQnh(pa) == qnhPa' = pa /\ broadcastQnh(canReady, pa)

InstInit ==
  /\ canReady \in BOOLEAN /\ qnhPa = DefaultPa /\ qnhBroadcastTick = 0 /\ step = "incoming"
  /\ instRx = <<>> /\ panelRx = <<>> /\ missed = TRUE

\* setup(), after SYSRESET or power loss; begin() empties the chip.
Setup ==
  /\ canReady' \in BOOLEAN /\ qnhPa' = DefaultPa /\ qnhBroadcastTick' = 0 /\ step' = "incoming"
  /\ instRx' = <<>> /\ broadcastQnh(canReady', DefaultPa)

\* checkIncoming(): a setting from the bus is taken as it is.
Incoming ==
  /\ step = "incoming"
  /\ \/ /\ canReady /\ instRx # <<>> /\ Head(instRx) # SysReset
        /\ applyQnh(100 * Head(instRx)) /\ instRx' = Tail(instRx) /\ step' = "serial"
        /\ UNCHANGED <<canReady, qnhBroadcastTick>>
     \/ /\ canReady /\ instRx # <<>> /\ Head(instRx) = SysReset /\ Setup
     \/ /\ ~canReady \/ instRx = <<>>
        /\ step' = "serial"
        /\ UNCHANGED <<canReady, qnhPa, qnhBroadcastTick, instRx, panelRx, missed>>

\* Defect: only the upper limit is tested.
FaultyInRange(pa) == pa < 100 * 1100
InRange(pa) == 100 * 800 < pa /\ pa < 100 * 1100

\* checkSerial(), one line; more may follow in the same pass.
SerialLine(pa) ==
  /\ step = "serial" /\ InRange(pa) /\ applyQnh(pa)
  /\ UNCHANGED <<canReady, qnhBroadcastTick, step, instRx>>

SerialDone == step = "serial" /\ step' = "interval"
              /\ UNCHANGED <<canReady, qnhPa, qnhBroadcastTick, instRx, panelRx, missed>>

\* Defect: the counter is not set back, and the broadcast comes only once.
FaultyInterval ==
  /\ step = "interval" /\ step' = "incoming"
  /\ qnhBroadcastTick' = IF qnhBroadcastTick > BroadcastEvery THEN qnhBroadcastTick ELSE qnhBroadcastTick + 1
  /\ IF qnhBroadcastTick + 1 = BroadcastEvery /\ canReady THEN broadcastQnh(TRUE, qnhPa)
     ELSE UNCHANGED <<panelRx, missed>>
  /\ UNCHANGED <<canReady, qnhPa, instRx>>

\* loop() once a second has passed.
Interval ==
  /\ step = "interval" /\ step' = "incoming"
  /\ qnhBroadcastTick' = (qnhBroadcastTick + 1) % BroadcastEvery
  /\ IF qnhBroadcastTick' = 0 /\ canReady THEN broadcastQnh(TRUE, qnhPa)
     ELSE UNCHANGED <<panelRx, missed>>
  /\ UNCHANGED <<canReady, qnhPa, instRx>>

NotYet == step = "interval" /\ step' = "incoming"
          /\ UNCHANGED <<canReady, qnhPa, qnhBroadcastTick, instRx, panelRx, missed>>

InstrumentLoop == Incoming \/ SerialDone \/ Interval \/ NotYet
=============================================================================
