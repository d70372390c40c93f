------------------------------- MODULE QnhSync -------------------------------
(***************************************************************************)
(* The altimeter setting between the monitor, whose user dials it, and the *)
(* flight instruments, which use it, over a bus that loses frames.  Other  *)
(* nodes may send settings and the host may reset everything.              *)
(***************************************************************************)
EXTENDS QnhPanel, FlightInstruments

CONSTANTS StraySettings     \* what a node unknown to both may send

\* What the constants must satisfy, assumed where they get their values: whatever the panel can
\* dial, and the default, pass the range check of the instruments.
SyncAssumption ==
  /\ InstrumentAssumption /\ StraySettings \subseteq Nat
  /\ QnhMin \in Nat /\ QnhMax \in Nat /\ QnhDefault \in QnhMin .. QnhMax
  /\ InRange(DefaultPa) /\ \A q \in QnhMin .. QnhMax : InRange(100 * q)

VARIABLE foreign            \* history: a setting of an unknown node reached the instruments

syncVars == <<panelVars, instVars, foreign>>

SyncInit == PanelInit /\ InstInit /\ foreign = FALSE

\* The monitor's frame reaches the chip of the instruments, or is lost.
ToInstruments(frame) ==
  \/ canReady /\ Len(instRx) < RxBuffers /\ instRx' = Append(instRx, frame)
  \/ UNCHANGED instRx

instRest == <<canReady, qnhPa, qnhBroadcastTick, step>>

PanelOpens == Open /\ ToInstruments(sentQnh') /\ UNCHANGED <<instRest, panelRx, missed, foreign>>
PanelDials == /\ \E d \in {-1, 1} : Dial(d)
              /\ ToInstruments(sentQnh') /\ UNCHANGED <<instRest, panelRx, missed, foreign>>
PanelCloses == Close /\ UNCHANGED <<instVars, foreign>>

PanelHears == /\ panelRx # <<>> /\ Hear(Head(panelRx)) /\ panelRx' = Tail(panelRx)
              /\ UNCHANGED <<instRest, instRx, missed, foreign>>

\* RESET, the long press or power loss: what was heard is forgotten.
PanelBoots == Boot /\ panelRx' = <<>> /\ missed' = TRUE /\ UNCHANGED <<instRest, instRx, foreign>>

\* The command SYSRESET of the monitor: the instruments restart, the monitor goes on.
HostResets == ToInstruments(SysReset) /\ UNCHANGED <<panelVars, instRest, panelRx, missed, foreign>>

\* A setting of another node, heard by both, one of them or none.
Stray(q) ==
  /\ ToInstruments(q)
  /\ \/ /\ Len(panelRx) < RxBuffers /\ panelRx' = Append(panelRx, q)
        /\ missed' = (missed \/ instRx' = instRx)
     \/ UNCHANGED <<panelRx, missed>>
  /\ foreign' = (foreign \/ instRx' # instRx)
  /\ UNCHANGED <<panelVars, instRest>>

OnInstruments(A) == A /\ UNCHANGED <<panelVars, foreign>>

User == \/ PanelOpens \/ PanelDials \/ PanelCloses \/ PanelBoots \/ HostResets
        \/ OnInstruments(Setup) \/ (\E pa \in SerialSettings : OnInstruments(SerialLine(pa)))
        \/ \E q \in StraySettings : Stray(q)

SyncNext == User \/ PanelHears \/ OnInstruments(InstrumentLoop)

SyncSpec == SyncInit /\ [][SyncNext]_syncVars

\* A broadcast that arrives.
Delivery == OnInstruments(Interval) /\ Len(panelRx') > Len(panelRx)

----------------------------------------------------------------------------
\* main.cpp:136 against main.cpp:80 of the instruments: a setting from the bus is taken without
\* the range check of the serial line, so the range rests on the nodes that send one.
InstrumentQnhInRange == ~foreign => 100 * 800 < qnhPa /\ qnhPa < 100 * 1100

Settled == canReady /\ ~missed /\ instRx = <<>> /\ panelRx = <<>>

\* main.cpp:69: as the instruments tell every setting they take, the monitor knows it as soon
\* as both have emptied their chips, unless the frame that told it was lost.
NoLossNoDisagreement == Settled => receivedQnh = Hpa(qnhPa)

\* main.cpp:718 of the monitor sends a setting when the screen is merely opened: it is the one
\* in force, to the hectopascal, if the monitor can know it and could have dialled it.
OpeningKeepsSetting ==
  [][~editing /\ editing' /\ Settled /\ InPanelRange(Hpa(qnhPa)) => sentQnh' = Hpa(qnhPa)]_syncVars

\* main.cpp:163: whatever was lost, once nobody touches the setting the monitor comes to know it.
DisagreementEnds == <>[][~User]_syncVars => <>[](canReady => receivedQnh = Hpa(qnhPa))
=============================================================================
