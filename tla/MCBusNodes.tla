------------------------------ MODULE MCBusNodes ------------------------------
(***************************************************************************)
(* Two benches: the altimeter panel of the monitor with the flight         *)
(* instruments and a bus between them that loses frames; and the mock.     *)
(***************************************************************************)
EXTENDS QnhSync, CanMock

VARIABLES bench

ASSUME NodesAssumption == SyncAssumption

MCvars == <<syncVars, mockVars, bench>>

MCDuration == [idle |-> 20, cruise |-> 20, overspeed |-> 4]
MCSettingCells == (256 .. 271) \union (337 .. 350)

MCInit == /\ bench \in {"qnh", "mock"}
          /\ SyncInit /\ MockInit
          /\ IF bench = "qnh" THEN ~running ELSE ~canReady

OnSync(A) == bench = "qnh" /\ A /\ UNCHANGED <<mockVars, bench>>

MCNext == \/ OnSync(SyncNext)
          \/ bench = "mock" /\ MockNext /\ UNCHANGED <<syncVars, bench>>

\* The loops run on, a second passes again and again, the monitor takes its frames, and the bus
\* does not lose every broadcast.
MCSpec == /\ MCInit /\ [][MCNext]_MCvars
          /\ WF_MCvars(OnSync(OnInstruments(InstrumentLoop)))
          /\ SF_MCvars(OnSync(OnInstruments(Interval)))
          /\ SF_MCvars(OnSync(Delivery))
          /\ WF_MCvars(OnSync(PanelHears))

===============================================================================
