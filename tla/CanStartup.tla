----------------------------- MODULE CanStartup -----------------------------
(***************************************************************************)
(* The MCP2515 driver (CanBusMCP2515.h) and the start-up sequence that the *)
(* transmitting nodes run on it (runCanStartup in the TachometerInstrument *)
(* and the CanbusMonitor): loopback self-test, switch to the operating     *)
(* mode, SYSTEM_INIT broadcast and, in the monitor only, a second begin(). *)
(*                                                                         *)
(* The chip is outside the repository: any call on it may fail, and a mode *)
(* request that is reported as failed may still be honoured later, because *)
(* the request stays in its control register.  A module that EXTENDS this  *)
(* one adds the rest of its node and takes the actions below as the CAN    *)
(* part of its own steps.                                                  *)
(***************************************************************************)

CONSTANTS Reinit,      \* TRUE where runCanStartup ends in a second begin()
          FinalMode    \* the mode that second begin() asks for

ASSUME StartupAssumption == Reinit \in BOOLEAN /\ FinalMode \in {"normal", "listen"}

VARIABLES initialized, \* _initialized of the driver
          mode,        \* the operating mode the chip is in
          boot,        \* progress of runCanStartup
          verified,    \* this boot's test frame came back intact
          wire         \* kinds of frame this boot has put on the real bus

canVars == <<initialized, mode, boot, verified, wire>>

Modes      == {"config", "loopback", "normal", "listen"}
BootPhases == {"off", "begin", "send", "verify", "switch", "announce", "reinit",
               "ok", "failed"}

(***************************************************************************)
(* The driver.  Begin(m, ok, bad) is begin(speed, m): initCAN resets the   *)
(* chip, setMode asks for m, and only then is _initialized set; nothing    *)
(* ever clears it again.                                                   *)
(***************************************************************************)
BeginOK(m) == initialized' = TRUE /\ mode' = m

BeginFails(m) == UNCHANGED initialized /\ mode' \in {"config", m}

SetModeFails(m) == UNCHANGED initialized /\ mode' \in {mode, m}

\* transmitCANMessage: only in normal mode does a frame leave the chip.
Transmit(kind) == wire' = IF initialized /\ mode = "normal" THEN wire \union {kind} ELSE wire

isReady == initialized

----------------------------------------------------------------------------
CanInit == /\ initialized = FALSE /\ mode \in Modes
           /\ boot = "off" /\ verified = FALSE /\ wire = {}

EnterStartup == /\ boot = "off" /\ boot' = "begin"
                /\ UNCHANGED <<initialized, mode, verified, wire>>

\* Defect: the test runs in the operating mode, on the live bus.
FaultyBeginLoopback ==
  /\ boot = "begin"
  /\ \/ BeginOK("normal") /\ boot' = "send"
     \/ BeginFails("normal") /\ boot' = "failed"
  /\ UNCHANGED <<verified, wire>>

BeginLoopback ==
  /\ boot = "begin"
  /\ \/ BeginOK("loopback") /\ boot' = "send"
     \/ BeginFails("loopback") /\ boot' = "failed"
  /\ UNCHANGED <<verified, wire>>

\* Defect: the test frame is sent but never read back.
FaultySendTest ==
  /\ boot = "send"
  /\ \/ Transmit("TEST") /\ boot' = "switch"
     \/ UNCHANGED wire /\ boot' = "failed"
  /\ UNCHANGED <<initialized, mode, verified>>

SendTest ==
  /\ boot = "send"
  /\ \/ Transmit("TEST") /\ boot' = "verify"
     \/ UNCHANGED wire /\ boot' = "failed"
  /\ UNCHANGED <<initialized, mode, verified>>

\* The frame can come back only in loopback mode; delay(10) is the time it takes.
VerifyTest ==
  /\ boot = "verify"
  /\ \/ mode = "loopback" /\ verified' = TRUE /\ boot' = "switch"
     \/ UNCHANGED verified /\ boot' = "failed"
  /\ UNCHANGED <<initialized, mode, wire>>

SwitchToNormal ==
  /\ boot = "switch"
  /\ \/ UNCHANGED initialized /\ mode' = "normal" /\ boot' = "announce"
     \/ SetModeFails("normal") /\ boot' = "failed"
  /\ UNCHANGED <<verified, wire>>

\* The result of sending SYSTEM_INIT is ignored.
Announce ==
  /\ boot = "announce"
  /\ Transmit("SYSTEM_INIT") \/ UNCHANGED wire
  /\ boot' = IF Reinit THEN "reinit" ELSE "ok"
  /\ UNCHANGED <<initialized, mode, verified>>

BeginFinal ==
  /\ boot = "reinit"
  /\ \/ BeginOK(FinalMode) /\ boot' = "ok"
     \/ BeginFails(FinalMode) /\ boot' = "failed"
  /\ UNCHANGED <<verified, wire>>

StartupStep == \/ EnterStartup \/ BeginLoopback \/ SendTest \/ VerifyTest
               \/ SwitchToNormal \/ Announce \/ BeginFinal

\* Power loss or reset of the processor.  The chip keeps its mode until initCAN.
CanReset == /\ initialized' = FALSE /\ boot' = "off" /\ verified' = FALSE /\ wire' = {}
            /\ UNCHANGED mode

----------------------------------------------------------------------------
CanTypeOK == /\ initialized \in BOOLEAN /\ mode \in Modes /\ boot \in BootPhases
             /\ verified \in BOOLEAN /\ wire \subseteq {"TEST", "SYSTEM_INIT", "DATA"}

\* A node whose start-up succeeded has passed the loopback test and drives a chip in
\* its operating mode (runCanStartup returns true on no other path).
OperationalMeansTested ==
  boot = "ok" => /\ verified /\ initialized
                 /\ mode = IF Reinit THEN FinalMode ELSE "normal"

\* Until the loopback test has passed nothing the node sends reaches the real bus,
\* although the driver counts itself ready from the first begin() on.
QuietUntilTested == (~verified => wire = {}) /\ "TEST" \notin wire
=============================================================================
