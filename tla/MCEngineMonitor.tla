------------------------------- MODULE MCEngineMonitor -------------------------------
(* EngineMonitor on a bench. On the "sensing" bench every scene can follow every other and  *)
(* nobody sends requests; on the "service" bench the scene stays calm while a tool writes   *)
(* and reads the calibration words and the power comes and goes; one request is enough when  *)
(* a receiver listens too. With the offset -9680 the calm ambient temperature reads exactly  *)
(* the mark -999, and the oil sender of the last scene has an open circuit.                  *)
EXTENDS EngineMonitor

VARIABLE bench

MCConfigs == << [id |-> "AMB", pin |-> 7], [id |-> "EGT_1", pin |-> 2], [id |-> "CHT_1", pin |-> 3],
                [id |-> "OIL", pin |-> 4], [id |-> "CHT_2", pin |-> 20], [id |-> "CHT_3", pin |-> 21] >>
MCPins == {MCConfigs[i].pin : i \in DOMAIN MCConfigs}
Broken == [fault |-> "nan", current |-> 0, voltage |-> 12]
Normal(current) == [fault |-> "none", current |-> current, voltage |-> 12]
MCMeasurements == {Normal(74), Normal(95), Normal(20), Broken}
ChipOf(amb, egt, cht) ==
  [p \in MCPins |-> CASE p = 2 -> egt [] p = 3 -> cht [] p = 7 -> amb
                       [] OTHER -> [status |-> 0, temp |-> 998]]
Ok(t) == [status |-> 0, temp |-> t]
Failed(t) == [status |-> 129, temp |-> t]
Calm == [chip |-> ChipOf(Ok(-310), Ok(6502), Ok(999)), oil |-> Normal(74)]
MCScenes == {Calm, [chip |-> ChipOf(Ok(-312), Ok(9004), Failed(2000)), oil |-> Normal(95)],
             [chip |-> ChipOf(Failed(-300), Failed(0), Ok(1007)), oil |-> Broken],
             [Calm EXCEPT !.oil = Normal(20)]}
MCRequests == {[id |-> "SET_WORD", len |-> 4, addr |-> 341, lo |-> 44, hi |-> 1],
               [id |-> "SET_WORD", len |-> 4, addr |-> 337, lo |-> 48, hi |-> 218],
               [id |-> "SET_BYTE", len |-> 3, addr |-> 342, lo |-> 0, hi |-> 0],
               [id |-> "SET_WORD", len |-> 3, addr |-> 341, lo |-> 7, hi |-> 7],
               [id |-> "GET_WORD", len |-> 2, addr |-> 341, lo |-> 0, hi |-> 0],
               [id |-> "GET_BYTE", len |-> 2, addr |-> 342, lo |-> 0, hi |-> 0],
               [id |-> "TACHOMETER", len |-> 4, addr |-> 341, lo |-> 0, hi |-> 0]}

MCInit == Init /\ bench \in {"sensing", "service"}
Bench == UNCHANGED bench
MCLoop == /\ Bench
          /\ \/ Handle \/ SetupDone \/ ConfigDone \/ Send
             \/ \E scene \in IF bench = "sensing" THEN Scenes ELSE {Calm} : Sense(scene)
             \/ SetupSensor(Calm)
MCReceiver == Bench /\ Receiver
MCNext == \/ MCLoop \/ MCReceiver
          \/ Bench /\ bench = "service" /\ PowerLoss
          \/ Bench /\ bench = "service" /\ (recvReady => requested = 0)
             /\ \E f \in MCRequests : Request(f)
MCSpec == MCInit /\ [][MCNext]_<<vars, bench>>
=======================================================================================
