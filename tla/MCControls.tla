----------------------------- MODULE MCControls -----------------------------
(***************************************************************************)
(* The event manager and the controls on four benches.  "queues": events   *)
(* of both priorities arrive from interrupts while fixed listeners are     *)
(* called.  "table": one event at a time, while the application and its    *)
(* listeners change the table.  "button", "encoder" and "both": a control  *)
(* with its own manager, whose application polls and processes at will.    *)
(***************************************************************************)
EXTENDS Controls

CONSTANTS f, g

VARIABLE bench

MCCodes == {1, 2}
MCEvents == {[code |-> c, param |-> 0] : c \in {1, 2}}
              \union {[code |-> c, param |-> 0] : c \in {KeyPress, KeyRelease}}
              \union {[code |-> Menu0, param |-> n] : n \in -(MaxCounter + 1) .. MaxCounter + 1}

Listener(cb, code) == [callback |-> cb, eventCode |-> code, enabled |-> TRUE]

Wirings == {"button", "encoder", "both"}

MCInit ==
  /\ bench \in {"queues", "table"} \union Wirings
  /\ EMInit(CASE bench = "queues" -> <<Listener(f, 1)>>
              [] bench = "table" -> <<>>
              [] OTHER -> <<Listener(f, KeyPress), Listener(g, Menu0)>>)
  /\ (bench # "table" => ~mDefaultCallbackEnabled)
  /\ ControlsInit
  /\ IF bench \in Wirings THEN wiring = bench /\ (bench = "both" => phase = 0) ELSE wiring = "button" /\ ~keyDown

Post == \/ /\ bench = "queues"
           /\ \E p \in Priorities, c \in MCCodes : QueueEvent(p, [code |-> c, param |-> 0])
        \/ /\ bench = "table" /\ call.pc = "app"
           /\ QueueEvent("low", [code |-> 1, param |-> 0])

Library == /\ bench \notin Wirings /\ UNCHANGED controlVars
           /\ \/ Dispatch \/ \E all \in BOOLEAN : Process(all)
              \/ bench = "table" /\ AppCalls
Posts   == bench \notin Wirings /\ UNCHANGED controlVars /\ Post

\* The encoder alone is turned on when the last phase was counted; with the button it turns
\* at will, between two phases at rest, and
\* its application empties the queue before every Loop(), as controls.h:63 asks.
Knob(d) == CASE bench = "encoder" -> seen = phase [] OTHER -> phase + d <= 2

Polls == \/ (bench = "both" => isEmpty(queues["low"])) /\ LoopEncoder
         \/ \E t \in 0 .. 1 : ButtonLoop(t)

Processes == \E all \in BOOLEAN : (bench # "button" => all) /\ Process(all) /\ UNCHANGED controlVars

Control == /\ bench \in Wirings
           /\ \/ Begin \/ Reset \/ Tick \/ MoveKey \/ Dispatched \/ Polls \/ Processes
              \/ \E d \in {-1, 1} : Knob(d) /\ Turn(d)

MCvars == <<managerVars, controlVars, bench>>

MCNext == UNCHANGED bench /\ (Library \/ Posts \/ Control)

\* On a bench with a control the library's code runs on, the clock ticks, and the
\* application's loop() calls processAllEvents() and Loop() over and over.
OfControl(A) == UNCHANGED bench /\ bench \in Wirings /\ A
MCSpec == /\ MCInit /\ [][MCNext]_MCvars
          /\ WF_MCvars(OfControl(Begin \/ Dispatched))
          /\ WF_MCvars(OfControl(queues["low"].num > 0 /\ Processes))
          /\ SF_MCvars(OfControl(Polls)) /\ SF_MCvars(OfControl(Tick))
=============================================================================
