---------------------------- MODULE MCCanSensor -----------------------------
(***************************************************************************)
(* The CanbusBasic example on four benches: a node that gets messages, a   *)
(* node that gets commands, the message queue alone with a slow reader,    *)
(* and the command handler alone.                                          *)
(***************************************************************************)
EXTENDS CanSensor, MessageQueue, CommandHandler

VARIABLE bench

MCSet(node, address, word) ==
  FrameOf("data", sendCommand(node, <<SET_SETTING_VALUE, address \div 256, address % 256,
                                      word \div 256, word % 256>>))
\* Settings lie at 256 and 258: a command is for one of them, a byte off, for another node, or short.
Commands == { MCSet(Self, 256, 300), MCSet(Self, 258, 2), MCSet(Self, 255, 515),
              MCSet(Self + 1, 256, 301),
              FrameOf("data", sendCommand(Self, <<SET_SETTING_VALUE, 1>>)),
              FrameOf("data", sendCommand(Self, <<GET_SETTING_VALUE, 1, 0>>)) }
Others == { FrameOf("data", sendSensorInteger(SENSOR_ALTIMETER, 513)),
            FrameOf("data", sendSensorFloat(17, 5)),
            FrameOf("data", <<>>), FrameOf("data", <<"C">>),
            FrameOf("remote", <<>>), FrameOf("foreign", <<"I", SENSOR_ALTIMETER, 9, 9>>) }
MCBus == Commands \union Others
MCBlank == <<"", 0, 0, 0>>
MCPayloads == {<<"S", 1>>, <<"S", 2>>}
MCOptions == << [command |-> <<"a", "b">>, partialMatch |-> FALSE, accepts |-> {}],
                [command |-> <<"a">>, partialMatch |-> TRUE, accepts |-> {<<"b">>, <<"b", "a">>}],
                [command |-> <<>>, partialMatch |-> TRUE, accepts |-> {<<"a", "a">>, <<"b">>}] >>

nodeAll == <<managerVars, nodeVars>>
MCvars  == <<nodeAll, queueVars, commandVars, bench>>

MCInit == NodeInit /\ QueueInit /\ CommandInit /\ bench \in {"messages", "settings", "queue", "console"}

OnNode(A) == bench \in {"messages", "settings"} /\ A /\ UNCHANGED <<queueVars, commandVars, bench>>

MCNext ==
  \/ bench = "messages" /\ OnNode(NodeNext(Others))
  \* Of commands, which change nothing while they wait, one at a time.
  \/ bench = "settings" /\ OnNode(NodeNext(IF chip = <<>> THEN Commands ELSE {}))
  \/ bench = "queue"   /\ QueueNext   /\ UNCHANGED <<nodeAll, commandVars, bench>>
  \/ bench = "console" /\ CommandNext /\ UNCHANGED <<nodeAll, queueVars, bench>>

\* The node's program runs on.
MCSpec == MCInit /\ [][MCNext]_MCvars /\ WF_MCvars(OnNode(NodeStep))
=============================================================================
