--------------------------- MODULE MCCanbusMonitor ---------------------------
(***************************************************************************)
(* Small monitors with a store of two entries of one byte.  The bus run    *)
(* has frames of every sort (a QNH, a short one that is stored like data,  *)
(* two instruments, a command) and no user.  The controls run has a user   *)
(* and two sorts of monitors: those with a clock hear two instruments, and *)
(* those without hear an instrument, a valid and an invalid setting.       *)
(***************************************************************************)
EXTENDS CanbusMonitor

Frame(i, d) == [id |-> i, data |-> d]

MCBusFrames == {Frame(ALT_SETTING, <<245, 3>>), Frame(ALT_SETTING, <<1>>),
                Frame(512, <<1>>), Frame(ALT, <<1>>), Frame(CONFIG, <<1>>)}

Instruments == {Frame(ALT, <<1>>), Frame(512, <<1>>)}
Settings == {Frame(ALT, <<1>>), Frame(ALT_SETTING, <<246, 3>>), Frame(ALT_SETTING, <<1, 0>>)}
MCControlFrames == Instruments \union Settings

OnBench(m) == m \in IF rtc = "absent" THEN Settings ELSE Instruments

MCControlsNext == Processor \/ (\E m \in Frames : OnBench(m) /\ Arrive(m)) \/ Tick
MCControlsSpec == MonInit /\ [][MCControlsNext]_monVars

MCSteps == {-1, 0, 1}
=============================================================================
