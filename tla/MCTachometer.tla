---------------------------- MODULE MCTachometer ----------------------------
(***************************************************************************)
(* A small tachometer: one board whose settings are valid and whose        *)
(* threshold is 9 RPM.  One pulse in two ticks is 4 RPM; a host changes    *)
(* its identifier.  Four pulses in two ticks overflow the result.          *)
(***************************************************************************)
EXTENDS Tachometer

Frame(k, n, a, l, h) == [kind |-> k, len |-> n, addr |-> a, lo |-> l, hi |-> h]

MCFrames == {Frame("SET_WORD", 4, CAN_ID, 2, 1)}

MCImages == {[c \in Cells |-> CASE c = Base        -> Magic
                                [] c = PULSES      -> 1
                                [] c = MAX_RPM     -> 1
                                [] c = MAX_RPM + 1 -> 2
                                [] c = CAN_ID      -> 1
                                [] OTHER           -> 0]}
=============================================================================
