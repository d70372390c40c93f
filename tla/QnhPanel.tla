------------------------------- MODULE QnhPanel -------------------------------
(***************************************************************************)
(* The altimeter setup of the monitor as the rest of the bus sees it: a    *)
(* setting that is edited or not, the last setting heard, and the settings *)
(* it sends.  CanbusMonitor implements it, whatever else its loop is doing.*)
(***************************************************************************)
EXTENDS Integers

CONSTANTS QnhMin, QnhMax, QnhDefault   \* QNH_MIN_HPA, QNH_MAX_HPA, QNH_DEFAULT_HPA

VARIABLES editing, setupQnh, receivedQnh,
          sentQnh        \* the last setting sent, 0 for none since the restart

panelVars == <<editing, setupQnh, receivedQnh, sentQnh>>

Boot == /\ editing' = FALSE /\ setupQnh' = QnhDefault
        /\ receivedQnh' = 0 /\ sentQnh' = 0

PanelInit == editing = FALSE /\ setupQnh = QnhDefault /\ receivedQnh = 0 /\ sentQnh = 0

InPanelRange(q) == QnhMin <= q /\ q <= QnhMax

\* Defect: the last setting of this panel is edited further, not the last one heard.
FaultyOpenedWith == setupQnh
OpenedWith == IF InPanelRange(receivedQnh) THEN receivedQnh ELSE setupQnh

\* Opening the screen sends at once.
Open == /\ ~editing /\ editing' = TRUE
        /\ setupQnh' = OpenedWith /\ sentQnh' = OpenedWith
        /\ UNCHANGED receivedQnh

Dialled(step) == IF setupQnh + step < QnhMin THEN QnhMin
                 ELSE IF setupQnh + step > QnhMax THEN QnhMax ELSE setupQnh + step

Dial(step) == /\ editing
              /\ setupQnh' = Dialled(step) /\ sentQnh' = Dialled(step)
              /\ UNCHANGED <<editing, receivedQnh>>

Close == editing /\ editing' = FALSE /\ UNCHANGED <<setupQnh, receivedQnh, sentQnh>>

\* A setting heard is noted, in range or not; it does not disturb the one being edited.
Hear(q) == receivedQnh' = q /\ UNCHANGED <<editing, setupQnh, sentQnh>>
Words == 0 .. 256 * 256 - 1    \* uint16_t
HearAny == receivedQnh' \in Words /\ UNCHANGED <<editing, setupQnh, sentQnh>>

PanelNext == Boot \/ Open \/ (\E step \in {-1, 1} : Dial(step)) \/ Close \/ HearAny

PanelSpec == PanelInit /\ [][PanelNext]_panelVars
=============================================================================
