---------------------------- MODULE LatestFrames ----------------------------
(***************************************************************************)
(* What the monitor's message store promises (CanMessageStore.h, lines 7   *)
(* and 8): the most recent frame of every identifier it tracks, up to      *)
(* Capacity identifiers; a new identifier beyond the limit is dropped.  Of *)
(* a frame the first Width bytes count.                                    *)
(***************************************************************************)
EXTENDS Integers, Sequences, FiniteSets

CONSTANTS Frames,    \* the frames that may be received: records [id, data]
          Capacity, Width

VARIABLES latest,    \* tracked identifier -> payload of its most recent frame
          handled    \* the frame handed over last: <<m>>, or <<>> after Forget

Payload(m) == [b \in 1 .. (IF Len(m.data) < Width THEN Len(m.data) ELSE Width) |-> m.data[b]]

Room(id) == id \in DOMAIN latest \/ Cardinality(DOMAIN latest) < Capacity

LFInit == latest = <<>> /\ handled = <<>>

Remember(m) ==
  /\ Room(m.id) /\ handled' = <<m>>
  /\ latest' = [i \in DOMAIN latest \union {m.id} |-> IF i = m.id THEN Payload(m) ELSE latest[i]]

Ignore(m) == ~Room(m.id) /\ handled' = <<m>> /\ UNCHANGED latest

Forget == latest' = <<>> /\ handled' = <<>>

LFNext == Forget \/ \E m \in Frames : Remember(m) \/ Ignore(m)

LFSpec == LFInit /\ [][LFNext]_<<latest, handled>>
=============================================================================
