---------------------------- MODULE MessageStore ----------------------------
(***************************************************************************)
(* The message store on its own, under any sequence of update() and        *)
(* clear(), with a history variable for the call made last, and the        *)
(* promise its comment makes, LatestFrames, as its abstract specification. *)
(***************************************************************************)
EXTENDS CanMessageStore

VARIABLE handled   \* history: <<m>> after update(m), <<>> after clear()

vars == <<slots, count, handled>>

Init == StoreInit /\ handled = <<>>

Updated(m) == update(m) /\ handled' = <<m>>
Cleared    == clear /\ handled' = <<>>

Next == Cleared \/ \E m \in Frames : Updated(m)

Spec == Init /\ [][Next]_vars

----------------------------------------------------------------------------
Store == INSTANCE LatestFrames WITH
           Capacity <- MaxTracked, Width <- EntryBytes,
           latest   <- [id \in Tracked |-> FrameOf(EntryOf(id))]

\* CanMessageStore.h:7: the store keeps the most recent frame of each identifier, in
\* spite of the stale bytes its array is full of.
ImplementsLatestFrames == Store!LFSpec
=============================================================================
