--------------------------- MODULE CanMessageStore ---------------------------
(***************************************************************************)
(* The monitor's store of received frames (CanMessageStore.h): an array of *)
(* MaxTracked entries of which the first `count` are in use.  An entry     *)
(* keeps the first EntryBytes bytes of a frame and how many of them it     *)
(* carried; bytes past that length, and whole entries past `count`, keep   *)
(* whatever was there before.                                              *)
(***************************************************************************)
EXTENDS Integers, Sequences

CONSTANTS Frames,      \* the frames that may arrive: [id, data], data a sequence
          MaxTracked,  \* MAX_TRACKED_IDS
          EntryBytes   \* ENTRY_DATA_BYTES

Bytes == 0 .. 255

ASSUME StoreAssumption == /\ MaxTracked \in Nat \ {0} /\ EntryBytes \in Nat \ {0}
                          /\ \A m \in Frames : m.id \in Nat /\ m.data \in Seq(Bytes)

VARIABLES slots, count

storeVars == <<slots, count>>

Entry == [id : Nat, length : 0 .. EntryBytes, data : [1 .. EntryBytes -> Bytes]]

Kept(m) == IF Len(m.data) < EntryBytes THEN Len(m.data) ELSE EntryBytes

\* The memcpy of the frame's bytes over an entry.
Fill(e, m) == [id |-> m.id, length |-> Kept(m),
               data |-> [b \in 1 .. EntryBytes |-> IF b <= Kept(m) THEN m.data[b]
                                                   ELSE e.data[b]]]

Holds(i, m) == i <= count /\ slots[i].id = m.id

\* The entry the search finds is the first that holds the frame's identifier.
Refresh(m) ==
  \E i \in 1 .. MaxTracked :
    /\ Holds(i, m) /\ \A j \in 1 .. i - 1 : ~Holds(j, m)
    /\ slots' = [slots EXCEPT ![i] = Fill(slots[i], m)]
    /\ UNCHANGED count

IsNew(m) == \A i \in 1 .. MaxTracked : ~Holds(i, m)

Add(m) ==
  /\ IsNew(m) /\ count < MaxTracked
  /\ slots' = [slots EXCEPT ![count + 1] = Fill(slots[count + 1], m)]
  /\ count' = count + 1

\* Defect: an identifier that finds the array full takes over the last entry.
FaultyDrop(m) ==
  /\ IsNew(m) /\ count = MaxTracked
  /\ slots' = [slots EXCEPT ![MaxTracked] = Fill(slots[MaxTracked], m)]
  /\ UNCHANGED count

Drop(m) == IsNew(m) /\ count = MaxTracked /\ UNCHANGED storeVars

update(m) == Refresh(m) \/ Add(m) \/ Drop(m)

clear == count' = 0 /\ UNCHANGED slots

\* A global object: every byte is zero.
Zeroed == [i \in 1 .. MaxTracked |->
            [id |-> 0, length |-> 0, data |-> [b \in 1 .. EntryBytes |-> 0]]]

StoreInit == slots = Zeroed /\ count = 0

----------------------------------------------------------------------------
StoreTypeOK == slots \in [1 .. MaxTracked -> Entry] /\ count \in 0 .. MaxTracked

\* update() never leaves two used entries with one identifier, so a refreshed value has
\* no outdated twin further down the list the display scrolls through.
TrackedOnce == \A i, j \in 1 .. count : slots[i].id = slots[j].id => i = j

Tracked == {slots[i].id : i \in 1 .. count}

EntryOf(id) == CHOOSE i \in 1 .. count : slots[i].id = id

FrameOf(i) == [b \in 1 .. slots[i].length |-> slots[i].data[b]]
=============================================================================
