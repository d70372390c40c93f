-------------------------- MODULE MCMessageStore ---------------------------
(***************************************************************************)
(* Two entries of two bytes, three identifiers (0 is what an unused entry  *)
(* holds), frames that are empty, short, full and longer than an entry.    *)
(***************************************************************************)
EXTENDS MessageStore

MCFrames == {[id |-> i, data |-> d] : i \in {0, 512, 1282},
                                      d \in {<<>>, <<7>>, <<5, 1>>, <<9, 2, 3>>}}
=============================================================================
