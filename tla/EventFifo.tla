----------------------------- MODULE EventFifo -----------------------------
(***************************************************************************)
(* What an event queue promises to whoever queues an event from normal     *)
(* code or from an interrupt (EventManager.h, lines 226 to 236): a queue   *)
(* of limited room, from which every accepted event is handed out once and *)
(* in the order of acceptance.                                             *)
(***************************************************************************)
EXTENDS Integers, Sequences

CONSTANTS Events,  \* the events that may be queued
          Room     \* the number of events that may wait

VARIABLES fifo,    \* the events accepted and not handed out
          given    \* the event handed out and not dealt with: <<e>>, or <<>>

EFInit == fifo = <<>> /\ given = <<>>

Accept(e) == Len(fifo) < Room /\ fifo' = Append(fifo, e) /\ UNCHANGED given

HandOut == given = <<>> /\ fifo /= <<>> /\ given' = <<Head(fifo)>> /\ fifo' = Tail(fifo)

Finish == given' = <<>> /\ UNCHANGED fifo

EFNext == HandOut \/ Finish \/ \E e \in Events : Accept(e)

EFSpec == EFInit /\ [][EFNext]_<<fifo, given>>
=============================================================================
