------------------------------- MODULE EventFifo -------------------------------
(***************************************************************************)
(* What the event queue (src/src/events/SDL_events.c) promises, whatever   *)
(* else is in it: a bounded queue that any thread may put events in, from  *)
(* which each event is handed out at most once and in the order they were  *)
(* put in, unless the app discards it.                                     *)
(***************************************************************************)
EXTENDS Naturals, Sequences, SequencesExt, Lists

CONSTANTS Events, MaxQueued

VARIABLES fifo,      \* the events that are queued
          delivered  \* the events handed to the app, in order

vars == <<fifo, delivered>>

Init == fifo = <<>> /\ delivered = <<>>

\* An event is put in once.
Put(e) ==
    /\ e \notin ToSet(fifo) \cup ToSet(delivered)
    /\ Len(fifo) < MaxQueued
    /\ fifo' = Append(fifo, e)
    /\ UNCHANGED delivered

Take ==
    /\ fifo # <<>>
    /\ delivered' = Append(delivered, Head(fifo))
    /\ fifo' = Tail(fifo)

\* The app discards the events of D; the others keep their order.
Discard(D) ==
    /\ fifo' = Without(fifo, D)
    /\ UNCHANGED delivered

Next ==
    \/ \E e \in Events : Put(e)
    \/ Take
    \/ \E D \in SUBSET Events : Discard(D)

Spec == Init /\ [][Next]_vars
=============================================================================
