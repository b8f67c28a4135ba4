----------------------------- MODULE EventQueue -----------------------------
(***************************************************************************)
(* What an OpenXR application may rely on when it polls an instance's      *)
(* events: it gets them in the order in which they were pushed, each once, *)
(* and only the oldest ones are missing when it polled too late.           *)
(***************************************************************************)
EXTENDS Naturals, Sequences

CONSTANTS Events, Capacity, NoEvent

VARIABLES
    pending,    \* the events to be polled, oldest first
    polled      \* the event polled last

Newest(q) == IF Len(q) = Capacity THEN Tail(q) ELSE q

QueueInit == pending = <<>> /\ polled = NoEvent

Push(e) ==
    /\ pending' = Append(Newest(pending), e)
    /\ UNCHANGED polled

Poll ==
    /\ pending # <<>>
    /\ polled' = Head(pending)
    /\ pending' = Tail(pending)

\* The instance goes, and its events with it.
Discard == pending' = <<>> /\ polled' = NoEvent

QueueNext == Poll \/ Discard \/ \E e \in Events : Push(e)

QueueSpec == QueueInit /\ [][QueueNext]_<<pending, polled>>
=============================================================================
