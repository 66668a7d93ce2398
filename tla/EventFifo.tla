------------------------------ MODULE EventFifo ------------------------------
(***************************************************************************)
(* What the event queue of wireless.c promises: a first-in first-out queue *)
(* of at most Capacity events that always accepts, and that forgets its    *)
(* oldest event, never the newest, when one too many is put in.            *)
(***************************************************************************)
EXTENDS Naturals, Sequences

CONSTANTS
    Capacity,  \* how many events it holds
    Event

VARIABLES
    pending,   \* the events not yet handled, oldest first
    event      \* the event last handed to wireless_event_task

\* q after e arrives: the oldest event makes room when q is full.
Push(q, e) == Append(IF Len(q) = Capacity THEN Tail(q) ELSE q, e)

Init ==
    /\ pending = <<>>
    /\ event \notin Event

Enqueue(e) ==
    /\ pending' = Push(pending, e)
    /\ UNCHANGED event

Dequeue ==
    /\ pending # <<>>
    /\ event' = Head(pending)
    /\ event' \in Event
    /\ pending' = Tail(pending)

Next == (\E e \in Event : Enqueue(e)) \/ Dequeue

Spec == Init /\ [][Next]_<<pending, event>>
=============================================================================
