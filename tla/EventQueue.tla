----------------------------- MODULE EventQueue -----------------------------
(***************************************************************************)
(* The event ring of wireless.c: the radio driver (lkbt51.c) puts events   *)
(* in, wireless_event_task takes them out.  The ring is an array of slots  *)
(* with a head (next free slot) and a tail (oldest event); one slot        *)
(* always stays free, and an event that finds the ring full displaces the  *)
(* oldest one.                                                             *)
(***************************************************************************)
EXTENDS Ring

CONSTANTS
    EventSize,   \* WT_EVENT_QUEUE_SIZE (16 in the firmware)
    Event,       \* the events the driver can report
    NoEvent      \* a slot cleared by memset (evt_type 0)

\* The indices are uint8_t, so they can address at most 256 slots.
ASSUME EventSizeAssumption == EventSize \in 2 .. 256
ASSUME NoEventAssumption == NoEvent \notin Event

VARIABLES
    event_queue,   \* wireless_event_queue
    event_head,    \* wireless_event_queue_head
    event_tail,    \* wireless_event_queue_tail
    event          \* the out parameter of wireless_event_dequeue

eventVars == <<event_queue, event_head, event_tail, event>>

\* wireless_event_queue_init
EventInit ==
    /\ event_queue = [i \in Index(EventSize) |-> NoEvent]
    /\ event_head = 0
    /\ event_tail = 0
    /\ event = NoEvent

\* Mutant of EventEnqueue: the override forgotten, a full ring then looks empty.
EnqueueNoOverride(e) ==
    /\ event_queue' = [event_queue EXCEPT ![event_head] = e]
    /\ event_head' = Advance(event_head, EventSize)
    /\ UNCHANGED <<event_tail, event>>

\* wireless_event_enqueue: never refuses; when full, overrides the oldest.
EventEnqueue(e) ==
    /\ event_tail' = IF Advance(event_head, EventSize) = event_tail
                       THEN Advance(event_tail, EventSize) ELSE event_tail
    /\ event_queue' = [event_queue EXCEPT ![event_head] = e]
    /\ event_head' = Advance(event_head, EventSize)
    /\ UNCHANGED event

\* Mutant of EventDequeue: the emptiness test forgotten.
DequeueUnchecked ==
    /\ event' = event_queue[event_tail]
    /\ event_tail' = Advance(event_tail, EventSize)
    /\ UNCHANGED <<event_queue, event_head>>

\* wireless_event_dequeue, when it returns true.
EventDequeue ==
    /\ event_head # event_tail
    /\ event' = event_queue[event_tail]
    /\ event_tail' = Advance(event_tail, EventSize)
    /\ UNCHANGED <<event_queue, event_head>>

EventNext == (\E e \in Event : EventEnqueue(e)) \/ EventDequeue

EventSpec == EventInit /\ [][EventNext]_eventVars

-----------------------------------------------------------------------------

\* The indices address slots and the slots hold events.
EventTypeOK ==
    /\ event_queue \in [Index(EventSize) -> Event \cup {NoEvent}]
    /\ event_head \in Index(EventSize)
    /\ event_tail \in Index(EventSize)
    /\ event \in Event \cup {NoEvent}

\* Every slot between tail and head was written since the last wrap: the task
\* is never handed a cleared slot, which the switch would silently ignore.
PendingAreEvents ==
    \A i \in 1 .. Count(event_head, event_tail, EventSize) :
        Contents(event_queue, event_head, event_tail, EventSize)[i] \in Event

\* The ring behaves as the bounded FIFO that displaces its oldest event: the
\* arithmetic of head and tail never loses, repeats or reorders another one.
EFifo == INSTANCE EventFifo WITH
    Capacity <- EventSize - 1,
    pending <- Contents(event_queue, event_head, event_tail, EventSize)

ImplementsEventFifo == EFifo!Spec

=============================================================================
