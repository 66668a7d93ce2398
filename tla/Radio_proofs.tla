---------------------------- MODULE Radio_proofs ----------------------------
(***************************************************************************)
(* Proofs about what lies between the radio module and the rest.  For      *)
(* every array size from 2 to 256 and every set of elements, the event     *)
(* ring of wireless.c implements the bounded FIFO that displaces its       *)
(* oldest event and the ring of report_buffer.c the one that refuses when  *)
(* full.  For every buffer size and every header bytes can look like,      *)
(* lkbt51_task handles no packet whose header it has not just read.        *)
(***************************************************************************)
EXTENDS EventQueue, ReportQueue, PacketReader, SequenceTheorems, TLAPS

-----------------------------------------------------------------------------
\* What the ring arithmetic computes, for every array size: the lemmas on which
\* the refinement of both queues rests.

\* s2 is slots with e written at index h.
Writes(slots, h, e, s2, size) ==
    /\ s2[h] = e
    /\ \A i \in Index(size) : i # h => s2[i] = slots[i]

(* Advancing an index stays inside the array and wraps exactly at its end. *)
LEMMA AdvanceValue ==
    ASSUME NEW size \in Nat, size >= 2, NEW i \in Index(size)
    PROVE  /\ Advance(i, size) \in Index(size)
           /\ Advance(i, size) = IF i = size - 1 THEN 0 ELSE i + 1
  BY DEF Index, Advance

(* The element count of a ring, without the modulo. *)
LEMMA CountValue ==
    ASSUME NEW size \in Nat, size >= 2,
           NEW h \in Index(size), NEW t \in Index(size)
    PROVE  /\ Count(h, t, size) \in 0 .. size - 1
           /\ Count(h, t, size) = IF h >= t THEN h - t ELSE h - t + size
  BY DEF Index, Count

(* The slot of the element i places behind the oldest, without the modulo. *)
LEMMA SlotValue ==
    ASSUME NEW size \in Nat, size >= 2,
           NEW t \in Index(size), NEW i \in 1 .. size
    PROVE  /\ (t + i - 1) % size \in Index(size)
           /\ (t + i - 1) % size =
                IF t + i - 1 < size THEN t + i - 1 ELSE t + i - 1 - size
  BY DEF Index

(* The contents are a sequence of elements, as long as the count says. *)
LEMMA ContentsType ==
    ASSUME NEW size \in Nat, size >= 2, NEW S, NEW slots \in [Index(size) -> S],
           NEW h \in Index(size), NEW t \in Index(size)
    PROVE  /\ Contents(slots, h, t, size) \in Seq(S)
           /\ Len(Contents(slots, h, t, size)) = Count(h, t, size)
  <1>1. Count(h, t, size) \in Nat /\ Count(h, t, size) < size
    BY CountValue
  <1>2. \A i \in 1 .. Count(h, t, size) : slots[(t + i - 1) % size] \in S
    BY <1>1, SlotValue
  <1> QED
    BY <1>1, <1>2 DEF Contents

(* The contents are a sequence over T exactly when each element is in T. *)
LEMMA ContentsElements ==
    ASSUME NEW size \in Nat, size >= 2, NEW S, NEW slots \in [Index(size) -> S],
           NEW h \in Index(size), NEW t \in Index(size), NEW T
    PROVE  (\A i \in 1 .. Count(h, t, size) : Contents(slots, h, t, size)[i] \in T)
             <=> Contents(slots, h, t, size) \in Seq(T)
  <1>1. /\ Contents(slots, h, t, size) \in Seq(S)
        /\ Len(Contents(slots, h, t, size)) = Count(h, t, size)
    BY ContentsType
  <1> QED BY <1>1

(* Writing the free slot at head and advancing head appends the element,   *)
(* provided the ring was not full: the slot written holds no element.      *)
LEMMA ContentsAppend ==
    ASSUME NEW size, NEW S, NEW slots, NEW h, NEW t, NEW e, NEW s2,
           size \in Nat, size >= 2, slots \in [Index(size) -> S],
           h \in Index(size), t \in Index(size), e \in S,
           s2 \in [Index(size) -> S], Writes(slots, h, e, s2, size),
           Advance(h, size) # t
    PROVE  Contents(s2, Advance(h, size), t, size)
             = Append(Contents(slots, h, t, size), e)
  <1> DEFINE n  == Count(h, t, size)
             h2 == Advance(h, size)
             old == Contents(slots, h, t, size)
             new == Contents(s2, h2, t, size)
  <1>1. h2 \in Index(size) /\ h2 = IF h = size - 1 THEN 0 ELSE h + 1
    BY AdvanceValue
  <1>2. n \in Nat /\ n < size /\ n = IF h >= t THEN h - t ELSE h - t + size
    BY CountValue
  <1>3. Count(h2, t, size) = IF h2 >= t THEN h2 - t ELSE h2 - t + size
    BY <1>1, CountValue
  <1>4. Count(h2, t, size) = n + 1
    BY <1>1, <1>2, <1>3 DEF Index
  <1>5. old \in Seq(S) /\ Len(old) = n
    BY ContentsType
  <1>7. new \in Seq(S) /\ Len(new) = n + 1
    <2>1. new \in Seq(S) /\ Len(new) = Count(h2, t, size)
      BY <1>1, ContentsType
    <2> QED BY <1>4, <2>1
  <1>8. ASSUME NEW i \in 1 .. n + 1
        PROVE  new[i] = Append(old, e)[i]
    <2>1. new[i] = s2[(t + i - 1) % size]
      BY <1>4 DEF Contents
    <2>2. i \in 1 .. size
      BY <1>2
    <2>3. /\ (t + i - 1) % size \in Index(size)
          /\ (t + i - 1) % size =
               IF t + i - 1 < size THEN t + i - 1 ELSE t + i - 1 - size
      BY <2>2, SlotValue
    <2>4. CASE i = n + 1
      <3>1. (t + i - 1) % size = h
        BY <2>3, <2>4, <1>2 DEF Index
      <3>2. Append(old, e)[i] = e
        BY <1>5, <2>4
      <3> QED BY <2>1, <3>1, <3>2 DEF Writes
    <2>5. CASE i \in 1 .. n
      <3>1. (t + i - 1) % size # h
        BY <2>3, <2>5, <1>2 DEF Index
      <3>2. Append(old, e)[i] = old[i]
        BY <1>5, <2>5
      <3>3. old[i] = slots[(t + i - 1) % size]
        BY <2>5 DEF Contents
      <3> QED BY <2>1, <2>3, <3>1, <3>2, <3>3 DEF Writes
    <2>6. i = n + 1 \/ i \in 1 .. n
      BY <1>2
    <2> QED BY <2>4, <2>5, <2>6
  <1>9. Append(old, e) \in Seq(S) /\ Len(Append(old, e)) = n + 1
    BY <1>5
  <1> QED
    BY <1>7, <1>8, <1>9, SeqEqual

(* Advancing tail past the oldest element takes it off the front. *)
LEMMA ContentsTail ==
    ASSUME NEW size \in Nat, size >= 2, NEW S, NEW slots \in [Index(size) -> S],
           NEW h \in Index(size), NEW t \in Index(size), h # t,
           NEW t2 \in Index(size), t2 = Advance(t, size)
    PROVE  /\ Contents(slots, h, t, size) # <<>>
           /\ Head(Contents(slots, h, t, size)) = slots[t]
           /\ Contents(slots, h, t2, size)
                = Tail(Contents(slots, h, t, size))
  <1> DEFINE n  == Count(h, t, size)
             old == Contents(slots, h, t, size)
             new == Contents(slots, h, t2, size)
  <1>1. t2 \in Index(size) /\ t2 = IF t = size - 1 THEN 0 ELSE t + 1
    BY AdvanceValue
  <1>2. n \in Nat /\ n < size /\ n = IF h >= t THEN h - t ELSE h - t + size
    BY CountValue
  <1>3. Count(h, t2, size) = IF h >= t2 THEN h - t2 ELSE h - t2 + size
    BY <1>1, CountValue
  <1>4. n >= 1 /\ Count(h, t2, size) = n - 1
    BY <1>1, <1>2, <1>3 DEF Index
  <1>5. old \in Seq(S) /\ Len(old) = n
    BY ContentsType
  <1>6. new \in Seq(S) /\ Len(new) = n - 1
    BY <1>1, <1>4, ContentsType
  <1>7. old # <<>>
    BY <1>4, <1>5
  <1>8. Head(old) = slots[t]
    <2>1. old[1] = slots[(t + 1 - 1) % size]
      BY <1>4, <1>2 DEF Contents
    <2>2. (t + 1 - 1) % size = t
      BY SlotValue DEF Index
    <2> QED BY <1>5, <1>7, <2>1, <2>2
  <1>9. Tail(old) \in Seq(S) /\ Len(Tail(old)) = n - 1
    BY <1>4, <1>5, <1>7
  <1>10. ASSUME NEW i \in 1 .. n - 1
         PROVE  new[i] = Tail(old)[i]
    <2>1. new[i] = slots[(t2 + i - 1) % size]
      BY <1>4 DEF Contents
    <2>2. Tail(old)[i] = old[i + 1]
      BY <1>2, <1>5, <1>7
    <2>3. old[i + 1] = slots[(t + (i + 1) - 1) % size]
      BY <1>2 DEF Contents
    <2>4. (t2 + i - 1) % size =
            IF t2 + i - 1 < size THEN t2 + i - 1 ELSE t2 + i - 1 - size
      <3>1. i \in 1 .. size
        BY <1>2
      <3> QED BY <3>1, SlotValue
    <2>5. (t + (i + 1) - 1) % size =
            IF t + (i + 1) - 1 < size THEN t + (i + 1) - 1
                                      ELSE t + (i + 1) - 1 - size
      <3>1. i + 1 \in 1 .. size
        BY <1>2
      <3> QED BY <3>1, SlotValue
    <2>6. (t2 + i - 1) % size = (t + (i + 1) - 1) % size
      BY <1>1, <1>2, <2>4, <2>5 DEF Index
    <2> QED BY <2>1, <2>2, <2>3, <2>6
  <1>11. new = Tail(old)
    BY <1>4, <1>6, <1>9, <1>10, SeqEqual
  <1> QED BY <1>7, <1>8, <1>11

-----------------------------------------------------------------------------
\* The event ring.

EventSlot == Event \cup {NoEvent}

\* The inductive invariant: the types, and no cleared slot from tail to head.
EventInv == EventTypeOK /\ PendingAreEvents

(* The array has at least two slots.                                        *)
LEMMA EventSizeFact == EventSize \in Nat /\ EventSize >= 2
  BY EventSizeAssumption

(* The types, in the form in which the ring lemmas want them. *)
LEMMA EventRingFacts ==
    ASSUME EventTypeOK
    PROVE  /\ event_queue \in [Index(EventSize) -> EventSlot]
           /\ event_head \in Index(EventSize)
           /\ event_tail \in Index(EventSize)
  BY DEF EventTypeOK, EventSlot

(* A full ring is one whose contents have EventSize - 1 events. *)
LEMMA EventsFull ==
    ASSUME EventTypeOK
    PROVE  (Advance(event_head, EventSize) = event_tail)
             <=> Len(Contents(event_queue, event_head, event_tail, EventSize)) = EventSize - 1
  <1>1. Len(Contents(event_queue, event_head, event_tail, EventSize))
          = Count(event_head, event_tail, EventSize)
    BY EventRingFacts, EventSizeFact, ContentsType
  <1>2. Count(event_head, event_tail, EventSize)
          = IF event_head >= event_tail THEN event_head - event_tail
            ELSE event_head - event_tail + EventSize
    BY EventRingFacts, EventSizeFact, CountValue
  <1>3. Advance(event_head, EventSize) = IF event_head = EventSize - 1 THEN 0 ELSE event_head + 1
    BY EventRingFacts, EventSizeFact, AdvanceValue
  <1> QED
    BY <1>1, <1>2, <1>3, EventRingFacts, EventSizeFact DEF Index

(* wireless_event_enqueue is the push of the FIFO. *)
LEMMA EventEnqueueIsPush ==
    ASSUME EventInv, NEW e \in Event, EventEnqueue(e)
    PROVE  /\ EventTypeOK'
           /\ Contents(event_queue, event_head, event_tail, EventSize)'
                = EFifo!Push(Contents(event_queue, event_head, event_tail, EventSize), e)
  <1>0. /\ event_queue \in [Index(EventSize) -> EventSlot] /\ e \in EventSlot
        /\ event_head \in Index(EventSize) /\ event_tail \in Index(EventSize)
        /\ Advance(event_head, EventSize) \in Index(EventSize)
        /\ Advance(event_tail, EventSize) \in Index(EventSize)
    BY EventRingFacts, EventSizeFact, AdvanceValue DEF EventInv, EventSlot
  <1>1. EventTypeOK'
    BY <1>0 DEF EventInv, EventTypeOK, EventEnqueue, EventSlot
  <1>2. /\ event_queue' \in [Index(EventSize) -> EventSlot]
        /\ Writes(event_queue, event_head, e, event_queue', EventSize)
        /\ event_head' = Advance(event_head, EventSize)
    BY <1>0 DEF EventEnqueue, Writes
  <1>3. ASSUME NEW t \in Index(EventSize), Advance(event_head, EventSize) # t
        PROVE  Contents(event_queue', event_head', t, EventSize)
                 = Append(Contents(event_queue, event_head, t, EventSize), e)
    <2>1. Contents(event_queue', Advance(event_head, EventSize), t, EventSize)
            = Append(Contents(event_queue, event_head, t, EventSize), e)
      BY <1>0, <1>2, <1>3, EventSizeFact, ContentsAppend
    <2> QED BY <1>2, <2>1
  <1>4. CASE Advance(event_head, EventSize) # event_tail
    <2>1. Contents(event_queue, event_head, event_tail, EventSize)'
            = Append(Contents(event_queue, event_head, event_tail, EventSize), e)
      BY <1>0, <1>3, <1>4 DEF EventEnqueue
    <2>2. Len(Contents(event_queue, event_head, event_tail, EventSize)) # EventSize - 1
      BY <1>4, EventsFull DEF EventInv
    <2> QED BY <1>1, <2>1, <2>2 DEF EFifo!Push
  <1>5. CASE Advance(event_head, EventSize) = event_tail
    <2>1. event_tail' = Advance(event_tail, EventSize) /\ event_tail' \in Index(EventSize)
      BY <1>0, <1>5 DEF EventEnqueue
    <2>2. event_head # event_tail /\ Advance(event_head, EventSize) # event_tail'
      <3>1. /\ Advance(event_head, EventSize) = IF event_head = EventSize - 1 THEN 0 ELSE event_head + 1
            /\ Advance(event_tail, EventSize) = IF event_tail = EventSize - 1 THEN 0 ELSE event_tail + 1
        BY <1>0, EventSizeFact, AdvanceValue
      <3> QED BY <1>0, <1>5, <2>1, <3>1, EventSizeFact DEF Index
    <2>3. Contents(event_queue, event_head, event_tail', EventSize)
            = Tail(Contents(event_queue, event_head, event_tail, EventSize))
      BY <1>0, <2>1, <2>2, EventSizeFact, ContentsTail
    <2>4. Contents(event_queue', event_head', event_tail', EventSize)
            = Append(Contents(event_queue, event_head, event_tail', EventSize), e)
      BY <1>3, <2>1, <2>2
    <2>5. Len(Contents(event_queue, event_head, event_tail, EventSize)) = EventSize - 1
      BY <1>5, EventsFull DEF EventInv
    <2> QED BY <1>1, <2>3, <2>4, <2>5 DEF EFifo!Push
  <1> QED BY <1>4, <1>5

(* wireless_event_dequeue takes the head of the FIFO. *)
LEMMA EventDequeueIsPop ==
    ASSUME EventInv, EventDequeue
    PROVE  /\ EventTypeOK'
           /\ Contents(event_queue, event_head, event_tail, EventSize) # <<>>
           /\ event' = Head(Contents(event_queue, event_head, event_tail, EventSize))
           /\ Contents(event_queue, event_head, event_tail, EventSize)'
                = Tail(Contents(event_queue, event_head, event_tail, EventSize))
  <1>0. /\ event_queue \in [Index(EventSize) -> EventSlot]
        /\ event_head \in Index(EventSize) /\ event_tail \in Index(EventSize)
        /\ Advance(event_tail, EventSize) \in Index(EventSize)
    BY EventRingFacts, EventSizeFact, AdvanceValue DEF EventInv
  <1>1. EventTypeOK'
    BY <1>0 DEF EventInv, EventTypeOK, EventDequeue, EventSlot
  <1>2. /\ Contents(event_queue, event_head, event_tail, EventSize) # <<>>
        /\ Head(Contents(event_queue, event_head, event_tail, EventSize)) = event_queue[event_tail]
        /\ Contents(event_queue, event_head, Advance(event_tail, EventSize), EventSize)
             = Tail(Contents(event_queue, event_head, event_tail, EventSize))
    BY <1>0, EventSizeFact, ContentsTail DEF EventDequeue
  <1> QED BY <1>1, <1>2 DEF EventDequeue

(* The cleared ring holds nothing.                                          *)
LEMMA EventInitInv == EventInit => EventInv
  <1> SUFFICES ASSUME EventInit PROVE EventInv
    OBVIOUS
  <1>1. EventTypeOK
    BY EventSizeAssumption DEF EventInit, EventTypeOK, Index
  <1>2. Count(event_head, event_tail, EventSize) = 0
    BY EventSizeFact, CountValue DEF EventInit, Index
  <1> QED BY <1>1, <1>2 DEF EventInv, PendingAreEvents

(* Every operation keeps indices and slots in order.                        *)
LEMMA EventNextInv == EventInv /\ [EventNext]_eventVars => EventInv'
  <1> SUFFICES ASSUME EventInv, [EventNext]_eventVars PROVE EventInv'
    OBVIOUS
  <1> DEFINE c == Contents(event_queue, event_head, event_tail, EventSize)
  <1>1. c \in Seq(Event)
    BY EventRingFacts, EventSizeFact, ContentsElements DEF EventInv, PendingAreEvents
  <1>2. ASSUME NEW e \in Event, EventEnqueue(e) PROVE EventInv'
    <2>1. EventTypeOK' /\ c' = EFifo!Push(c, e)
      BY <1>2, EventEnqueueIsPush
    <2>2. c' \in Seq(Event)
      <3>1. CASE Len(c) = EventSize - 1
        <4>1. c # <<>>
          BY <1>1, <3>1, EventSizeAssumption
        <4>2. Tail(c) \in Seq(Event)
          BY <1>1, <4>1
        <4> QED BY <2>1, <3>1, <4>2 DEF EFifo!Push
      <3>2. CASE Len(c) # EventSize - 1
        BY <1>1, <2>1, <3>2 DEF EFifo!Push
      <3> QED BY <3>1, <3>2
    <2>3. PendingAreEvents'
      BY <2>1, <2>2, EventSizeFact, ContentsElements DEF EventTypeOK, PendingAreEvents
    <2> QED BY <2>1, <2>3 DEF EventInv
  <1>3. CASE EventDequeue
    <2>1. EventTypeOK' /\ c # <<>> /\ c' = Tail(c)
      BY <1>3, EventDequeueIsPop
    <2>2. c' \in Seq(Event)
      BY <1>1, <2>1
    <2>3. PendingAreEvents'
      BY <2>1, <2>2, EventSizeFact, ContentsElements DEF EventTypeOK, PendingAreEvents
    <2> QED BY <2>1, <2>3 DEF EventInv
  <1>4. CASE UNCHANGED eventVars
    BY <1>4 DEF eventVars, EventInv, EventTypeOK, PendingAreEvents
  <1> QED BY <1>2, <1>3, <1>4 DEF EventNext

(* In every reachable state the indices are in range and every pending slot *)
(* holds an event the driver reported, whatever the array size.             *)
THEOREM EventQueueSafe == EventSpec => [](EventTypeOK /\ PendingAreEvents)
  <1>1. EventInit => EventInv
    BY EventInitInv
  <1>2. EventInv /\ [EventNext]_eventVars => EventInv'
    BY EventNextInv
  <1> QED BY <1>1, <1>2, PTL DEF EventSpec, EventInv

(* wireless_event_enqueue and wireless_event_dequeue implement the bounded *)
(* FIFO that displaces its oldest event, whatever the array size.          *)
THEOREM EventQueueImplementsFifo == EventSpec => ImplementsEventFifo
  <1> DEFINE c == Contents(event_queue, event_head, event_tail, EventSize)
  <1>1. EventInit => EFifo!Init
    <2> SUFFICES ASSUME EventInit PROVE EFifo!Init
      OBVIOUS
    <2>1. c \in Seq(EventSlot) /\ Len(c) = Count(event_head, event_tail, EventSize)
      BY EventInitInv, EventRingFacts, EventSizeFact, ContentsType DEF EventInv
    <2>2. Count(event_head, event_tail, EventSize) = 0
      BY EventSizeFact, CountValue DEF EventInit, Index
    <2>3. c = <<>>
      BY <2>1, <2>2
    <2> QED BY <2>3, NoEventAssumption DEF EventInit, EFifo!Init
  <1>2. EventInv /\ [EventNext]_eventVars => [EFifo!Next]_<<c, event>>
    <2> SUFFICES ASSUME EventInv, [EventNext]_eventVars PROVE [EFifo!Next]_<<c, event>>
      OBVIOUS
    <2>1. ASSUME NEW e \in Event, EventEnqueue(e) PROVE EFifo!Next
      <3>1. c' = EFifo!Push(c, e)
        BY <2>1, EventEnqueueIsPush
      <3>2. event' = event
        BY <2>1 DEF EventEnqueue
      <3> QED BY <3>1, <3>2 DEF EFifo!Next, EFifo!Enqueue
    <2>2. CASE EventDequeue
      <3>1. c # <<>> /\ event' = Head(c) /\ c' = Tail(c)
        BY <2>2, EventDequeueIsPop
      <3>2. c \in Seq(Event)
        BY EventRingFacts, EventSizeFact, ContentsElements DEF EventInv, PendingAreEvents
      <3>3. Head(c) \in Event
        BY <3>1, <3>2
      <3> QED BY <3>1, <3>3 DEF EFifo!Next, EFifo!Dequeue
    <2>3. CASE UNCHANGED eventVars
      BY <2>3 DEF eventVars
    <2> QED BY <2>1, <2>2, <2>3 DEF EventNext
  <1>3. EventInit => EventInv
    BY EventInitInv
  <1>4. EventInv /\ [EventNext]_eventVars => EventInv'
    BY EventNextInv
  <1> QED BY <1>1, <1>2, <1>3, <1>4, PTL DEF EventSpec, ImplementsEventFifo, EFifo!Spec

-----------------------------------------------------------------------------
\* The report ring.

ReportSlot == Report \cup {NoReport}

\* The inductive invariant: the types, and no cleared slot from tail to head.
ReportInv == ReportTypeOK /\ WaitingAreReports

(* The array has at least two slots.                                        *)
LEMMA ReportSizeFact == ReportSize \in Nat /\ ReportSize >= 2
  BY ReportSizeAssumption

(* The types, in the form in which the ring lemmas want them. *)
LEMMA ReportRingFacts ==
    ASSUME ReportTypeOK
    PROVE  /\ report_queue \in [Index(ReportSize) -> ReportSlot]
           /\ report_head \in Index(ReportSize)
           /\ report_tail \in Index(ReportSize)
  BY DEF ReportTypeOK, ReportSlot

(* A full ring is one whose contents have ReportSize - 1 reports. *)
LEMMA ReportsFull ==
    ASSUME ReportTypeOK
    PROVE  (Advance(report_head, ReportSize) = report_tail)
             <=> Len(Contents(report_queue, report_head, report_tail, ReportSize)) = ReportSize - 1
  <1>1. Len(Contents(report_queue, report_head, report_tail, ReportSize))
          = Count(report_head, report_tail, ReportSize)
    BY ReportRingFacts, ReportSizeFact, ContentsType
  <1>2. Count(report_head, report_tail, ReportSize)
          = IF report_head >= report_tail THEN report_head - report_tail
            ELSE report_head - report_tail + ReportSize
    BY ReportRingFacts, ReportSizeFact, CountValue
  <1>3. Advance(report_head, ReportSize) = IF report_head = ReportSize - 1 THEN 0 ELSE report_head + 1
    BY ReportRingFacts, ReportSizeFact, AdvanceValue
  <1> QED
    BY <1>1, <1>2, <1>3, ReportRingFacts, ReportSizeFact DEF Index

(* report_buffer_enqueue is the offer of the FIFO. *)
LEMMA ReportEnqueueIsOffer ==
    ASSUME ReportInv, NEW r \in Report, ReportEnqueue(r)
    PROVE  /\ ReportTypeOK'
           /\ Contents(report_queue, report_head, report_tail, ReportSize)'
                = RFifo!Offer(Contents(report_queue, report_head, report_tail, ReportSize), r)
  <1>0. /\ report_queue \in [Index(ReportSize) -> ReportSlot] /\ r \in ReportSlot
        /\ report_head \in Index(ReportSize) /\ report_tail \in Index(ReportSize)
        /\ Advance(report_head, ReportSize) \in Index(ReportSize)
    BY ReportRingFacts, ReportSizeFact, AdvanceValue DEF ReportInv, ReportSlot
  <1>1. ReportTypeOK'
    BY <1>0 DEF ReportInv, ReportTypeOK, ReportEnqueue, ReportSlot
  <1>2. CASE Advance(report_head, ReportSize) # report_tail
    <2>0. report_head' = Advance(report_head, ReportSize) /\ report_tail' = report_tail
      BY <1>2 DEF ReportEnqueue
    <2>1. /\ report_queue' \in [Index(ReportSize) -> ReportSlot]
          /\ Writes(report_queue, report_head, r, report_queue', ReportSize)
      BY <1>0, <1>2 DEF ReportEnqueue, Writes
    <2>2. ASSUME NEW t \in Index(ReportSize), Advance(report_head, ReportSize) # t
          PROVE  Contents(report_queue', Advance(report_head, ReportSize), t, ReportSize)
                   = Append(Contents(report_queue, report_head, t, ReportSize), r)
      BY <1>0, <2>1, <2>2, ReportSizeFact, ContentsAppend
    <2>3. Len(Contents(report_queue, report_head, report_tail, ReportSize)) # ReportSize - 1
      BY <1>2, ReportsFull DEF ReportInv
    <2>4. Contents(report_queue, report_head, report_tail, ReportSize)'
            = Append(Contents(report_queue, report_head, report_tail, ReportSize), r)
      BY <1>0, <1>2, <2>0, <2>2
    <2> QED BY <1>1, <2>3, <2>4 DEF RFifo!Offer
  <1>3. CASE Advance(report_head, ReportSize) = report_tail
    <2>1. Len(Contents(report_queue, report_head, report_tail, ReportSize)) = ReportSize - 1
      BY <1>3, ReportsFull DEF ReportInv
    <2>2. UNCHANGED <<report_queue, report_head, report_tail>>
      BY <1>3 DEF ReportEnqueue
    <2> QED BY <1>1, <2>1, <2>2 DEF RFifo!Offer
  <1> QED BY <1>2, <1>3

(* report_buffer_init empties the FIFO. *)
LEMMA ClearEmpties ==
    ASSUME Clear, ReportInv
    PROVE  ReportTypeOK' /\ Contents(report_queue, report_head, report_tail, ReportSize)' = <<>>
  <1>1. ReportTypeOK'
    BY ReportSizeFact DEF Clear, Cleared, ReportInv, ReportTypeOK, Index
  <1>2. Count(report_head', report_tail', ReportSize) = 0
    BY ReportSizeFact, CountValue DEF Clear, Index
  <1>3. Contents(report_queue', report_head', report_tail', ReportSize) = <<>>
    BY <1>2 DEF Contents
  <1> QED BY <1>1, <1>3

(* report_buffer_dequeue takes the head of the FIFO. *)
LEMMA ReportDequeueIsPop ==
    ASSUME ReportInv, ReportDequeue
    PROVE  /\ ReportTypeOK'
           /\ Contents(report_queue, report_head, report_tail, ReportSize) # <<>>
           /\ kb_rpt' = Head(Contents(report_queue, report_head, report_tail, ReportSize))
           /\ Contents(report_queue, report_head, report_tail, ReportSize)'
                = Tail(Contents(report_queue, report_head, report_tail, ReportSize))
  <1>0. /\ report_queue \in [Index(ReportSize) -> ReportSlot]
        /\ report_head \in Index(ReportSize) /\ report_tail \in Index(ReportSize)
        /\ Advance(report_tail, ReportSize) \in Index(ReportSize)
    BY ReportRingFacts, ReportSizeFact, AdvanceValue DEF ReportInv
  <1>1. ReportTypeOK'
    BY <1>0 DEF ReportInv, ReportTypeOK, ReportDequeue, ReportSlot
  <1>2. /\ Contents(report_queue, report_head, report_tail, ReportSize) # <<>>
        /\ Head(Contents(report_queue, report_head, report_tail, ReportSize)) = report_queue[report_tail]
        /\ Contents(report_queue, report_head, Advance(report_tail, ReportSize), ReportSize)
             = Tail(Contents(report_queue, report_head, report_tail, ReportSize))
    BY <1>0, ReportSizeFact, ContentsTail DEF ReportDequeue
  <1> QED BY <1>1, <1>2 DEF ReportDequeue

(* The cleared ring holds nothing.                                          *)
LEMMA ReportInitInv == ReportInit => ReportInv
  <1> SUFFICES ASSUME ReportInit PROVE ReportInv
    OBVIOUS
  <1>1. ReportTypeOK
    BY ReportSizeAssumption DEF ReportInit, Cleared, ReportTypeOK, Index
  <1>2. Count(report_head, report_tail, ReportSize) = 0
    BY ReportSizeFact, CountValue DEF ReportInit, Index
  <1> QED BY <1>1, <1>2 DEF ReportInv, WaitingAreReports

(* Every operation keeps indices and slots in order.                        *)
LEMMA ReportNextInv == ReportInv /\ [ReportNext]_reportVars => ReportInv'
  <1> SUFFICES ASSUME ReportInv, [ReportNext]_reportVars PROVE ReportInv'
    OBVIOUS
  <1> DEFINE c == Contents(report_queue, report_head, report_tail, ReportSize)
  <1>1. c \in Seq(Report)
    BY ReportRingFacts, ReportSizeFact, ContentsElements DEF ReportInv, WaitingAreReports
  <1>2. ASSUME NEW r \in Report, ReportEnqueue(r) PROVE ReportInv'
    <2>1. ReportTypeOK' /\ c' = RFifo!Offer(c, r)
      BY <1>2, ReportEnqueueIsOffer
    <2>2. c' \in Seq(Report)
      BY <1>1, <2>1 DEF RFifo!Offer
    <2>3. WaitingAreReports'
      BY <2>1, <2>2, ReportSizeFact, ContentsElements DEF ReportTypeOK, WaitingAreReports
    <2> QED BY <2>1, <2>3 DEF ReportInv
  <1>3. CASE ReportDequeue
    <2>1. ReportTypeOK' /\ c # <<>> /\ c' = Tail(c)
      BY <1>3, ReportDequeueIsPop
    <2>2. c' \in Seq(Report)
      BY <1>1, <2>1
    <2>3. WaitingAreReports'
      BY <2>1, <2>2, ReportSizeFact, ContentsElements DEF ReportTypeOK, WaitingAreReports
    <2> QED BY <2>1, <2>3 DEF ReportInv
  <1>4. CASE Clear
    <2>1. ReportTypeOK' /\ c' = <<>>
      BY <1>4, ClearEmpties
    <2>2. WaitingAreReports'
      <3>1. c' \in Seq(Report)
        BY <2>1
      <3> QED BY <2>1, <3>1, ReportSizeFact, ContentsElements DEF ReportTypeOK, WaitingAreReports
    <2> QED BY <2>1, <2>2 DEF ReportInv
  <1>5. CASE UNCHANGED reportVars
    BY <1>5 DEF reportVars, ReportInv, ReportTypeOK, WaitingAreReports
  <1> QED BY <1>2, <1>3, <1>4, <1>5 DEF ReportNext

(* In every reachable state the indices are in range and every pending slot *)
(* holds a report that was queued, whatever the array size.                 *)
THEOREM ReportQueueSafe == ReportSpec => [](ReportTypeOK /\ WaitingAreReports)
  <1>1. ReportInit => ReportInv
    BY ReportInitInv
  <1>2. ReportInv /\ [ReportNext]_reportVars => ReportInv'
    BY ReportNextInv
  <1> QED BY <1>1, <1>2, PTL DEF ReportSpec, ReportInv

(* report_buffer_enqueue, report_buffer_dequeue and report_buffer_init     *)
(* implement the bounded FIFO that refuses when full, whatever the size.   *)
THEOREM ReportQueueImplementsFifo == ReportSpec => ImplementsReportFifo
  <1> DEFINE c == Contents(report_queue, report_head, report_tail, ReportSize)
  <1>1. ReportInit => RFifo!Init
    <2> SUFFICES ASSUME ReportInit PROVE RFifo!Init
      OBVIOUS
    <2>1. c \in Seq(ReportSlot) /\ Len(c) = Count(report_head, report_tail, ReportSize)
      BY ReportInitInv, ReportRingFacts, ReportSizeFact, ContentsType DEF ReportInv
    <2>2. Count(report_head, report_tail, ReportSize) = 0
      BY ReportSizeFact, CountValue DEF ReportInit, Index
    <2>3. c = <<>>
      BY <2>1, <2>2
    <2> QED BY <2>3, NoReportAssumption DEF ReportInit, RFifo!Init
  <1>2. ReportInv /\ [ReportNext]_reportVars => [RFifo!Next]_<<c, kb_rpt, clears>>
    <2> SUFFICES ASSUME ReportInv, [ReportNext]_reportVars PROVE [RFifo!Next]_<<c, kb_rpt, clears>>
      OBVIOUS
    <2>1. ASSUME NEW r \in Report, ReportEnqueue(r) PROVE RFifo!Next
      <3>1. c' = RFifo!Offer(c, r)
        BY <2>1, ReportEnqueueIsOffer
      <3>2. kb_rpt' = kb_rpt /\ clears' = clears
        BY <2>1 DEF ReportEnqueue
      <3> QED BY <3>1, <3>2 DEF RFifo!Next, RFifo!Enqueue
    <2>2. CASE ReportDequeue
      <3>1. c # <<>> /\ kb_rpt' = Head(c) /\ c' = Tail(c)
        BY <2>2, ReportDequeueIsPop
      <3>2. c \in Seq(Report)
        BY ReportRingFacts, ReportSizeFact, ContentsElements DEF ReportInv, WaitingAreReports
      <3>3. Head(c) \in Report
        BY <3>1, <3>2
      <3>4. clears' = clears
        BY <2>2 DEF ReportDequeue
      <3> QED BY <3>1, <3>3, <3>4 DEF RFifo!Next, RFifo!Dequeue
    <2>3. CASE Clear
      BY <2>3, ClearEmpties DEF Clear, RFifo!Next, RFifo!Clear
    <2>4. CASE UNCHANGED reportVars
      BY <2>4 DEF reportVars
    <2> QED BY <2>1, <2>2, <2>3, <2>4 DEF ReportNext
  <1>3. ReportInit => ReportInv
    BY ReportInitInv
  <1>4. ReportInv /\ [ReportNext]_reportVars => ReportInv'
    BY ReportNextInv
  <1> QED BY <1>1, <1>2, <1>3, <1>4, PTL DEF ReportSpec, ImplementsReportFifo, RFifo!Spec

-----------------------------------------------------------------------------
\* The packet reader.

\* The length and the flag have their types, so that a reader that is stopped is
\* stopped by the length it remembers.
ReaderInv ==
    /\ wait_for_new_pkt \in BOOLEAN /\ len \in 0 .. 255
    /\ StoppedByLengthOnly

(* What is known of the constants.                                          *)
LEMMA ReaderFacts ==
  /\ BUFFER_SIZE \in Nat /\ BUFFER_SIZE >= 16
  /\ \A h \in Headers : h.at \in Nat /\ h.len \in 0 .. 255 /\ h.b0 \in 0 .. 255
  BY ReaderAssumption

(* A read is empty or has a last header, one that lies in it.               *)
LEMMA LastIsRead ==
  ASSUME NEW S \in Reads, S # {}
  PROVE  LastHeader(S) \in S /\ LastHeader(S) \in Headers
  <1>1. PICK g \in Headers, h \in Headers : S = {g, h}
    BY DEF Reads
  <1>2. g.at \in Nat /\ h.at \in Nat
    BY ReaderFacts
  <1>3. g.at <= g.at /\ h.at <= h.at /\ (g.at <= h.at \/ h.at <= g.at)
    BY <1>2
  <1>4. \E x \in S : \A y \in S : y.at <= x.at
    BY <1>1, <1>3
  <1>5. LastHeader(S) \in S
    BY <1>4 DEF LastHeader
  <1> QED BY <1>1, <1>5

(* One read: the header that counts is in it, and the reader stops only on  *)
(* the length of that header.                                               *)
LEMMA TaskReaderInv ==
  ASSUME ReaderInv, NEW S \in Reads, Task(S)
  PROVE  ReaderInv' /\ HandledWasRead'
  <1> DEFINE found == wait_for_new_pkt /\ S # {}
             h     == IF found THEN LastHeader(S) ELSE NoPacket
             open  == (found \/ ~wait_for_new_pkt) /\ len' <= BUFFER_SIZE - 5
             p     == [header |-> h, type |-> h.b0, length |-> (len' + 253) % 256]
  <1>1. /\ read' = S
        /\ len' = IF found THEN h.len ELSE len
        /\ sn' = IF found THEN h.sn ELSE sn
        /\ wait_for_new_pkt' = (open \/ (wait_for_new_pkt /\ ~found))
        /\ handled' = IF open /\ SumOk(h, len') THEN {p} ELSE {}
    BY DEF Task
  <1>2. found => h \in S /\ h \in Headers
    BY LastIsRead
  <1>3. len' \in 0 .. 255
    <2>1. CASE found
      BY <1>1, <1>2, <2>1, ReaderFacts
    <2>2. CASE ~found
      BY <1>1, <2>2 DEF ReaderInv
    <2> QED BY <2>1, <2>2
  <1> HIDE DEF h
  <1>4. wait_for_new_pkt' \in BOOLEAN
    BY <1>1
  <1>5. StoppedByLengthOnly'
    <2> SUFFICES ASSUME ~wait_for_new_pkt' PROVE len' > BUFFER_SIZE - 5
      BY DEF StoppedByLengthOnly
    <2>1. found \/ ~wait_for_new_pkt
      BY <1>1
    <2>2. ~(len' <= BUFFER_SIZE - 5)
      BY <1>1, <2>1
    <2> QED BY <1>3, <2>2, ReaderFacts
  <1>6. ASSUME open PROVE found
    <2> SUFFICES ASSUME ~found PROVE FALSE
      OBVIOUS
    <2>1. ~wait_for_new_pkt /\ len' = len /\ len <= BUFFER_SIZE - 5
      BY <1>1, <1>6
    <2>2. len > BUFFER_SIZE - 5
      BY <2>1 DEF ReaderInv, StoppedByLengthOnly
    <2> QED BY <2>1, <2>2, ReaderFacts DEF ReaderInv
  <1>7. ASSUME open, SumOk(h, len')
        PROVE  /\ h \in read' /\ h.len = len' /\ h.sn = sn'
               /\ (len' + 253) % 256 > BUFFER_SIZE => h.b0 = 0
    <2> DEFINE w == (len' + 253) % 256
    <2>1. h \in read' /\ h.len = len' /\ h.sn = sn'
      BY <1>1, <1>2, <1>6, <1>7
    <2>2. len' < 3 => h.b0 = 0
      BY <1>3, <1>7 DEF SumOk
    <2>3. len' >= 3 => w = len' - 3
      BY <1>3
    <2> HIDE DEF w
    <2>4. len' <= BUFFER_SIZE - 5
      BY <1>7
    <2>5. w > BUFFER_SIZE => len' < 3
      BY <1>3, <2>3, <2>4, ReaderFacts
    <2>6. w > BUFFER_SIZE => h.b0 = 0
      BY <2>2, <2>5
    <2> QED BY <2>1, <2>6 DEF w
  <1>8. HandledWasRead'
    <2> SUFFICES ASSUME NEW q \in handled'
                 PROVE  /\ q.header \in read' /\ q.header.len = len' /\ q.header.sn = sn'
                        /\ q.length > BUFFER_SIZE => q.type = 0
      BY DEF HandledWasRead
    <2>1. open /\ SumOk(h, len') /\ q = p
      BY <1>1
    <2>2. q.header = h /\ q.type = h.b0 /\ q.length = (len' + 253) % 256
      BY <2>1
    <2> QED BY <1>7, <2>1, <2>2
  <1> QED BY <1>3, <1>4, <1>5, <1>8 DEF ReaderInv

(* The invariant of the reader, with what it says of the packet just handled. *)
LEMMA ReaderInductive ==
  /\ ReaderInit => ReaderInv /\ HandledWasRead
  /\ ReaderInv /\ HandledWasRead /\ [ReaderNext]_readerVars => (ReaderInv /\ HandledWasRead)'
  <1>1. ReaderInit => ReaderInv /\ HandledWasRead
    BY DEF ReaderInit, ReaderInv, StoppedByLengthOnly, HandledWasRead
  <1>2. ASSUME ReaderInv, HandledWasRead, ReaderNext PROVE (ReaderInv /\ HandledWasRead)'
    BY <1>2, TaskReaderInv DEF ReaderNext
  <1>3. ASSUME ReaderInv, HandledWasRead, UNCHANGED readerVars
        PROVE  (ReaderInv /\ HandledWasRead)'
    BY <1>3 DEF readerVars, ReaderInv, StoppedByLengthOnly, HandledWasRead
  <1> QED BY <1>1, <1>2, <1>3

(* A packet handled by lkbt51_task has its header in the same read, with the *)
(* length and serial number that are remembered, and no handler looks at     *)
(* the data of one whose length wraps around.                                *)
THEOREM PacketsAreRead == ReaderSpec => []HandledWasRead
  BY ReaderInductive, PTL DEF ReaderSpec

(* Only a length above what the buffer holds stops the reader.               *)
THEOREM OnlyLengthStops == ReaderSpec => []StoppedByLengthOnly
  <1>1. ReaderInv => StoppedByLengthOnly
    BY DEF ReaderInv
  <1> QED BY <1>1, ReaderInductive, PTL DEF ReaderSpec
=============================================================================
