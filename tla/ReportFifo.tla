----------------------------- MODULE ReportFifo -----------------------------
(***************************************************************************)
(* What the report queue of report_buffer.c promises: a first-in first-out *)
(* queue of at most Capacity reports that refuses a report, and keeps the  *)
(* ones it has, when it is full, and that report_buffer_init empties.      *)
(***************************************************************************)
EXTENDS Naturals, Sequences

CONSTANTS
    Capacity,  \* how many reports it holds
    Report

VARIABLES
    waiting,   \* the reports not yet sent, oldest first
    kb_rpt,    \* the report last taken out
    clears     \* parity of the number of times it was emptied: nothing but
               \* report_buffer_init may forget what is waiting

\* q after report r is offered.
Offer(q, r) == IF Len(q) = Capacity THEN q ELSE Append(q, r)

Init ==
    /\ waiting = <<>>
    /\ kb_rpt \notin Report
    /\ clears = 0

Enqueue(r) ==
    /\ waiting' = Offer(waiting, r)
    /\ UNCHANGED <<kb_rpt, clears>>

Dequeue ==
    /\ waiting # <<>>
    /\ kb_rpt' = Head(waiting)
    /\ kb_rpt' \in Report
    /\ waiting' = Tail(waiting)
    /\ UNCHANGED clears

Clear ==
    /\ waiting' = <<>>
    /\ clears' = 1 - clears
    /\ UNCHANGED kb_rpt

Next == (\E r \in Report : Enqueue(r)) \/ Dequeue \/ Clear

Spec == Init /\ [][Next]_<<waiting, kb_rpt, clears>>
=============================================================================
