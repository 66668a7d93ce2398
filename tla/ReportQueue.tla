----------------------------- MODULE ReportQueue -----------------------------
(***************************************************************************)
(* The report ring of report_buffer.c: wireless_send_keyboard and          *)
(* wireless_send_consumer put HID reports in, report_buffer_task takes     *)
(* them out.  One slot always stays free and a report that finds the ring  *)
(* full is refused.  The ring is emptied again at run time, whenever the   *)
(* link goes down and after every sleep.                                   *)
(***************************************************************************)
EXTENDS Ring

CONSTANTS
    ReportSize,  \* REPORT_BUFFER_QUEUE_SIZE (256 in the firmware)
    Report,      \* the reports that can be queued
    NoReport     \* a slot cleared by memset: type REPORT_TYPE_NONE

\* The indices are uint8_t, so they can address at most 256 slots.
ASSUME ReportSizeAssumption == ReportSize \in 2 .. 256
ASSUME NoReportAssumption == NoReport \notin Report

VARIABLES
    report_queue,   \* report_buffer_queue
    report_head,    \* report_buffer_queue_head
    report_tail,    \* report_buffer_queue_tail
    kb_rpt,         \* the report last taken out
    clears          \* history: parity of the number of times the ring was cleared

reportVars == <<report_queue, report_head, report_tail, kb_rpt, clears>>

Cleared == [i \in Index(ReportSize) |-> NoReport]

ReportInit ==
    /\ report_queue = Cleared
    /\ report_head = 0
    /\ report_tail = 0
    /\ kb_rpt = NoReport
    /\ clears = 0

\* Mutant of ReportEnqueue: the full test forgotten, a full ring then looks empty.
EnqueueUnchecked(r) ==
    /\ report_queue' = [report_queue EXCEPT ![report_head] = r]
    /\ report_head' = Advance(report_head, ReportSize)
    /\ UNCHANGED <<report_tail, kb_rpt, clears>>

\* report_buffer_enqueue
ReportEnqueue(r) ==
    /\ \/ /\ Advance(report_head, ReportSize) = report_tail       \* full: refused
          /\ UNCHANGED <<report_queue, report_head>>
       \/ /\ Advance(report_head, ReportSize) # report_tail
          /\ report_queue' = [report_queue EXCEPT ![report_head] = r]
          /\ report_head' = Advance(report_head, ReportSize)
    /\ UNCHANGED <<report_tail, kb_rpt, clears>>

\* report_buffer_dequeue, when it returns true
ReportDequeue ==
    /\ report_head # report_tail
    /\ kb_rpt' = report_queue[report_tail]
    /\ report_tail' = Advance(report_tail, ReportSize)
    /\ UNCHANGED <<report_queue, report_head, clears>>

\* Mutant of Clear: the tail is not rewound.
ClearHeadOnly ==
    /\ report_queue' = Cleared
    /\ report_head' = 0
    /\ clears' = 1 - clears
    /\ UNCHANGED <<report_tail, kb_rpt>>

\* report_buffer_init called again
Clear ==
    /\ report_queue' = Cleared
    /\ report_head' = 0
    /\ report_tail' = 0
    /\ clears' = 1 - clears
    /\ UNCHANGED kb_rpt

ReportNext == (\E r \in Report : ReportEnqueue(r)) \/ ReportDequeue \/ Clear

ReportSpec == ReportInit /\ [][ReportNext]_reportVars

-----------------------------------------------------------------------------

\* The indices address slots and the slots hold reports.
ReportTypeOK ==
    /\ report_queue \in [Index(ReportSize) -> Report \cup {NoReport}]
    /\ report_head \in Index(ReportSize)
    /\ report_tail \in Index(ReportSize)
    /\ kb_rpt \in Report \cup {NoReport}
    /\ clears \in {0, 1}

\* Every slot between tail and head holds a queued report, also after the ring
\* was cleared half way: report_buffer_task's test for REPORT_TYPE_NONE after a
\* successful dequeue never drops anything.
WaitingAreReports ==
    \A i \in 1 .. Count(report_head, report_tail, ReportSize) :
        Contents(report_queue, report_head, report_tail, ReportSize)[i] \in Report

\* The ring behaves as the bounded FIFO that refuses when full: the arithmetic
\* of head and tail never overwrites a waiting report, nor repeats or reorders.
RFifo == INSTANCE ReportFifo WITH
    Capacity <- ReportSize - 1,
    waiting <- Contents(report_queue, report_head, report_tail, ReportSize)

ImplementsReportFifo == RFifo!Spec
=============================================================================
