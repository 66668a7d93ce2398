---------------------------- MODULE ReportBuffer ----------------------------
(***************************************************************************)
(* How HID reports reach the radio module: wireless_send_* (wireless.c)    *)
(* queue a report or send it at once, report_buffer_task (report_buffer.c) *)
(* takes one report at a time out of the queue, sends it over SPI and      *)
(* repeats it until ack_handler (lkbt51.c) sees an answer or the retries   *)
(* run out.  The module (external) buffers reports in a FIFO of its own    *)
(* and answers each with a success, half-full or full acknowledgement that *)
(* carries no reference to the report it answers.                          *)
(*                                                                         *)
(* The queue is the abstract one of ReportFifo, which the ring of          *)
(* ReportQueue is proved to implement.  Times are elapsed milliseconds     *)
(* that stop counting once they are past every threshold.                  *)
(***************************************************************************)
EXTENDS Naturals, Sequences

CONSTANTS
    Capacity,     \* REPORT_BUFFER_QUEUE_SIZE - 1
    RetryCount,   \* RETPORT_RETRY_COUNT
    Intervals,    \* the values connection_interval takes
    MaxInterval,  \* the largest of them
    HalfStep,     \* added to the interval after a half-full warning
    FullStep,     \* added to the interval after a full error
    RetryGap,     \* least time between two transmissions of a report
    MaxAcks,      \* answers the module can have ready (later ones are lost)
    MaxReports,   \* bound: how many reports the model sends
    MaxLinks,     \* bound: how many times the link goes down
    Direct,       \* whether reports that bypass the queue are sent
    PromptAcks,   \* whether answers are read within the millisecond
    LossySpi,     \* whether packets and answers can be corrupted
    ClockWraps    \* whether timer_read32 can come back to 0 .. 2

ASSUME BufferAssumption ==
    /\ Capacity \in Nat \ {0} /\ RetryCount \in Nat \ {0}
    /\ MaxInterval \in Nat
    /\ Intervals \subseteq 0 .. MaxInterval /\ Intervals # {}
    /\ HalfStep \in Nat /\ FullStep \in Nat /\ RetryGap \in Nat
    /\ MaxAcks \in Nat /\ MaxReports \in Nat /\ MaxLinks \in Nat
    /\ {Direct, PromptAcks, LossySpi, ClockWraps} \subseteq BOOLEAN

NoReport == [kind |-> "none", id |-> 0, link |-> 0]

VARIABLES
    link,                 \* the part of wireless_state that gates reports
    queue,                \* the reports waiting, oldest first
    kb_rpt,               \* the report last taken out of the queue
    retry,                \* transmissions of kb_rpt still allowed
    connection_interval,
    report_interval,
    sinceReport,          \* time since report_timer_buffer
    sinceRetry,           \* time since retry_time_buffer
    clockLow,             \* timer_read32() <= 2
    acks,                 \* module: answers not yet read
    \* history, read by the properties only
    nextId,               \* next report number
    links,                \* how many times the link went down
    sends,                \* transmissions of kb_rpt so far
    accepted,             \* numbers of the reports the module took
    givenUp,              \* numbers the firmware drops by itself
    newest                \* number of the last keyboard report the module took

vars == <<link, queue, kb_rpt, retry, connection_interval, report_interval,
          sinceReport, sinceRetry, clockLow, acks,
          nextId, links, sends, accepted, givenUp, newest>>

timers  == <<sinceReport, sinceRetry, clockLow>>
pacing  == <<connection_interval, report_interval>>
module  == <<acks, accepted, newest>>
sending == <<kb_rpt, retry, sends>>

Fifo == INSTANCE ReportFifo WITH Report <- {}, waiting <- queue, clears <- links

\* Elapsed times past which counting on would change nothing.
PastReport == MaxInterval + HalfStep + FullStep + 1
PastRetry == RetryGap + 1

\* A millisecond later.
Later(t, past) == IF t < past THEN t + 1 ELSE past

\* CONNECTED: wireless_state is WT_CONNECTED.  PINCODE: WT_PARING with
\* pincodeEntry.  LEAVING: any other state entered from CONNECTED whose
\* EVT_DISCONNECTED has not been handled.  DOWN: any other state.
LinkStates == {"DOWN", "PINCODE", "CONNECTED", "LEAVING"}

\* Both intervals start with the same default of the build.
Init ==
    /\ link = "DOWN"
    /\ queue = <<>>
    /\ kb_rpt = NoReport
    /\ retry = 0
    /\ connection_interval \in Intervals
    /\ report_interval = connection_interval
    /\ sinceReport = 0
    /\ sinceRetry = 0
    /\ clockLow = FALSE
    /\ acks = <<>>
    /\ nextId = 1
    /\ links = 0
    /\ sends = 0
    /\ accepted = {}
    /\ givenUp = {}
    /\ newest = 0

-----------------------------------------------------------------------------
\* The radio module and the SPI exchange with it.

\* Answers waiting after one more: the module has room for MaxAcks of them.
WithAck(a) == IF Len(acks) < MaxAcks THEN Append(acks, a) ELSE acks

\* lkbt51_send_cmd of report r.  How full the module's FIFO is depends on the
\* host and on mouse reports, which are never answered, so any answer can come.
Transmit(r) ==
    \/ /\ accepted' = accepted \cup {r.id}
       /\ newest' = IF r.kind = "kb" THEN r.id ELSE newest
       /\ \/ \E a \in {"SUCCESS", "HALF"} : acks' = WithAck(a)
          \/ LossySpi /\ UNCHANGED acks
    \/ /\ acks' = WithAck("FULL")
       /\ UNCHANGED <<accepted, newest>>
    \/ /\ LossySpi
       /\ UNCHANGED module

\* Mutant of AckHandler: a full error also stops the retries.
AckHandlerFullStops ==
    /\ acks # <<>>
    /\ acks' = Tail(acks)
    /\ retry' = 0
    /\ report_interval' = connection_interval +
         CASE Head(acks) = "SUCCESS" -> 0
           [] Head(acks) = "HALF"    -> HalfStep
           [] Head(acks) = "FULL"    -> FullStep
    /\ UNCHANGED <<link, queue, kb_rpt, sends, connection_interval, timers,
                   accepted, newest, nextId, links, givenUp>>

\* ack_handler for the answer to any LKBT51_CMD_SEND_* command.
AckHandler ==
    /\ acks # <<>>
    /\ acks' = Tail(acks)
    /\ \/ /\ Head(acks) = "SUCCESS"
          /\ retry' = 0
          /\ report_interval' = connection_interval
       \/ /\ Head(acks) = "HALF"
          /\ retry' = 0
          /\ report_interval' = connection_interval + HalfStep
       \/ /\ Head(acks) = "FULL"
          /\ report_interval' = connection_interval + FullStep
          /\ UNCHANGED retry
    /\ UNCHANGED <<link, queue, kb_rpt, sends, connection_interval, timers,
                   accepted, newest, nextId, links, givenUp>>

\* A status frame with LK_EVT_MSK_RPT_INTERVAL, then EVT_CONECTION_INTERVAL.
SetInterval(i) ==
    /\ connection_interval' = i
    /\ report_interval' = i
    /\ UNCHANGED <<link, queue, sending, timers, module, nextId, links, givenUp>>

-----------------------------------------------------------------------------
\* The host driver: wireless_send_keyboard, _consumer, _system.

\* The report made i-th by the current handler, counting from 0.
NewReport(k, i) == [kind |-> k, id |-> nextId + i, link |-> links]

\* Those of the numbers ns that did not make it into the queue.
Refused(ns) == {n \in ns : \A i \in DOMAIN queue' : queue'[i].id # n}

\* report_buffer_enqueue of a new report
Offer(k) ==
    /\ nextId <= MaxReports
    /\ nextId' = nextId + 1
    /\ queue' = Fifo!Offer(queue, NewReport(k, 0))
    /\ givenUp' = givenUp \cup Refused({nextId})

\* The test that lets a consumer report bypass the queue.
QueueIdle == queue = <<>> /\ sinceReport > report_interval

\* A report that bypasses the queue is sent once and never repeated.
SendOnce(r) ==
    /\ nextId <= MaxReports
    /\ Transmit(r)
    /\ givenUp' = givenUp \cup {r.id}

\* wireless_send_consumer once it knows the link is up
OfferConsumer ==
    /\ Direct
    /\ \/ /\ QueueIdle
          /\ SendOnce(NewReport("consumer", 0))
          /\ nextId' = nextId + 1
          /\ sinceReport' = 0
          /\ UNCHANGED <<queue, sinceRetry, clockLow>>
       \/ /\ ~QueueIdle
          /\ Offer("consumer")
          /\ UNCHANGED <<timers, module>>

\* The same followed by a keyboard report.
OfferConsumerAndKeys ==
    /\ Direct
    /\ \/ /\ QueueIdle
          /\ nextId < MaxReports
          /\ SendOnce(NewReport("consumer", 0))
          /\ queue' = <<NewReport("kb", 1)>>
          /\ nextId' = nextId + 2
          /\ sinceReport' = 0
          /\ UNCHANGED <<sinceRetry, clockLow>>
       \/ /\ ~QueueIdle
          /\ nextId < MaxReports
          /\ nextId' = nextId + 2
          /\ queue' = Fifo!Offer(Fifo!Offer(queue, NewReport("consumer", 0)),
                                NewReport("kb", 1))
          /\ givenUp' = givenUp \cup Refused({nextId, nextId + 1})
          /\ UNCHANGED <<timers, module>>

SendKeyboard ==
    /\ link \in {"CONNECTED", "PINCODE"}
    /\ Offer("kb")
    /\ UNCHANGED <<link, sending, pacing, timers, module, links>>

SendConsumer ==
    /\ link = "CONNECTED"
    /\ OfferConsumer
    /\ UNCHANGED <<link, sending, pacing, links>>

SendSystem ==
    /\ link = "CONNECTED"
    /\ Direct
    /\ SendOnce(NewReport("system", 0))
    /\ nextId' = nextId + 1
    /\ UNCHANGED <<link, queue, sending, pacing, timers, links>>

-----------------------------------------------------------------------------
\* report_buffer_task, in its three outcomes.

TaskGuard ==
    /\ link = "CONNECTED"
    /\ queue # <<>> \/ retry > 0
    /\ sinceReport > report_interval

\* Nothing outstanding: take the next report and send it.
TakeNext ==
    /\ TaskGuard
    /\ retry = 0
    /\ ~clockLow
    /\ kb_rpt' = Head(queue)
    /\ queue' = Tail(queue)
    /\ retry' = RetryCount
    /\ sends' = 1
    /\ sinceRetry' = 0
    /\ sinceReport' = 0
    /\ Transmit(kb_rpt')
    /\ UNCHANGED <<link, pacing, clockLow, nextId, links, givenUp>>

\* The same in the first milliseconds of the clock: taken but not sent.
TakeUnsent ==
    /\ TaskGuard
    /\ retry = 0
    /\ clockLow
    /\ kb_rpt' = Head(queue)
    /\ queue' = Tail(queue)
    /\ sends' = 0
    /\ givenUp' = givenUp \cup {kb_rpt'.id}
    /\ UNCHANGED <<link, retry, pacing, timers, module, nextId, links>>

\* Mutant of Resend: the report goes back behind the others.
ResendAtTheEnd ==
    /\ TaskGuard
    /\ retry > 0
    /\ sinceRetry > RetryGap
    /\ kb_rpt' = IF queue = <<>> THEN kb_rpt ELSE Head(queue)
    /\ queue' = IF queue = <<>> THEN queue ELSE Append(Tail(queue), kb_rpt)
    /\ retry' = retry - 1
    /\ sends' = sends + 1
    /\ sinceRetry' = 0
    /\ sinceReport' = 0
    /\ Transmit(kb_rpt')
    /\ givenUp' = IF retry' = 0 THEN givenUp \cup {kb_rpt.id} ELSE givenUp
    /\ UNCHANGED <<link, pacing, clockLow, nextId, links>>

\* Mutant of Resend: the retry counter is not decremented.
ResendForever ==
    /\ TaskGuard
    /\ retry > 0
    /\ sinceRetry > RetryGap
    /\ sends' = IF sends > RetryCount THEN sends ELSE sends + 1
    /\ sinceRetry' = 0
    /\ sinceReport' = 0
    /\ Transmit(kb_rpt)
    /\ UNCHANGED <<link, queue, kb_rpt, retry, pacing, clockLow, nextId, links,
                   givenUp>>

\* A report is outstanding: send it again.
Resend ==
    /\ TaskGuard
    /\ retry > 0
    /\ sinceRetry > RetryGap
    /\ retry' = retry - 1
    /\ sends' = sends + 1
    /\ sinceRetry' = 0
    /\ sinceReport' = 0
    /\ Transmit(kb_rpt)
    /\ givenUp' = IF retry' = 0 THEN givenUp \cup {kb_rpt.id} ELSE givenUp
    /\ UNCHANGED <<link, queue, kb_rpt, pacing, clockLow, nextId, links>>

-----------------------------------------------------------------------------
\* Time and the link.

Tick ==
    /\ PromptAcks => acks = <<>>
    /\ sinceReport' = Later(sinceReport, PastReport)
    /\ sinceRetry' = Later(sinceRetry, PastRetry)
    /\ clockLow' \in IF ClockWraps THEN BOOLEAN ELSE {FALSE}
    /\ UNCHANGED <<link, queue, sending, pacing, module, nextId, links, givenUp>>

\* The reports that report_buffer_init drops.
Dropped ==
    {queue[i].id : i \in DOMAIN queue} \cup (IF retry > 0 THEN {kb_rpt.id} ELSE {})

\* Mutant of ClearBuffer: only the ring is cleared, the retries go on.
ClearQueueOnly ==
    /\ queue' = <<>>
    /\ sinceReport' = 0
    /\ givenUp' = givenUp \cup Dropped
    /\ UNCHANGED retry

\* report_buffer_init called at run time.
ClearBuffer ==
    /\ queue' = <<>>
    /\ retry' = 0
    /\ sinceReport' = 0
    /\ givenUp' = givenUp \cup Dropped

\* wireless_enter_connected, again too if the module repeats its frame.  Its
\* clear_keyboard sends an empty consumer report and an empty keyboard report,
\* each only if the last one was not empty.
EnterConnected ==
    /\ link # "LEAVING"
    /\ link' = "CONNECTED"
    /\ \/ UNCHANGED <<queue, timers, module, nextId, givenUp>>
       \/ OfferConsumer
       \/ Offer("kb") /\ UNCHANGED <<timers, module>>
       \/ OfferConsumerAndKeys
    /\ UNCHANGED <<sending, pacing, links>>

\* wireless_enter_bluetooth_pin_code_entry while pairing, and its exit.
PinCodeEntry ==
    /\ \/ link = "DOWN" /\ link' = "PINCODE"
       \/ link = "PINCODE" /\ link' = "DOWN"
    /\ UNCHANGED <<queue, sending, pacing, timers, module, nextId, links, givenUp>>

\* wireless_connect_ex to another host, wireless_pairing_ex, or a module event
\* that leaves WT_CONNECTED without clearing the buffer.
LeaveConnected ==
    /\ link = "CONNECTED"
    /\ link' = "LEAVING"
    /\ UNCHANGED <<queue, sending, pacing, timers, module, nextId, links, givenUp>>

\* wireless_enter_disconnected
EnterDisconnected ==
    /\ links < MaxLinks
    /\ link' = "DOWN"
    /\ ClearBuffer
    /\ links' = links + 1
    /\ UNCHANGED <<kb_rpt, sends, pacing, sinceRetry, clockLow, acks, accepted,
                   newest, nextId>>

\* lpm_task after a sleep.
WakeUp ==
    /\ ClearBuffer
    /\ UNCHANGED <<link, kb_rpt, sends, pacing, sinceRetry, clockLow, module,
                   nextId, links>>

Task == TakeNext \/ TakeUnsent \/ Resend

Next ==
    \/ AckHandler
    \/ \E i \in Intervals : SetInterval(i)
    \/ SendKeyboard \/ SendConsumer \/ SendSystem
    \/ TakeNext \/ TakeUnsent \/ Resend
    \/ Tick
    \/ EnterConnected \/ PinCodeEntry \/ LeaveConnected \/ EnterDisconnected
    \/ WakeUp

Spec == Init /\ [][Next]_vars

\* The main loop calls report_buffer_task and lkbt51_task for ever and time
\* passes; nothing is assumed of the module, the keys or the link.
FairSpec == Spec /\ WF_vars(Task) /\ WF_vars(Tick) /\ WF_vars(AckHandler)

-----------------------------------------------------------------------------
\* Properties.

Reports == [kind : {"kb", "consumer"}, id : 1 .. MaxReports, link : 0 .. MaxLinks]

TypeOK ==
    /\ link \in LinkStates
    /\ queue \in Seq(Reports) /\ Len(queue) <= Capacity
    /\ kb_rpt \in Reports \cup {NoReport}
    /\ retry \in 0 .. RetryCount
    /\ connection_interval \in Intervals
    /\ report_interval \in Nat
    /\ sinceReport \in 0 .. PastReport /\ sinceRetry \in 0 .. PastRetry
    /\ clockLow \in BOOLEAN
    /\ acks \in Seq({"SUCCESS", "HALF", "FULL"}) /\ Len(acks) <= MaxAcks
    /\ nextId \in 1 .. MaxReports + 1
    /\ links \in 0 .. MaxLinks
    /\ sends \in 0 .. RetryCount + 1
    /\ accepted \subseteq 1 .. MaxReports
    /\ givenUp \subseteq 1 .. MaxReports
    /\ newest \in 0 .. MaxReports

\* However answers are lost, delayed or attributed to the wrong report, no
\* report is sent more than 1 + RETPORT_RETRY_COUNT times.
RetryBudget == retry > 0 => sends + retry = RetryCount + 1

\* A keyboard report is a snapshot of the keys held: the module never takes an
\* older snapshot after a newer one, although reports are repeated.
NoStaleSnapshot == [][newest' >= newest]_newest

\* Nothing queued or outstanding when the link went down is sent on a later
\* link: what report_buffer_task can send belongs to the current one.
SameLink ==
    /\ \A i \in DOMAIN queue : queue[i].link = links
    /\ retry > 0 => kb_rpt.link = links

\* A report handed over is in the queue, outstanding, taken by the module, or was
\* given up: it found the queue full, its retries were used up, the link went down,
\* the board slept, or it was taken while timer_read32() was at most 2 (TakeUnsent).
NotForgotten ==
    \A n \in 1 .. nextId - 1 :
        \/ n \in accepted \cup givenUp
        \/ \E i \in DOMAIN queue : queue[i].id = n
        \/ retry > 0 /\ kb_rpt.id = n

\* A macro of REPORT_BUFFER_QUEUE_SIZE / 2 characters, two reports each, fits:
\* none of the first REPORT_BUFFER_QUEUE_SIZE reports is refused.
MacroFits == [][SendKeyboard /\ nextId <= Capacity + 1 => queue' # queue]_vars

\* On a link that stays up the queue is eventually worked off, even if the
\* module never answers.
QueueDrains ==
    link = "CONNECTED" /\ queue # <<>>
        ~> (queue = <<>> /\ retry = 0) \/ link # "CONNECTED"
=============================================================================
