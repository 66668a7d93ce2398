------------------------ MODULE ReportBuffer_proofs ------------------------
(***************************************************************************)
(* Proofs about ReportBuffer for every queue capacity, retry count, report *)
(* interval and number of reports.                                         *)
(***************************************************************************)
EXTENDS ReportBuffer, TLAPS

Answers == {"SUCCESS", "HALF", "FULL"}

\* An outstanding report is a report.
OutstandingIsReport == retry > 0 => kb_rpt \in Reports

TInv == TypeOK /\ RetryBudget /\ OutstandingIsReport

USE BufferAssumption

-----------------------------------------------------------------------------

(* Offering a report to a well-typed queue leaves a well-typed queue.       *)
LEMMA OfferType ==
  ASSUME NEW q, q \in Seq(Reports), Len(q) <= Capacity, NEW r, r \in Reports
  PROVE  Fifo!Offer(q, r) \in Seq(Reports) /\ Len(Fifo!Offer(q, r)) <= Capacity
  BY DEF Fifo!Offer

(* Sending any report keeps what is known of the module well typed.         *)
LEMMA TransmitType ==
  ASSUME NEW r, r.id \in 1 .. MaxReports, TypeOK, Transmit(r)
  PROVE  /\ acks' \in Seq(Answers) /\ Len(acks') <= MaxAcks
         /\ accepted' \subseteq 1 .. MaxReports
         /\ newest' \in 0 .. MaxReports
  <1>1. \A a \in Answers : WithAck(a) \in Seq(Answers) /\ Len(WithAck(a)) <= MaxAcks
    BY DEF TypeOK, WithAck, Answers
  <1>2. acks \in Seq(Answers) /\ Len(acks) <= MaxAcks
    BY DEF TypeOK, Answers
  <1>3. acks' \in Seq(Answers) /\ Len(acks') <= MaxAcks
    BY <1>1, <1>2 DEF Transmit, module, Answers
  <1>4. accepted' \subseteq 1 .. MaxReports
    BY DEF Transmit, module, TypeOK
  <1>5. newest' \in 0 .. MaxReports
    BY DEF Transmit, module, TypeOK
  <1> QED BY <1>3, <1>4, <1>5

(* A report numbered by the current handler is well typed.                  *)
LEMMA NewReportType ==
  ASSUME TypeOK, NEW k, k \in {"kb", "consumer"}, NEW i, i \in 0 .. 1,
         nextId + i <= MaxReports
  PROVE  NewReport(k, i) \in Reports
  BY DEF TypeOK, NewReport, Reports

(* What the queue refuses among numbers in use is a set of such numbers.    *)
LEMMA RefusedType ==
  ASSUME NEW ns, ns \subseteq 1 .. MaxReports
  PROVE  Refused(ns) \subseteq 1 .. MaxReports
  BY DEF Refused

-----------------------------------------------------------------------------

(* Nothing is outstanding after report_buffer_init.                         *)
LEMMA InitTInv == Init => TInv
  <1> SUFFICES ASSUME Init PROVE TInv
    OBVIOUS
  <1>1. TypeOK
    <2>1. connection_interval \in Intervals /\ report_interval \in Nat
      BY DEF Init
    <2>2. 0 \in 0 .. PastReport /\ 0 \in 0 .. PastRetry
      BY DEF PastReport, PastRetry
    <2>3. queue \in Seq(Reports) /\ Len(queue) <= Capacity
      BY DEF Init
    <2>4. acks \in Seq({"SUCCESS", "HALF", "FULL"}) /\ Len(acks) <= MaxAcks
      BY DEF Init
    <2>5. clockLow \in BOOLEAN
      BY DEF Init
    <2>6. kb_rpt \in Reports \cup {NoReport}
      BY DEF Init
    <2>7. /\ retry \in 0 .. RetryCount /\ sends \in 0 .. RetryCount + 1
          /\ links \in 0 .. MaxLinks /\ nextId \in 1 .. MaxReports + 1
          /\ newest \in 0 .. MaxReports
      BY DEF Init
    <2> QED BY <2>1, <2>2, <2>3, <2>4, <2>5, <2>6, <2>7 DEF Init, TypeOK, LinkStates
  <1>2. retry = 0
    BY DEF Init
  <1> QED BY <1>1, <1>2 DEF TInv, RetryBudget, OutstandingIsReport

(* An answer ends the retries or leaves them as they are.                   *)
LEMMA AckHandlerTInv == TInv /\ AckHandler => TInv'
  <1> SUFFICES ASSUME TInv, AckHandler PROVE TInv'
    OBVIOUS
  <1>1. acks' \in Seq(Answers) /\ Len(acks') <= MaxAcks
    BY DEF TInv, TypeOK, AckHandler, Answers
  <1>2. retry' \in {0, retry} /\ report_interval' \in Nat
    BY DEF TInv, TypeOK, AckHandler
  <1>3. TypeOK'
    BY <1>1, <1>2 DEF TInv, TypeOK, AckHandler, timers, Answers, Reports, LinkStates,
       PastReport, PastRetry
  <1> QED BY <1>2, <1>3 DEF TInv, AckHandler, RetryBudget, OutstandingIsReport, Reports

(* A new connection interval does not touch the retries.                    *)
LEMMA SetIntervalTInv ==
    ASSUME TInv, NEW i \in Intervals, SetInterval(i) PROVE TInv'
  <1>1. TypeOK'
    BY DEF TInv, TypeOK, SetInterval, sending, timers, module, Reports, LinkStates,
       PastReport, PastRetry
  <1> QED BY <1>1 DEF TInv, SetInterval, sending, RetryBudget, OutstandingIsReport, Reports

(* report_buffer_enqueue of one report keeps queue and numbers well typed.  *)
LEMMA OfferStep ==
  ASSUME TypeOK, NEW k, k \in {"kb", "consumer"}, Offer(k)
  PROVE  /\ queue' \in Seq(Reports) /\ Len(queue') <= Capacity
         /\ nextId' \in 1 .. MaxReports + 1
         /\ givenUp' \subseteq 1 .. MaxReports
  <1>1. NewReport(k, 0) \in Reports
    BY NewReportType DEF Offer, TypeOK
  <1>2. queue \in Seq(Reports) /\ Len(queue) <= Capacity
    BY DEF TypeOK
  <1>3. queue' \in Seq(Reports) /\ Len(queue') <= Capacity
    BY <1>1, <1>2, OfferType DEF Offer
  <1>4. Refused({nextId}) \subseteq 1 .. MaxReports
    BY RefusedType DEF Offer, TypeOK
  <1>5. givenUp' \subseteq 1 .. MaxReports
    BY <1>4 DEF Offer, TypeOK
  <1>6. nextId' \in 1 .. MaxReports + 1
    BY DEF Offer, TypeOK
  <1> QED BY <1>3, <1>5, <1>6

(* So does sending one past the queue, and so does offering a consumer one. *)
LEMMA SendOnceStep ==
  ASSUME TypeOK, NEW k, SendOnce(NewReport(k, 0))
  PROVE  /\ acks' \in Seq(Answers) /\ Len(acks') <= MaxAcks
         /\ accepted' \subseteq 1 .. MaxReports
         /\ newest' \in 0 .. MaxReports
         /\ givenUp' \subseteq 1 .. MaxReports
  <1>1. NewReport(k, 0).id = nextId /\ nextId \in 1 .. MaxReports
    BY DEF SendOnce, NewReport, TypeOK
  <1>2. Transmit(NewReport(k, 0))
    BY DEF SendOnce
  <1> QED BY <1>1, <1>2, TransmitType DEF SendOnce, TypeOK

\* What OfferConsumer and the rest leave well typed.
SentType ==
    /\ queue \in Seq(Reports) /\ Len(queue) <= Capacity
    /\ nextId \in 1 .. MaxReports + 1
    /\ givenUp \subseteq 1 .. MaxReports
    /\ acks \in Seq(Answers) /\ Len(acks) <= MaxAcks
    /\ accepted \subseteq 1 .. MaxReports
    /\ newest \in 0 .. MaxReports
    /\ sinceReport \in 0 .. PastReport /\ sinceRetry \in 0 .. PastRetry
    /\ clockLow \in BOOLEAN

(* SentType is part of TypeOK.                                              *)
LEMMA SentTypeNow == TypeOK => SentType
  BY DEF TypeOK, SentType, Answers

(* A consumer report is queued or sent once.                                *)
LEMMA OfferConsumerStep == TypeOK /\ OfferConsumer => SentType'
  <1> SUFFICES ASSUME TypeOK, OfferConsumer PROVE SentType'
    OBVIOUS
  <1>1. CASE QueueIdle /\ SendOnce(NewReport("consumer", 0)) /\ nextId' = nextId + 1
             /\ sinceReport' = 0 /\ UNCHANGED <<queue, sinceRetry, clockLow>>
    <2>1. nextId <= MaxReports
      BY <1>1 DEF SendOnce
    <2> QED BY <1>1, <2>1, SendOnceStep, SentTypeNow
            DEF SentType, TypeOK, PastReport, PastRetry
  <1>2. CASE Offer("consumer") /\ UNCHANGED <<timers, module>>
    BY <1>2, OfferStep, SentTypeNow DEF SentType, timers, module, PastReport, PastRetry
  <1> QED BY <1>1, <1>2 DEF OfferConsumer

(* So are the two reports of clear_keyboard.                                *)
LEMMA OfferConsumerAndKeysStep == TypeOK /\ OfferConsumerAndKeys => SentType'
  <1> SUFFICES ASSUME TypeOK, OfferConsumerAndKeys PROVE SentType'
    OBVIOUS
  <1>1. nextId + 1 <= MaxReports /\ nextId' = nextId + 2 /\ nextId \in 1 .. MaxReports
    BY DEF OfferConsumerAndKeys, TypeOK
  <1>2. NewReport("consumer", 0) \in Reports /\ NewReport("kb", 1) \in Reports
    BY <1>1, NewReportType
  <1>3. nextId' \in 1 .. MaxReports + 1
    BY <1>1
  <1>4. CASE SendOnce(NewReport("consumer", 0)) /\ queue' = <<NewReport("kb", 1)>>
             /\ sinceReport' = 0 /\ UNCHANGED <<sinceRetry, clockLow>>
    <2>1. queue' \in Seq(Reports) /\ Len(queue') <= Capacity
      BY <1>2, <1>4
    <2> QED BY <1>3, <1>4, <2>1, SendOnceStep, SentTypeNow
            DEF SentType, PastReport, PastRetry
  <1>5. CASE /\ queue' = Fifo!Offer(Fifo!Offer(queue, NewReport("consumer", 0)),
                                   NewReport("kb", 1))
             /\ givenUp' = givenUp \cup Refused({nextId, nextId + 1})
             /\ UNCHANGED <<timers, module>>
    <2> DEFINE q == Fifo!Offer(queue, NewReport("consumer", 0))
    <2>1. q \in Seq(Reports) /\ Len(q) <= Capacity
      BY <1>2, OfferType DEF TypeOK
    <2> HIDE DEF q
    <2>2. queue' \in Seq(Reports) /\ Len(queue') <= Capacity
      BY <1>2, <1>5, <2>1, OfferType DEF q
    <2>3. Refused({nextId, nextId + 1}) \subseteq 1 .. MaxReports
      BY <1>1, RefusedType
    <2>4. givenUp' \subseteq 1 .. MaxReports
      BY <1>5, <2>3 DEF TypeOK
    <2> QED BY <1>3, <1>5, <2>2, <2>4, SentTypeNow
            DEF SentType, timers, module, PastReport, PastRetry
  <1> QED BY <1>4, <1>5 DEF OfferConsumerAndKeys

(* A step that keeps the sender's part and leaves the rest typed keeps TInv. *)
LEMMA KeepSender ==
  ASSUME TInv, SentType', UNCHANGED <<sending, pacing, links>>, link' \in LinkStates
  PROVE  TInv'
  <1>1. TypeOK'
    BY DEF TInv, TypeOK, SentType, sending, pacing, Answers
  <1> QED BY <1>1 DEF TInv, sending, RetryBudget, OutstandingIsReport, Reports

(* The host driver never changes the outstanding report.                    *)
LEMMA SendTInv ==
    TInv /\ (SendKeyboard \/ SendConsumer \/ SendSystem \/ EnterConnected) => TInv'
  <1> SUFFICES ASSUME TInv, SendKeyboard \/ SendConsumer \/ SendSystem \/ EnterConnected
               PROVE  TInv'
    OBVIOUS
  <1>1. TypeOK /\ SentType /\ link \in LinkStates
    BY SentTypeNow DEF TInv, TypeOK
  <1>2. ASSUME Offer("kb"), UNCHANGED <<timers, module>> PROVE SentType'
    BY <1>1, <1>2, OfferStep DEF SentType, timers, module, PastReport, PastRetry
  <1>3. CASE SendKeyboard
    BY <1>1, <1>2, <1>3, KeepSender DEF SendKeyboard
  <1>4. CASE SendConsumer
    BY <1>1, <1>4, OfferConsumerStep, KeepSender DEF SendConsumer
  <1>5. CASE SendSystem
    <2>1. SendOnce(NewReport("system", 0)) /\ nextId' = nextId + 1
          /\ nextId <= MaxReports
      BY <1>5 DEF SendSystem, SendOnce
    <2>2. nextId' \in 1 .. MaxReports + 1
      BY <1>1, <2>1 DEF TypeOK
    <2>3. SentType'
      BY <1>1, <1>5, <2>1, <2>2, SendOnceStep
         DEF SendSystem, SentType, timers, PastReport, PastRetry
    <2> QED BY <1>1, <1>5, <2>3, KeepSender DEF SendSystem
  <1>6. CASE EnterConnected
    <2>1. link' \in LinkStates /\ UNCHANGED <<sending, pacing, links>>
      BY <1>6 DEF EnterConnected, LinkStates
    <2>2. UNCHANGED <<queue, timers, module, nextId, givenUp>> => SentType'
      BY <1>1 DEF SentType, timers, module, PastReport, PastRetry
    <2>3. SentType'
      BY <1>1, <1>2, <1>6, <2>2, OfferConsumerStep, OfferConsumerAndKeysStep
         DEF EnterConnected
    <2> QED BY <2>1, <2>3, KeepSender
  <1> QED BY <1>3, <1>4, <1>5, <1>6

(* The task's three outcomes.  Only they start or use up retries.           *)
LEMMA TakeTInv == TInv /\ (TakeNext \/ TakeUnsent) => TInv'
  <1> SUFFICES ASSUME TInv, TakeNext \/ TakeUnsent PROVE TInv'
    OBVIOUS
  <1>1. queue # <<>> /\ retry = 0 /\ queue \in Seq(Reports) /\ Len(queue) <= Capacity
    BY DEF TInv, TypeOK, TakeNext, TakeUnsent, TaskGuard
  <1>a. Head(queue) \in Reports
    BY <1>1
  <1>2. Head(queue) \in Reports /\ Head(queue).id \in 1 .. MaxReports
    BY <1>a DEF Reports
  <1>3. Tail(queue) \in Seq(Reports) /\ Len(Tail(queue)) <= Capacity
    BY <1>1
  <1>4. SentType
    BY SentTypeNow DEF TInv
  <1>5. CASE TakeNext
    <2>1. Transmit(Head(queue))
      BY <1>5 DEF TakeNext
    <2>2. /\ acks' \in Seq(Answers) /\ Len(acks') <= MaxAcks
          /\ accepted' \subseteq 1 .. MaxReports /\ newest' \in 0 .. MaxReports
      BY <1>2, <2>1, TransmitType DEF TInv
    <2>3. SentType'
      BY <1>3, <1>4, <1>5, <2>2 DEF SentType, TakeNext, PastReport, PastRetry
    <2>4. /\ kb_rpt' \in Reports /\ retry' \in 0 .. RetryCount
          /\ sends' \in 0 .. RetryCount + 1
      BY <1>2, <1>5 DEF TakeNext
    <2>5. TypeOK'
      BY <1>5, <2>3, <2>4 DEF TInv, TypeOK, SentType, TakeNext, pacing, Answers
    <2> QED BY <1>5, <2>4, <2>5 DEF TInv, TakeNext, RetryBudget, OutstandingIsReport
  <1>6. CASE TakeUnsent
    <2>1. SentType'
      BY <1>2, <1>3, <1>4, <1>6 DEF SentType, TakeUnsent, timers, module
    <2>2. TypeOK'
      BY <1>2, <1>6, <2>1 DEF TInv, TypeOK, SentType, TakeUnsent, pacing, Answers
    <2> QED BY <1>1, <1>6, <2>2 DEF TInv, TakeUnsent, RetryBudget, OutstandingIsReport
  <1> QED BY <1>5, <1>6

(* A retry uses up one of the transmissions that are left.                  *)
LEMMA ResendTInv == TInv /\ Resend => TInv'
  <1> SUFFICES ASSUME TInv, Resend PROVE TInv'
    OBVIOUS
  <1>1. /\ retry \in 1 .. RetryCount /\ sends \in 0 .. RetryCount + 1
        /\ sends + retry = RetryCount + 1
    BY DEF TInv, TypeOK, RetryBudget, Resend
  <1>2. kb_rpt \in Reports /\ kb_rpt.id \in 1 .. MaxReports
    BY <1>1 DEF TInv, OutstandingIsReport, Reports
  <1>3. /\ retry' \in 0 .. RetryCount /\ sends' \in 0 .. RetryCount + 1
        /\ sends' + retry' = RetryCount + 1
    BY <1>1 DEF Resend
  <1>4. SentType
    BY SentTypeNow DEF TInv
  <1>5. /\ acks' \in Seq(Answers) /\ Len(acks') <= MaxAcks
        /\ accepted' \subseteq 1 .. MaxReports /\ newest' \in 0 .. MaxReports
    BY <1>2, TransmitType DEF TInv, Resend
  <1>6. givenUp' \subseteq 1 .. MaxReports
    BY <1>2, <1>4 DEF Resend, SentType
  <1>7. SentType'
    BY <1>4, <1>5, <1>6 DEF SentType, Resend, PastReport, PastRetry
  <1>8. TypeOK'
    BY <1>2, <1>3, <1>7 DEF TInv, TypeOK, SentType, Resend, pacing, Answers
  <1> QED BY <1>2, <1>3, <1>8 DEF TInv, Resend, RetryBudget, OutstandingIsReport

(* Time changes only the timers.                                            *)
LEMMA TickTInv == TInv /\ Tick => TInv'
  <1> SUFFICES ASSUME TInv, Tick PROVE TInv'
    OBVIOUS
  <1>1. SentType
    BY SentTypeNow DEF TInv
  <1>2. clockLow' \in BOOLEAN
    BY DEF Tick
  <1>3. sinceReport' \in 0 .. PastReport /\ sinceRetry' \in 0 .. PastRetry
    BY <1>1 DEF Tick, Later, SentType, PastReport, PastRetry
  <1>4. SentType'
    BY <1>1, <1>2, <1>3 DEF SentType, Tick, module
  <1>5. UNCHANGED <<sending, pacing, links>> /\ link' \in LinkStates
    BY DEF Tick, TInv, TypeOK
  <1> QED BY <1>4, <1>5, KeepSender

(* What report_buffer_init drops are numbers of reports.                    *)
LEMMA DroppedType == TInv => Dropped \subseteq 1 .. MaxReports
  <1> SUFFICES ASSUME TInv PROVE Dropped \subseteq 1 .. MaxReports
    OBVIOUS
  <1>1. \A r \in Reports : r.id \in 1 .. MaxReports
    BY DEF Reports
  <1>2. \A i \in DOMAIN queue : queue[i] \in Reports
    BY DEF TInv, TypeOK
  <1>3. retry > 0 => kb_rpt \in Reports
    BY DEF TInv, OutstandingIsReport
  <1> QED BY <1>1, <1>2, <1>3 DEF Dropped

(* Link changes leave the retries alone or clear them.                      *)
LEMMA LinkTInv ==
    TInv /\ (PinCodeEntry \/ LeaveConnected \/ EnterDisconnected \/ WakeUp) => TInv'
  <1> SUFFICES ASSUME TInv,
                      PinCodeEntry \/ LeaveConnected \/ EnterDisconnected \/ WakeUp
               PROVE  TInv'
    OBVIOUS
  <1>1. SentType
    BY SentTypeNow DEF TInv
  <1>2. CASE PinCodeEntry \/ LeaveConnected
    <2>1. SentType'
      BY <1>1, <1>2 DEF PinCodeEntry, LeaveConnected, SentType, timers, module
    <2>2. UNCHANGED <<sending, pacing, links>> /\ link' \in LinkStates
      BY <1>2 DEF PinCodeEntry, LeaveConnected, LinkStates
    <2> QED BY <2>1, <2>2, KeepSender
  <1>3. CASE EnterDisconnected \/ WakeUp
    <2>1. /\ ClearBuffer /\ UNCHANGED <<acks, accepted, newest, nextId>>
          /\ UNCHANGED <<kb_rpt, sends, pacing, sinceRetry, clockLow>>
      BY <1>3 DEF EnterDisconnected, WakeUp, module
    <2>2. givenUp' \subseteq 1 .. MaxReports
      BY <1>1, <2>1, DroppedType DEF ClearBuffer, SentType
    <2>3. queue' \in Seq(Reports) /\ Len(queue') <= Capacity
      BY <2>1 DEF ClearBuffer
    <2>4. SentType'
      BY <1>1, <2>1, <2>2, <2>3 DEF ClearBuffer, SentType, PastReport, PastRetry
    <2>5. link' \in LinkStates /\ links' \in 0 .. MaxLinks
      BY <1>3 DEF EnterDisconnected, WakeUp, TInv, TypeOK, LinkStates
    <2>6. retry' = 0
      BY <2>1 DEF ClearBuffer
    <2>7. TypeOK'
      BY <2>1, <2>4, <2>5, <2>6 DEF TInv, TypeOK, SentType, pacing, Answers
    <2> QED BY <2>6, <2>7 DEF TInv, RetryBudget, OutstandingIsReport
  <1> QED BY <1>2, <1>3

(* A stuttering step changes nothing.                                       *)
LEMMA StutterTInv == TInv /\ UNCHANGED vars => TInv'
  <1> SUFFICES ASSUME TInv, UNCHANGED vars PROVE TInv'
    OBVIOUS
  <1>1. SentType'
    BY SentTypeNow DEF TInv, vars, SentType
  <1>2. UNCHANGED <<sending, pacing, links>> /\ link' \in LinkStates
    BY DEF vars, sending, pacing, TInv, TypeOK
  <1> QED BY <1>1, <1>2, KeepSender

(* Every step preserves the invariant.                                      *)
LEMMA NextTInv == TInv /\ [Next]_vars => TInv'
  BY AckHandlerTInv, SetIntervalTInv, SendTInv, TakeTInv, ResendTInv, TickTInv,
     LinkTInv, StutterTInv DEF Next

(* The state of the report sender is well typed, and however the answers    *)
(* are lost, delayed or taken for those of another report, no report is     *)
(* sent more often than once plus RETPORT_RETRY_COUNT times.                *)
THEOREM RetriesBounded == Spec => [](TypeOK /\ RetryBudget)
  <1>1. TInv => TypeOK /\ RetryBudget
    BY DEF TInv
  <1> QED BY <1>1, InitTInv, NextTInv, PTL DEF Spec

-----------------------------------------------------------------------------
\* The queue holds reports of link l, in the order of their numbers, which
\* lie strictly between lo and hi.
OrderedQueue(q, lo, hi, l) ==
    /\ q \in Seq(Reports)
    /\ \A i \in 1 .. Len(q) : lo < q[i].id /\ q[i].id < hi /\ q[i].link = l
    /\ \A i, j \in 1 .. Len(q) : i < j => q[i].id < q[j].id

\* Numbers grow from what the module has, over the report outstanding and
\* the reports waiting, to the next one.
OrderInv ==
    /\ OrderedQueue(queue, kb_rpt.id, nextId, links)
    /\ kb_rpt.id < nextId
    /\ newest <= kb_rpt.id
    /\ retry > 0 => kb_rpt.link = links

(* Numbers of reports are numbers.                                          *)
LEMMA IdsAreNumbers ==
  /\ \A r \in Reports : r.id \in Nat /\ r.link \in Nat
  /\ TypeOK => kb_rpt.id \in Nat /\ nextId \in Nat /\ newest \in Nat /\ links \in Nat
  <1>1. \A r \in Reports : r.id \in Nat /\ r.link \in Nat
    BY DEF Reports
  <1>2. NoReport.id \in Nat
    BY DEF NoReport
  <1> QED BY <1>1, <1>2 DEF TypeOK

(* A report with the next number keeps the queue ordered.                   *)
LEMMA OrderedOffer ==
  ASSUME NEW q, NEW lo, NEW hi, NEW l, lo \in Nat, hi \in Nat, lo < hi,
         OrderedQueue(q, lo, hi, l),
         NEW r, r \in Reports, r.id = hi, r.link = l
  PROVE  OrderedQueue(Fifo!Offer(q, r), lo, hi + 1, l)
  <1> DEFINE p == Fifo!Offer(q, r)
  <1>1. \A i \in 1 .. Len(q) : q[i] \in Reports /\ q[i].id \in Nat
    BY IdsAreNumbers DEF OrderedQueue
  <1>2. CASE Len(q) = Capacity
    <2>1. p = q
      BY <1>2 DEF Fifo!Offer
    <2> QED BY <1>1, <2>1 DEF OrderedQueue
  <1>3. CASE Len(q) # Capacity
    <2>1. p = Append(q, r) /\ q \in Seq(Reports)
      BY <1>3 DEF Fifo!Offer, OrderedQueue
    <2>2. /\ p \in Seq(Reports) /\ Len(p) = Len(q) + 1 /\ p[Len(q) + 1] = r
          /\ \A i \in 1 .. Len(q) : p[i] = q[i]
      BY <2>1
    <2> HIDE DEF p
    <2>3. ASSUME NEW i, i \in 1 .. Len(p)
          PROVE  lo < p[i].id /\ p[i].id < hi + 1 /\ p[i].link = l
      <3>1. CASE i = Len(q) + 1
        BY <2>2, <3>1
      <3>2. CASE i \in 1 .. Len(q)
        BY <1>1, <2>2, <3>2 DEF OrderedQueue
      <3> QED BY <2>1, <2>2, <2>3, <3>1, <3>2
    <2>4. ASSUME NEW i, NEW j, i \in 1 .. Len(p), j \in 1 .. Len(p), i < j
          PROVE  p[i].id < p[j].id
      <3>1. i \in 1 .. Len(q)
        BY <2>1, <2>2, <2>4
      <3>2. CASE j = Len(q) + 1
        BY <2>2, <3>1, <3>2 DEF OrderedQueue
      <3>3. CASE j \in 1 .. Len(q)
        BY <2>2, <2>4, <3>1, <3>3 DEF OrderedQueue
      <3> QED BY <2>1, <2>2, <2>4, <3>2, <3>3
    <2> QED BY <2>2, <2>3, <2>4 DEF OrderedQueue, p
  <1> QED BY <1>2, <1>3

(* Taking the first report leaves the later ones ordered.                   *)
LEMMA OrderedTail ==
  ASSUME NEW q, NEW lo, NEW hi, NEW l, OrderedQueue(q, lo, hi, l), q # <<>>
  PROVE  /\ Head(q) \in Reports /\ lo < Head(q).id /\ Head(q).id < hi
         /\ Head(q).link = l
         /\ OrderedQueue(Tail(q), Head(q).id, hi, l)
  <1>1. q \in Seq(Reports) /\ Len(q) \in Nat \ {0} /\ Head(q) = q[1]
    BY DEF OrderedQueue
  <1>2. /\ Tail(q) \in Seq(Reports) /\ Len(Tail(q)) = Len(q) - 1
        /\ \A i \in 1 .. Len(q) - 1 : Tail(q)[i] = q[i + 1]
    BY <1>1
  <1>3. \A i \in 1 .. Len(q) - 1 : i + 1 \in 1 .. Len(q) /\ 1 < i + 1
    BY <1>1
  <1>4. 1 \in 1 .. Len(q)
    BY <1>1
  <1>5. /\ Head(q) \in Reports /\ lo < Head(q).id /\ Head(q).id < hi
        /\ Head(q).link = l
    BY <1>1, <1>4 DEF OrderedQueue
  <1>6. ASSUME NEW i, i \in 1 .. Len(Tail(q))
        PROVE  /\ Head(q).id < Tail(q)[i].id /\ Tail(q)[i].id < hi
               /\ Tail(q)[i].link = l
    BY <1>1, <1>2, <1>3, <1>4, <1>6 DEF OrderedQueue
  <1>7. ASSUME NEW i, NEW j, i \in 1 .. Len(Tail(q)), j \in 1 .. Len(Tail(q)), i < j
        PROVE  Tail(q)[i].id < Tail(q)[j].id
    <2>1. i + 1 \in 1 .. Len(q) /\ j + 1 \in 1 .. Len(q) /\ i + 1 < j + 1
      BY <1>1, <1>2, <1>7
    <2>2. Tail(q)[i] = q[i + 1] /\ Tail(q)[j] = q[j + 1]
      BY <1>2, <1>7
    <2> QED BY <2>1, <2>2 DEF OrderedQueue
  <1> QED BY <1>2, <1>5, <1>6, <1>7 DEF OrderedQueue

(* Numbers below hi are below hi + 1.                                       *)
LEMMA OrderedWider ==
  ASSUME NEW q, NEW lo, NEW hi, NEW l, hi \in Nat, OrderedQueue(q, lo, hi, l)
  PROVE  OrderedQueue(q, lo, hi + 1, l)
  <1>1. \A i \in 1 .. Len(q) : q[i].id \in Nat
    BY IdsAreNumbers DEF OrderedQueue
  <1> QED BY <1>1 DEF OrderedQueue

(* An empty queue is ordered.                                               *)
LEMMA OrderedEmpty ==
  ASSUME NEW lo, NEW hi, NEW l PROVE OrderedQueue(<<>>, lo, hi, l)
  BY DEF OrderedQueue

(* Offering new reports keeps the queue ordered.                            *)
LEMMA OfferOrder ==
  ASSUME TypeOK, OrderInv, NEW k, k \in {"kb", "consumer"}, Offer(k)
  PROVE  OrderedQueue(queue', kb_rpt.id, nextId', links) /\ kb_rpt.id < nextId'
  <1>1. NewReport(k, 0) \in Reports
    BY NewReportType DEF Offer, TypeOK
  <1>2. NewReport(k, 0).id = nextId /\ NewReport(k, 0).link = links
    BY IdsAreNumbers DEF NewReport
  <1>3. nextId' = nextId + 1 /\ queue' = Fifo!Offer(queue, NewReport(k, 0))
    BY DEF Offer
  <1> QED BY <1>1, <1>2, <1>3, OrderedOffer, IdsAreNumbers DEF OrderInv

(* Reports that bypass the queue do not disturb it and are no snapshots.    *)
LEMMA SendOnceOrder ==
  ASSUME NEW k, k # "kb", SendOnce(NewReport(k, 0))
  PROVE  newest' = newest
  BY DEF SendOnce, Transmit, NewReport, module

(* A consumer report keeps the numbers ordered.                             *)
LEMMA OfferConsumerOrder ==
  ASSUME TypeOK, OrderInv, OfferConsumer
  PROVE  /\ OrderedQueue(queue', kb_rpt.id, nextId', links)
         /\ kb_rpt.id < nextId' /\ newest' = newest
  <1>1. CASE SendOnce(NewReport("consumer", 0)) /\ nextId' = nextId + 1
             /\ UNCHANGED queue
    BY <1>1, SendOnceOrder, OrderedWider, IdsAreNumbers DEF OrderInv
  <1>2. CASE Offer("consumer") /\ UNCHANGED module
    BY <1>2, OfferOrder DEF module
  <1> QED BY <1>1, <1>2 DEF OfferConsumer

(* So do the two reports of clear_keyboard.                                 *)
LEMMA OfferConsumerAndKeysOrder ==
  ASSUME TypeOK, OrderInv, OfferConsumerAndKeys
  PROVE  /\ OrderedQueue(queue', kb_rpt.id, nextId', links)
         /\ kb_rpt.id < nextId' /\ newest' = newest
  <1>1. nextId + 1 <= MaxReports /\ nextId' = nextId + 2 /\ nextId \in Nat
    BY DEF OfferConsumerAndKeys, TypeOK
  <1>2. NewReport("consumer", 0) \in Reports /\ NewReport("kb", 1) \in Reports
    BY <1>1, NewReportType DEF TypeOK
  <1>3. /\ NewReport("consumer", 0).id = nextId /\ NewReport("consumer", 0).link = links
        /\ NewReport("kb", 1).id = nextId + 1 /\ NewReport("kb", 1).link = links
    BY <1>1 DEF NewReport
  <1>4. kb_rpt.id \in Nat /\ kb_rpt.id < nextId /\ kb_rpt.id < nextId + 1
        /\ nextId + 1 \in Nat /\ nextId' = (nextId + 1) + 1 /\ kb_rpt.id < nextId'
    BY <1>1, IdsAreNumbers DEF OrderInv
  <1>5. CASE SendOnce(NewReport("consumer", 0)) /\ queue' = <<NewReport("kb", 1)>>
    <2>1. newest' = newest
      BY <1>5, SendOnceOrder
    <2>2. OrderedQueue(queue', kb_rpt.id, nextId', links)
      BY <1>2, <1>3, <1>4, <1>5 DEF OrderedQueue
    <2> QED BY <1>4, <2>1, <2>2
  <1>6. CASE /\ queue' = Fifo!Offer(Fifo!Offer(queue, NewReport("consumer", 0)),
                                   NewReport("kb", 1))
             /\ UNCHANGED module
    <2> DEFINE q == Fifo!Offer(queue, NewReport("consumer", 0))
    <2>1. OrderedQueue(q, kb_rpt.id, nextId + 1, links)
      BY <1>1, <1>2, <1>3, <1>4, OrderedOffer DEF OrderInv
    <2> HIDE DEF q
    <2>2. OrderedQueue(Fifo!Offer(q, NewReport("kb", 1)), kb_rpt.id, nextId', links)
      BY <1>2, <1>3, <1>4, <2>1, OrderedOffer
    <2> QED BY <1>4, <1>6, <2>2 DEF module, q
  <1> QED BY <1>5, <1>6 DEF OfferConsumerAndKeys

(* Every step keeps the numbers in order and never lets an older snapshot   *)
(* follow a newer one into the module.                                      *)
LEMMA NextOrder ==
  ASSUME TInv, OrderInv, [Next]_vars
  PROVE  OrderInv' /\ newest' >= newest
  <1>1. TypeOK /\ kb_rpt.id \in Nat /\ nextId \in Nat /\ newest \in Nat /\ links \in Nat
    BY IdsAreNumbers DEF TInv
  <1>2. newest >= newest
    BY <1>1
  <1>3. ASSUME UNCHANGED <<sending, links>>, newest' = newest,
               OrderedQueue(queue', kb_rpt.id, nextId', links), kb_rpt.id < nextId'
        PROVE  OrderInv' /\ newest' >= newest
    BY <1>2, <1>3 DEF OrderInv, sending
  <1>4. ASSUME UNCHANGED <<sending, links, queue, nextId, newest>>
        PROVE  OrderInv' /\ newest' >= newest
    BY <1>2, <1>4 DEF OrderInv, sending
  <1>5. CASE AckHandler
    <2>1. retry' > 0 => retry > 0
      BY <1>5 DEF AckHandler, TInv, TypeOK
    <2> QED BY <1>2, <1>5, <2>1 DEF AckHandler, OrderInv
  <1>6. CASE \E i \in Intervals : SetInterval(i)
    BY <1>4, <1>6 DEF SetInterval, module
  <1>7. CASE SendKeyboard
    BY <1>1, <1>3, <1>7, OfferOrder DEF SendKeyboard, module
  <1>8. CASE SendConsumer
    BY <1>1, <1>3, <1>8, OfferConsumerOrder DEF SendConsumer
  <1>9. CASE SendSystem
    <2>1. newest' = newest /\ nextId' = nextId + 1 /\ UNCHANGED <<queue, sending, links>>
      BY <1>9, SendOnceOrder DEF SendSystem
    <2> QED BY <1>1, <1>3, <2>1, OrderedWider DEF OrderInv
  <1>10. CASE TakeNext \/ TakeUnsent
    <2>1. queue # <<>> /\ kb_rpt' = Head(queue) /\ queue' = Tail(queue)
          /\ UNCHANGED <<nextId, links>>
      BY <1>10 DEF TakeNext, TakeUnsent, TaskGuard, TInv, TypeOK
    <2>2. /\ kb_rpt.id < kb_rpt'.id /\ kb_rpt'.id < nextId' /\ kb_rpt'.link = links'
          /\ kb_rpt' \in Reports
          /\ OrderedQueue(queue', kb_rpt'.id, nextId', links')
      BY <2>1, OrderedTail DEF OrderInv
    <2>3. kb_rpt'.id \in Nat
      BY <2>2, IdsAreNumbers
    <2>4. newest' = newest \/ newest' = kb_rpt'.id
      BY <1>10 DEF TakeNext, TakeUnsent, Transmit, module
    <2>5. newest <= kb_rpt'.id
      BY <1>1, <2>2, <2>3 DEF OrderInv
    <2>6. newest' <= kb_rpt'.id /\ newest' >= newest
      BY <1>1, <2>3, <2>4, <2>5
    <2> QED BY <2>2, <2>6 DEF OrderInv
  <1>11. CASE Resend
    <2>1. newest' = newest \/ newest' = kb_rpt.id
      BY <1>11 DEF Resend, Transmit, module
    <2>2. newest' <= kb_rpt.id /\ newest' >= newest
      BY <1>1, <2>1 DEF OrderInv
    <2>3. retry > 0
      BY <1>11 DEF Resend
    <2> QED BY <1>11, <2>2, <2>3 DEF Resend, OrderInv
  <1>12. CASE Tick \/ PinCodeEntry \/ LeaveConnected
    BY <1>4, <1>12 DEF Tick, PinCodeEntry, LeaveConnected, module
  <1>13. CASE EnterConnected
    <2>1. UNCHANGED <<sending, links>>
      BY <1>13 DEF EnterConnected
    <2>2. CASE UNCHANGED <<queue, timers, module, nextId, givenUp>>
      BY <1>4, <2>1, <2>2 DEF module
    <2>3. CASE OfferConsumer
      BY <1>1, <1>3, <2>1, <2>3, OfferConsumerOrder
    <2>4. CASE Offer("kb") /\ UNCHANGED <<timers, module>>
      BY <1>1, <1>3, <2>1, <2>4, OfferOrder DEF module
    <2>5. CASE OfferConsumerAndKeys
      BY <1>1, <1>3, <2>1, <2>5, OfferConsumerAndKeysOrder
    <2> QED BY <1>13, <2>2, <2>3, <2>4, <2>5 DEF EnterConnected
  <1>14. CASE EnterDisconnected \/ WakeUp
    <2>1. queue' = <<>> /\ retry' = 0 /\ UNCHANGED <<kb_rpt, newest, nextId>>
      BY <1>14 DEF EnterDisconnected, WakeUp, ClearBuffer, module
    <2> QED BY <1>2, <2>1, OrderedEmpty DEF OrderInv
  <1>15. CASE UNCHANGED vars
    BY <1>4, <1>15 DEF vars, sending
  <1> QED BY <1>5, <1>6, <1>7, <1>8, <1>9, <1>10, <1>11, <1>12, <1>13, <1>14, <1>15
          DEF Next

(* The numbers are in order at the start.                                   *)
LEMMA InitOrder == Init => OrderInv
  BY OrderedEmpty DEF Init, OrderInv, NoReport

(* Nothing queued or outstanding when a link went down is ever sent on a    *)
(* later link (report_buffer_init in wireless_enter_disconnected).          *)
THEOREM ReportsStayOnTheirLink == Spec => []SameLink
  <1>1. TInv /\ OrderInv /\ [Next]_vars => TInv' /\ OrderInv'
    BY NextTInv, NextOrder
  <1>2. OrderInv => SameLink
    <2>1. OrderInv => DOMAIN queue = 1 .. Len(queue)
      BY DEF OrderInv, OrderedQueue
    <2> QED BY <2>1 DEF OrderInv, OrderedQueue, SameLink
  <1> QED BY <1>1, <1>2, InitTInv, InitOrder, PTL DEF Spec

(* The module never takes an older snapshot of the keys after a newer one,  *)
(* although report_buffer_task repeats reports and answers come late.       *)
THEOREM SnapshotsInOrder == Spec => NoStaleSnapshot
  <1>1. TInv /\ OrderInv /\ [Next]_vars => TInv' /\ OrderInv'
    BY NextTInv, NextOrder
  <1>2. TInv /\ OrderInv /\ [Next]_vars => [newest' >= newest]_newest
    BY NextOrder
  <1> QED BY <1>1, <1>2, InitTInv, InitOrder, PTL DEF Spec, NoStaleSnapshot

-----------------------------------------------------------------------------
\* When every answer is read in the millisecond it is ready, one still waiting
\* answers the last transmission of kb_rpt.
AnswersOfThisReport ==
    /\ acks # <<>> => sinceReport = 0
    /\ \A i \in DOMAIN acks : acks[i] # "FULL" => kb_rpt.id \in accepted

\* Where report number n can be.
Waiting(q, n) == \E i \in DOMAIN q : q[i].id = n
Accounted(n) ==
    n \in accepted \cup givenUp \/ Waiting(queue, n) \/ (retry > 0 /\ kb_rpt.id = n)

(* NotForgotten, in terms of Accounted.                                     *)
LEMMA NotForgottenIs == NotForgotten <=> \A n \in 1 .. nextId - 1 : Accounted(n)
  BY DEF NotForgotten, Accounted, Waiting

(* A report being sent when no answer is waiting gets the only one.         *)
LEMMA TransmitAnswer ==
  ASSUME NEW r, Transmit(r), acks = <<>>
  PROVE  \A i \in DOMAIN acks' : acks'[i] # "FULL" => r.id \in accepted'
  <1>1. CASE r.id \in accepted'
    BY <1>1
  <1>2. CASE acks' = acks
    BY <1>2
  <1>3. CASE acks' = WithAck("FULL")
    <2>1. acks' = <<>> \/ acks' = <<"FULL">>
      BY <1>3 DEF WithAck
    <2> QED BY <2>1
  <1> QED BY <1>1, <1>2, <1>3 DEF Transmit, module

(* The task sends only when every answer has been read.                     *)
LEMMA TaskSeesNoAnswers ==
  ASSUME TypeOK, AnswersOfThisReport, TaskGuard PROVE acks = <<>>
  BY DEF TypeOK, AnswersOfThisReport, TaskGuard, PastReport

(* Every step of the sender, when no report bypasses the queue and answers  *)
(* are read promptly, keeps the answers matched to the outstanding report.  *)
LEMMA NextAnswers ==
  ASSUME ~Direct, PromptAcks, TInv, AnswersOfThisReport, [Next]_vars
  PROVE  AnswersOfThisReport'
  <1>1. TypeOK /\ acks \in Seq(Answers)
    BY DEF TInv, TypeOK, Answers
  <1>2. ASSUME acks' = acks, kb_rpt' = kb_rpt, accepted' = accepted,
               sinceReport' \in {0, sinceReport}
        PROVE  AnswersOfThisReport'
    BY <1>2 DEF AnswersOfThisReport
  <1>3. CASE AckHandler
    <2>1. acks # <<>> /\ acks' = Tail(acks)
          /\ UNCHANGED <<kb_rpt, accepted, sinceReport>>
      BY <1>3 DEF AckHandler, timers
    <2>2. \A i \in DOMAIN acks' : i + 1 \in DOMAIN acks /\ acks'[i] = acks[i + 1]
      BY <1>1, <2>1
    <2> QED BY <2>1, <2>2 DEF AnswersOfThisReport
  <1>4. CASE \E i \in Intervals : SetInterval(i)
    BY <1>2, <1>4 DEF SetInterval, module, sending, timers
  <1>5. CASE SendKeyboard
    BY <1>2, <1>5 DEF SendKeyboard, module, sending, timers
  <1>6. CASE SendConsumer \/ SendSystem
    BY <1>6 DEF SendConsumer, OfferConsumer, SendSystem
  <1>7. CASE TakeNext
    <2>1. TaskGuard /\ Transmit(kb_rpt') /\ sinceReport' = 0
      BY <1>7 DEF TakeNext
    <2> QED BY <1>1, <2>1, TaskSeesNoAnswers, TransmitAnswer DEF AnswersOfThisReport
  <1>8. CASE TakeUnsent
    <2>1. acks' = <<>>
      BY <1>1, <1>8, TaskSeesNoAnswers DEF TakeUnsent, module
    <2> QED BY <2>1 DEF AnswersOfThisReport
  <1>9. CASE Resend
    <2>1. TaskGuard /\ Transmit(kb_rpt) /\ sinceReport' = 0 /\ kb_rpt' = kb_rpt
      BY <1>9 DEF Resend
    <2> QED BY <1>1, <2>1, TaskSeesNoAnswers, TransmitAnswer DEF AnswersOfThisReport
  <1>10. CASE Tick
    <2>1. acks' = <<>>
      BY <1>10 DEF Tick, module
    <2> QED BY <2>1 DEF AnswersOfThisReport
  <1>11. CASE EnterConnected
    <2>1. UNCHANGED <<sending, timers, module>>
      BY <1>11 DEF EnterConnected, OfferConsumer, OfferConsumerAndKeys
    <2> QED BY <1>2, <2>1 DEF module, sending, timers
  <1>12. CASE PinCodeEntry \/ LeaveConnected
    BY <1>2, <1>12 DEF PinCodeEntry, LeaveConnected, module, sending, timers
  <1>13. CASE EnterDisconnected \/ WakeUp
    BY <1>2, <1>13 DEF EnterDisconnected, WakeUp, ClearBuffer, module
  <1>14. CASE UNCHANGED vars
    BY <1>2, <1>14 DEF vars
  <1> QED BY <1>3, <1>4, <1>5, <1>6, <1>7, <1>8, <1>9, <1>10, <1>11, <1>12, <1>13,
             <1>14 DEF Next

(* A report offered is waiting or refused, and none of the others leaves.   *)
LEMMA OfferKeeps ==
  ASSUME TypeOK, NEW k, k \in {"kb", "consumer"}, Offer(k)
  PROVE  /\ \A n : Waiting(queue, n) => Waiting(queue', n)
         /\ nextId \in givenUp' \/ Waiting(queue', nextId)
         /\ givenUp \subseteq givenUp'
  <1>1. queue \in Seq(Reports) /\ queue' = Fifo!Offer(queue, NewReport(k, 0))
    BY DEF TypeOK, Offer
  <1>2. DOMAIN queue \subseteq DOMAIN queue' /\ \A i \in DOMAIN queue : queue'[i] = queue[i]
    BY <1>1 DEF Fifo!Offer
  <1>3. givenUp' = givenUp \cup Refused({nextId})
    BY DEF Offer
  <1> QED BY <1>2, <1>3 DEF Waiting, Refused

(* Every such step also leaves every report accounted for.                  *)
LEMMA NextAccounted ==
  ASSUME ~Direct, PromptAcks, TInv, AnswersOfThisReport, NotForgotten, [Next]_vars
  PROVE  NotForgotten'
  <1>1. TypeOK /\ nextId \in Nat \ {0} /\ acks \in Seq(Answers)
        /\ queue \in Seq(Reports) /\ retry \in Nat
    BY DEF TInv, TypeOK, Answers
  <1>2. SUFFICES ASSUME NEW n, n \in 1 .. nextId' - 1 PROVE Accounted(n)'
    BY NotForgottenIs DEF NotForgotten, Accounted, Waiting
  <1>3. n \in 1 .. nextId - 1 => Accounted(n)
    BY NotForgottenIs
  <1>4. ASSUME UNCHANGED <<queue, retry, kb_rpt, accepted, givenUp, nextId>>
        PROVE  Accounted(n)'
    BY <1>2, <1>3, <1>4 DEF Accounted, Waiting
  <1>5. ASSUME Offer("kb"), UNCHANGED <<sending, module>> PROVE Accounted(n)'
    <2>1. nextId' = nextId + 1
      BY <1>5 DEF Offer
    <2>2. n = nextId \/ n \in 1 .. nextId - 1
      BY <1>1, <1>2, <2>1
    <2>3. /\ \A m : Waiting(queue, m) => Waiting(queue', m)
          /\ nextId \in givenUp' \/ Waiting(queue', nextId)
          /\ givenUp \subseteq givenUp'
      BY <1>1, <1>5, OfferKeeps
    <2>4. CASE n = nextId
      BY <2>3, <2>4 DEF Accounted, Waiting
    <2>5. CASE Accounted(n)
      BY <1>5, <2>3, <2>5 DEF Accounted, Waiting, sending, module
    <2> QED BY <1>3, <2>2, <2>4, <2>5
  <1>6. CASE AckHandler
    <2>1. /\ acks # <<>> /\ UNCHANGED <<queue, kb_rpt, accepted, givenUp, nextId>>
          /\ retry' = retry \/ Head(acks) # "FULL"
      BY <1>6 DEF AckHandler
    <2>2. Accounted(n)
      BY <1>2, <1>3, <2>1
    <2>3. CASE retry' = retry
      BY <1>4, <2>1, <2>3
    <2>4. CASE Head(acks) # "FULL"
      <3>1. 1 \in DOMAIN acks /\ Head(acks) = acks[1]
        BY <1>1, <2>1
      <3>2. kb_rpt.id \in accepted
        BY <2>4, <3>1 DEF AnswersOfThisReport
      <3> QED BY <2>1, <2>2, <3>2 DEF Accounted, Waiting
    <2> QED BY <2>1, <2>3, <2>4
  <1>7. CASE \E i \in Intervals : SetInterval(i)
    BY <1>4, <1>7 DEF SetInterval, module, sending
  <1>8. CASE SendKeyboard
    BY <1>5, <1>8 DEF SendKeyboard
  <1>9. CASE SendConsumer \/ SendSystem
    BY <1>9 DEF SendConsumer, OfferConsumer, SendSystem
  <1>10. CASE TakeNext \/ TakeUnsent
    <2>1. /\ queue # <<>> /\ retry = 0 /\ kb_rpt' = Head(queue) /\ queue' = Tail(queue)
          /\ nextId' = nextId
          /\ retry' > 0 \/ kb_rpt'.id \in givenUp'
          /\ accepted \subseteq accepted' /\ givenUp \subseteq givenUp'
      BY <1>1, <1>10 DEF TakeNext, TakeUnsent, TaskGuard, Transmit, module
    <2>2. n \in accepted \cup givenUp \/ Waiting(queue, n)
      BY <1>2, <1>3, <2>1 DEF Accounted
    <2>3. CASE n \in accepted \cup givenUp
      BY <2>1, <2>3 DEF Accounted
    <2>4. CASE Waiting(queue, n)
      <3>1. PICK i \in DOMAIN queue : queue[i].id = n
        BY <2>4 DEF Waiting
      <3>2. CASE i = 1
        <4>1. kb_rpt'.id = n
          BY <1>1, <2>1, <3>1, <3>2
        <4> QED BY <2>1, <4>1 DEF Accounted
      <3>3. CASE i # 1
        <4>1. i - 1 \in DOMAIN queue' /\ queue'[i - 1] = queue[i]
          BY <1>1, <2>1, <3>1, <3>3
        <4> QED BY <3>1, <4>1 DEF Accounted, Waiting
      <3> QED BY <3>2, <3>3
    <2> QED BY <2>2, <2>3, <2>4
  <1>11. CASE Resend
    <2>1. /\ UNCHANGED <<queue, kb_rpt, nextId>>
          /\ retry' = retry - 1 /\ retry > 0
          /\ retry' = 0 => kb_rpt.id \in givenUp'
          /\ accepted \subseteq accepted' /\ givenUp \subseteq givenUp'
      BY <1>11 DEF Resend, Transmit, module
    <2>2. retry' > 0 \/ kb_rpt.id \in givenUp'
      BY <1>1, <2>1
    <2>3. Accounted(n)
      BY <1>2, <1>3, <2>1
    <2> QED BY <2>1, <2>2, <2>3 DEF Accounted, Waiting
  <1>12. CASE Tick \/ PinCodeEntry \/ LeaveConnected
    BY <1>4, <1>12 DEF Tick, PinCodeEntry, LeaveConnected, module, sending
  <1>13. CASE EnterConnected
    <2>1. \/ UNCHANGED <<queue, sending, module, nextId, givenUp>>
          \/ Offer("kb") /\ UNCHANGED <<sending, module>>
      BY <1>13 DEF EnterConnected, OfferConsumer, OfferConsumerAndKeys
    <2> QED BY <1>4, <1>5, <2>1 DEF sending, module
  <1>14. CASE EnterDisconnected \/ WakeUp
    <2>1. /\ givenUp' = givenUp \cup Dropped /\ accepted' = accepted
          /\ nextId' = nextId
      BY <1>14 DEF EnterDisconnected, WakeUp, ClearBuffer, module
    <2>2. Accounted(n)
      BY <1>2, <1>3, <2>1
    <2>3. n \in accepted' \cup givenUp'
      BY <2>1, <2>2 DEF Accounted, Waiting, Dropped
    <2> QED BY <2>3 DEF Accounted
  <1>15. CASE UNCHANGED vars
    BY <1>4, <1>15 DEF vars
  <1> QED BY <1>6, <1>7, <1>8, <1>9, <1>10, <1>11, <1>12, <1>13, <1>14, <1>15 DEF Next

(* At the start there is nothing to forget.                                 *)
LEMMA InitAccounted == Init => AnswersOfThisReport /\ NotForgotten
  BY DEF Init, AnswersOfThisReport, NotForgotten

(* When no report bypasses the queue and every answer is read before the    *)
(* next millisecond, every report handed to wireless_send_keyboard is       *)
(* waiting, outstanding, taken by the module, or dropped by the firmware    *)
(* itself: queue full, retries used up, link down, sleep, or a timer of at  *)
(* most 2 when it was its turn.                                             *)
THEOREM NoReportForgotten ==
  ASSUME ~Direct, PromptAcks PROVE Spec => []NotForgotten
  <1>1. TInv /\ AnswersOfThisReport /\ NotForgotten /\ [Next]_vars
        => TInv' /\ AnswersOfThisReport' /\ NotForgotten'
    BY NextTInv, NextAnswers, NextAccounted
  <1> QED BY <1>1, InitTInv, InitAccounted, PTL DEF Spec
=============================================================================
