------------------------------- MODULE MCRadio -------------------------------
(***************************************************************************)
(* What lies between the radio module and the rest: the event ring, the    *)
(* report ring and the packet reader.  They share no state, so a behaviour *)
(* follows one of them and the others stay as they are at the start.       *)
(***************************************************************************)
EXTENDS EventQueue, ReportQueue, PacketReader

VARIABLE part   \* which one is followed

vars == <<eventVars, reportVars, readerVars, part>>

Init ==
    /\ part \in {"events", "reports", "reader"}
    /\ EventInit /\ ReportInit /\ ReaderInit

Next ==
    /\ UNCHANGED part
    /\ \/ part = "events"  /\ EventNext  /\ UNCHANGED <<reportVars, readerVars>>
       \/ part = "reports" /\ ReportNext /\ UNCHANGED <<eventVars, readerVars>>
       \/ part = "reader"  /\ ReaderNext /\ UNCHANGED <<eventVars, reportVars>>

Spec == Init /\ [][Next]_vars

-----------------------------------------------------------------------------
\* Lengths around the smallest packet and around the largest that is accepted,
\* each with every value of the bytes its checksum depends on.

MCPlaces == {10, 58}
MCBytes(Ls, Sns, B0s, B1s, Sums) ==
    [at : MCPlaces, len : Ls, sn : Sns, b0 : B0s, b1 : B1s, sum : Sums]

MCHeaders ==
    MCBytes({0, 1}, {0, 1}, {0, 161}, {1}, {FALSE})
        \cup MCBytes({2}, {1}, {0, 161}, {0, 1}, {FALSE})
        \cup MCBytes({3, 59, 60}, {0, 1}, {161}, {1}, BOOLEAN)
=============================================================================
