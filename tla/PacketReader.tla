----------------------------- MODULE PacketReader -----------------------------
(***************************************************************************)
(* The second half of lkbt51_task: looking for a packet of the radio       *)
(* module in what one SPI transfer has read, checking it and handing it to *)
(* lkbt51_event_handler.  What it looks for is kept from one read to the   *)
(* next in static variables.                                               *)
(*                                                                         *)
(* A read is abstracted to the headers in it, the places at which 0xAA     *)
(* 0x57 is followed by a length and its complement: packets, or bytes of   *)
(* a packet that look like one.  pbuf[0] and pbuf[1], the two bytes after  *)
(* a header, matter when the length is too small for a checksum.           *)
(***************************************************************************)
EXTENDS Naturals, FiniteSets

CONSTANTS
    BUFFER_SIZE,   \* 64
    Headers        \* the headers a read may hold: place, length, serial number,
                   \* pbuf[0] and pbuf[1], and whether the checksum is right

ASSUME ReaderAssumption ==
    /\ BUFFER_SIZE \in 16 .. 255
    /\ Headers \subseteq [at : 10 .. BUFFER_SIZE - 6, len : 0 .. 255, sn : 0 .. 255,
                          b0 : 0 .. 255, b1 : 0 .. 255, sum : BOOLEAN]

\* At the start of buf is the answer to the read command, never a packet.
NoPacket == [at |-> 0, len |-> 255, sn |-> 0, b0 |-> 0, b1 |-> 0, sum |-> FALSE]

VARIABLES
    wait_for_new_pkt,
    len,
    sn,
    read,      \* history: the headers of the last read
    handled    \* history: the packets handled in it: the header, type and length
               \* given to lkbt51_event_handler

readerVars == <<wait_for_new_pkt, len, sn, read, handled>>

ReaderInit ==
    /\ wait_for_new_pkt = TRUE
    /\ len = 255
    /\ sn = 0
    /\ read = {}
    /\ handled = {}

\* The checksum of the n - 2 bytes after header h against the two bytes at n - 2
\* and n - 1.  Below 2 these are bytes of the header itself: for 0 the
\* complement of the length and the serial number, for 1 the serial number and
\* pbuf[0].  Whether a longer packet is intact is h.sum; it is any value when the
\* packet reaches past the end of the buffer.
SumOk(h, n) ==
    CASE n = 0 -> FALSE
      [] n = 1 -> h.sn = 0 /\ h.b0 = 0
      [] n = 2 -> h.b0 = 0 /\ h.b1 = 0
      [] OTHER -> h.sum

\* The loop over buf has no break: the last header counts.
LastHeader(S) == CHOOSE h \in S : \A g \in S : g.at <= h.at

\* Mutant of Task: only a packet that was handled makes room for the next.
TaskWaitsForGood(S) ==
    LET found == wait_for_new_pkt /\ S # {}
        h     == IF found THEN LastHeader(S) ELSE NoPacket
        open  == (found \/ ~wait_for_new_pkt) /\ len' <= BUFFER_SIZE - 5
    IN /\ read' = S
       /\ len' = IF found THEN h.len ELSE len
       /\ sn' = IF found THEN h.sn ELSE sn
       /\ wait_for_new_pkt' = IF open THEN SumOk(h, len') ELSE wait_for_new_pkt /\ ~found
       /\ handled' = IF open /\ (SumOk(h, len') \/ ~found)
                       THEN {[header |-> h, type |-> h.b0, length |-> (len' + 253) % 256]}
                       ELSE {}

\* Mutant of Task: the length is that of the first header, the rest of the last.
TaskLengthOfFirst(S) ==
    LET found == wait_for_new_pkt /\ S # {}
        h     == IF found THEN LastHeader(S) ELSE NoPacket
        open  == (found \/ ~wait_for_new_pkt) /\ len' <= BUFFER_SIZE - 5
    IN /\ read' = S
       /\ len' = IF found THEN (CHOOSE g \in S : \A f \in S : g.at <= f.at).len ELSE len
       /\ sn' = IF found THEN h.sn ELSE sn
       /\ wait_for_new_pkt' = (open \/ (wait_for_new_pkt /\ ~found))
       /\ handled' = IF open /\ SumOk(h, len')
                       THEN {[header |-> h, type |-> h.b0, length |-> (len' + 253) % 256]}
                       ELSE {}

\* lkbt51_task after a read of headers S.  len - 3 is passed on in 8 bits.
Task(S) ==
    LET found == wait_for_new_pkt /\ S # {}
        h     == IF found THEN LastHeader(S) ELSE NoPacket
        open  == (found \/ ~wait_for_new_pkt) /\ len' <= BUFFER_SIZE - 5
    IN /\ read' = S
       /\ len' = IF found THEN h.len ELSE len
       /\ sn' = IF found THEN h.sn ELSE sn
       /\ wait_for_new_pkt' = (open \/ (wait_for_new_pkt /\ ~found))
       /\ handled' = IF open /\ SumOk(h, len')
                       THEN {[header |-> h, type |-> h.b0, length |-> (len' + 253) % 256]}
                       ELSE {}

\* A read holds no header, one, or two at different places.
Reads == {{}} \cup {S \in {{g, h} : g, h \in Headers} :
                        Cardinality({h.at : h \in S}) = Cardinality(S)}

ReaderNext == \E S \in Reads : Task(S)

ReaderSpec == ReaderInit /\ [][ReaderNext]_readerVars

-----------------------------------------------------------------------------
\* Properties.

\* Although length and serial number outlive the read they were found in, a
\* packet handled has its header in the same read: none is put together from the
\* length of one read and the bytes of another.  A length below 3 wraps around to
\* 253 or more bytes of data; it passes the checksum only with type 0, for which
\* no handler looks at data.
HandledWasRead ==
    \A p \in handled :
        /\ p.header \in read /\ p.header.len = len /\ p.header.sn = sn
        /\ p.length > BUFFER_SIZE => p.type = 0

\* Only a length above what the buffer holds, which the test for its complement
\* lets pass, ever stops the reader from looking for the next packet: a bad
\* checksum or a read without a header does not.
StoppedByLengthOnly == ~wait_for_new_pkt => len > BUFFER_SIZE - 5
=============================================================================
