-------------------------------- MODULE Ring --------------------------------
(***************************************************************************)
(* The ring arithmetic that wireless.c (events) and report_buffer.c        *)
(* (reports) share: an array of size slots, a head (next free slot) and a  *)
(* tail (oldest element) that advance modulo size, and the sequence of     *)
(* elements they delimit, oldest first.                                    *)
(***************************************************************************)
EXTENDS Integers, Sequences

Index(size) == 0 .. size - 1

Advance(i, size) == (i + 1) % size

\* How many elements lie between tail and head.
Count(head, tail, size) == (head - tail) % size

\* The elements from tail up to, not including, head.
Contents(slots, head, tail, size) ==
    [i \in 1 .. Count(head, tail, size) |-> slots[(tail + i - 1) % size]]
=============================================================================
