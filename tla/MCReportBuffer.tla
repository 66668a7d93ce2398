--------------------------- MODULE MCReportBuffer ---------------------------
(* Small instances of the report buffer; the runs differ in what the radio  *)
(* module may do and in whether reports may bypass the queue.               *)
EXTENDS ReportBuffer
=============================================================================
